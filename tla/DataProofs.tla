------------------------------ MODULE DataProofs ------------------------------
(***************************************************************************)
(* Proofs about what is made of the measurements, for every length of the  *)
(* history, every value measured and every limit: how an hour's energy is  *)
(* booked (EnergySplit), which runs are found (RunDetection), what a day   *)
(* of the heat pump is compared with (ShiftReport), how the balance of the *)
(* heating closes (HeatBalance) and what a repeated import keeps           *)
(* (HistoryImport).  The models share no state; each has a section with an *)
(* inductive invariant of its own.                                         *)
(***************************************************************************)
EXTENDS EnergySplit, RunDetection, ShiftReport, HeatBalance, HistoryImport, SumLemmas, TLAPS

----------------------------------------------------------------------------
(* The hour *)

\* What a field of a row may be.
FieldValues == Int \cup {Silent}
\* What the battery's account may be: what the battery can hold.
Origins == {o \in [pv : Nat, grid : Nat] : Content(o) <= Capacity}

\* What the rows so far are.
RowsKnown ==
  /\ Now \in Nat /\ DOMAIN rows = 1..Now /\ lastRow \in 0..Now
  /\ \A m \in 1..Now : \A f \in Fields : rows[m][f] \in FieldValues
  /\ \A f \in Fields : lastHeld[f].value \in FieldValues /\ lastHeld[f].age \in 0..(MaxHold + 1)

\* The sun of the minutes around one, as a sum (with_charge_window).
LEMMA SunAroundSum ==
  ASSUME NEW m, IsFiniteSet(Around(m))
  PROVE  SunAround(m) = SumOver([k \in Around(m) |-> Sun(k)], Around(m))
  <1> DEFINE S == Around(m)
             w == [k \in S |-> Sun(k)]
             Sums(F) == F = [s \in SUBSET S |-> IF s = {} THEN 0
                               ELSE Sun(CHOOSE x \in s : TRUE) + F[s \ {CHOOSE x \in s : TRUE}]]
  <1>1. ASSUME NEW F PROVE Sums(F) <=> Adds(F, w, S)
    BY PickedIn DEF Picked, Adds
  <1>2. SunAround(m) = (CHOOSE F : Sums(F))[S]
    BY DEF SunAround, Total, FoldSet, MapThenFoldSet
  <1> HIDE DEF S, w, Sums
  <1>3. (CHOOSE F : Sums(F)) = (CHOOSE F : Adds(F, w, S))
    BY <1>1
  <1> QED
    BY <1>2, <1>3 DEF SumOver, S, w

\* The charge of the minutes around one, as a sum (with_charge_window).
LEMMA ChargedAroundSum ==
  ASSUME NEW m, IsFiniteSet(Around(m))
  PROVE  ChargedAround(m) = SumOver([k \in Around(m) |-> Charged(k)], Around(m))
  <1> DEFINE S == Around(m)
             w == [k \in S |-> Charged(k)]
             Sums(F) == F = [s \in SUBSET S |-> IF s = {} THEN 0
                               ELSE Charged(CHOOSE x \in s : TRUE) + F[s \ {CHOOSE x \in s : TRUE}]]
  <1>1. ASSUME NEW F PROVE Sums(F) <=> Adds(F, w, S)
    BY PickedIn DEF Picked, Adds
  <1>2. ChargedAround(m) = (CHOOSE F : Sums(F))[S]
    BY DEF ChargedAround, Total, FoldSet, MapThenFoldSet
  <1> HIDE DEF S, w, Sums
  <1>3. (CHOOSE F : Sums(F)) = (CHOOSE F : Adds(F, w, S))
    BY <1>1
  <1> QED
    BY <1>2, <1>3 DEF SumOver, S, w

\* What the booked minutes add up to, as a sum (hourly_energy).
LEMMA FlowSum ==
  ASSUME NEW p, IsFiniteSet(BookedNow)
  PROVE  SumOf(p) = SumOver([m \in BookedNow |-> flows[m][p]], BookedNow)
  <1> DEFINE S == BookedNow
             w == [m \in S |-> flows[m][p]]
             Sums(F) == F = [s \in SUBSET S |-> IF s = {} THEN 0
                               ELSE flows[CHOOSE x \in s : TRUE][p] + F[s \ {CHOOSE x \in s : TRUE}]]
  <1>1. ASSUME NEW F PROVE Sums(F) <=> Adds(F, w, S)
    BY PickedIn DEF Picked, Adds
  <1>2. SumOf(p) = (CHOOSE F : Sums(F))[S]
    BY DEF SumOf, Total, FoldSet, MapThenFoldSet
  <1> HIDE DEF S, w, Sums
  <1>3. (CHOOSE F : Sums(F)) = (CHOOSE F : Adds(F, w, S))
    BY <1>1
  <1> QED
    BY <1>2, <1>3 DEF SumOver, S, w

\* The powers of a booked minute.
LEMMA MinutePowers ==
  ASSUME RowsKnown, NEW m \in Booked
  PROVE  /\ m \in 1..Now /\ Sun(m) \in Nat /\ Charged(m) \in Nat /\ Discharged(m) \in Nat /\ House(m) \in Nat
  <1>1. m \in 1..Now
    BY DEF Booked, RowsKnown
  <1>2. rows[m].pv \in Int /\ rows[m].grid \in Int /\ rows[m].bat \in FieldValues
    BY <1>1 DEF Booked, RowsKnown, FieldValues, Fields
  <1>3. Battery(m) \in Int
    BY <1>2, SplitAssumption DEF Battery, FieldValues
  <1> QED
    BY <1>1, <1>2, <1>3 DEF Sun, Charged, Discharged, House, Max0

\* Both are natural numbers.
LEMMA AroundSums ==
  ASSUME RowsKnown, NEW m
  PROVE  SunAround(m) \in Nat /\ ChargedAround(m) \in Nat
  <1>1. IsFiniteSet(Around(m)) /\ Around(m) \subseteq Booked
    <2>1. Around(m) \subseteq 1..Now
      BY MinutePowers DEF Around
    <2>2. IsFiniteSet(1..Now)
      <3>1. 1 \in Int /\ Now \in Int
        BY DEF RowsKnown
      <3> QED
        BY <3>1, FS_Interval
    <2> QED
      BY <2>1, <2>2, FS_Subset DEF Around
  <1>2. \A k \in Around(m) : Sun(k) \in Nat /\ Charged(k) \in Nat
    BY <1>1, MinutePowers
  <1>3. SumOver([k \in Around(m) |-> Sun(k)], Around(m)) \in Nat
    BY <1>1, <1>2, SumNat
  <1>4. SumOver([k \in Around(m) |-> Charged(k)], Around(m)) \in Nat
    BY <1>1, <1>2, SumNat
  <1> QED
    BY <1>1, <1>3, <1>4, SunAroundSum, ChargedAroundSum

\* The sun's share of a charge is a part of it.
LEMMA SharePart ==
  ASSUME RowsKnown, NEW m, NEW x \in Nat
  PROVE  SunShare(m, x) \in 0..x
  <1> DEFINE a == ChargedAround(m)
             b == Lesser(SunAround(m), ChargedAround(m))
  <1>1. a \in Nat /\ b \in 0..a
    BY AroundSums DEF Lesser
  <1>2. SunShare(m, x) = IF a = 0 THEN 0 ELSE (x * b) \div a
    BY DEF SunShare
  <1> HIDE DEF a, b
  <1>3. a # 0 => (x * b) \div a \in 0..x
    BY <1>1, DivPart
  <1> QED
    BY <1>2, <1>3

\* The flows of a minute are natural numbers, and what goes to the house was discharged.
LEMMA MinuteFlows ==
  ASSUME RowsKnown, NEW m \in Booked
  PROVE  /\ SunToBattery(m) \in Nat /\ GridToBattery(m) \in Nat
         /\ BatteryToHouse(m) \in 0..Discharged(m)
  <1>1. DeviceUse(m) \in 0..Charged(m) /\ Charged(m) \in Nat
    BY MinutePowers, SplitAssumption DEF DeviceUse, Lesser
  <1>2. SunToBattery(m) \in 0..(Charged(m) - DeviceUse(m))
    BY <1>1, SharePart DEF SunToBattery
  <1>3. SunShare(m, DeviceUse(m)) \in Nat
    BY <1>1, SharePart
  <1>4. SunToHouse(m) \in 0..House(m)
    BY <1>2, <1>3, MinutePowers DEF SunToHouse, Lesser, Max0
  <1> QED
    BY <1>1, <1>2, <1>4, MinutePowers DEF GridToBattery, BatteryToHouse, Lesser

\* What is charged fits in, and brings no more sun than there was.
LEMMA ChargeFits ==
  ASSUME NEW o \in Origins, NEW s \in Nat, NEW g \in Nat
  PROVE  After(o, s, g) \in Origins /\ After(o, s, g).pv <= o.pv + s
  <1> DEFINE pv == o.pv + s
             all == pv + o.grid + g
             part == (pv * Capacity) \div all
  <1>1. pv \in Nat /\ all \in Nat /\ Capacity \in Nat /\ pv <= all /\ o.grid \in Nat
    BY SplitAssumption DEF Origins
  <1>2. After(o, s, g) = IF all <= Capacity THEN [pv |-> pv, grid |-> o.grid + g]
                         ELSE [pv |-> part, grid |-> Capacity - part]
    BY DEF After
  <1>3. CASE all <= Capacity
    BY <1>1, <1>2, <1>3 DEF Origins, Content
  <1>4. CASE Capacity < all
    <2>1. Capacity \in 0..all /\ all \in Nat \ {0} /\ pv \in 0..all
      BY <1>1, <1>4
    <2> HIDE DEF pv, all
    <2>2. part \in 0..pv
      BY <1>1, <2>1, DivPart
    <2>3. part \in 0..Capacity
      <3>1. (Capacity * pv) \div all \in 0..Capacity
        BY <1>1, <2>1, DivPart
      <3>2. Capacity * pv = pv * Capacity
        BY <1>1, <2>1
      <3> QED
        BY <3>1, <3>2
    <2>4. After(o, s, g) = [pv |-> part, grid |-> Capacity - part]
      BY <1>1, <1>2, <1>4
    <2> HIDE DEF part
    <2> QED
      BY <1>1, <2>1, <2>2, <2>3, <2>4 DEF Origins, Content, pv
  <1> QED
    BY <1>1, <1>3, <1>4

\* What is taken was there, of the sun and of the grid.
LEMMA TakingFits ==
  ASSUME NEW o \in Origins, NEW x \in Nat
  PROVE  /\ SunTaken(o, x) \in Nat /\ Without(o, x) \in Origins
         /\ Without(o, x).pv = o.pv - SunTaken(o, x) /\ (x = 0 => SunTaken(o, x) = 0)
  <1> DEFINE c == Content(o)
             t == Taken(o, x)
             y == SunTaken(o, x)
  <1>1. c \in Nat /\ o.pv \in 0..c /\ o.grid = c - o.pv /\ t \in 0..c /\ (x = 0 => t = 0) /\ c <= Capacity /\ Capacity \in Nat
    BY SplitAssumption DEF Origins, Content, Taken, Lesser
  <1>2. y = IF c = 0 THEN 0 ELSE (o.pv * t) \div c
    BY DEF SunTaken
  <1>3. Without(o, x) = [pv |-> o.pv - y, grid |-> o.grid - (t - y)]
    BY DEF Without
  <1>4. y \in 0..o.pv /\ y \in 0..t /\ t - y <= o.grid
    <2> DEFINE p == o.pv
    <2>0. p \in 0..c /\ o.grid = c - p
      BY <1>1
    <2> HIDE DEF p, c, t, y
    <2>1. CASE c = 0
      BY <1>1, <1>2, <2>0, <2>1 DEF p
    <2>2. CASE c # 0
      <3>1. y = (p * t) \div c /\ c \in Nat \ {0} /\ p \in Nat /\ t \in Nat
        BY <1>1, <1>2, <2>0, <2>2 DEF p
      <3>2. y \in 0..p
        BY <1>1, <3>1, DivPart
      <3>3. y \in 0..t
        <4>1. (t * p) \div c \in 0..t
          BY <2>0, <3>1, DivPart
        <4>2. t * p = p * t
          BY <3>1
        <4> QED
          BY <3>1, <4>1, <4>2
      <3>4. t - (c - p) <= y
        <4>1. c * (t - (c - p)) <= p * t
          <5>1. (c - t) * (c - p) >= 0
            BY <1>1, <2>0, <3>1
          <5>2. (c - t) * (c - p) = p * t - c * (t - (c - p))
            BY <1>1, <2>0, <3>1
          <5> QED
            BY <1>1, <3>1, <5>1, <5>2
        <4>2. p * t \in Nat /\ t - (c - p) \in Int
          BY <3>1
        <4> QED
          BY <3>1, <4>1, <4>2, DivLower
      <3> QED
        BY <1>1, <2>0, <3>1, <3>2, <3>3, <3>4 DEF p
    <2> QED
      BY <2>1, <2>2
  <1>5. x = 0 => y = 0
    BY <1>1, <1>4
  <1> HIDE DEF c, t, y
  <1>6. Without(o, x) \in Origins
    <2>1. o.pv - y \in Nat /\ o.grid - (t - y) \in Nat /\ (o.pv - y) + (o.grid - (t - y)) <= Capacity
      BY <1>1, <1>4
    <2> QED
      BY <1>3, <2>1 DEF Origins, Content
  <1> QED
    BY <1>1, <1>3, <1>4, <1>5, <1>6 DEF y

\* One minute of the account: what the sun loses to the house it had or got.
MinuteRight(before, after, in, out) ==
  before \in Origins /\ after \in Origins /\ in \in Nat /\ out \in Nat /\ after.pv + out <= before.pv + in

\* Each booked minute keeps the account right.
LEMMA MinuteBooked ==
  ASSUME RowsKnown, NEW m \in Booked, NEW o \in Origins
  PROVE  MinuteRight(o, AccountAfter(m, o), SunToBattery(m), SunFromBattery(m, o))
  <1> DEFINE c == Charged1(m, o)
             d == Discharged(m)
             t == SunTaken(c, d)
             b == BatteryToHouse(m)
             s == SunToBattery(m)
  <1>1. s \in Nat /\ d \in Nat /\ b \in 0..d
    BY MinuteFlows, MinutePowers
  <1>2. c \in Origins /\ c.pv <= o.pv + s
    BY MinuteFlows, ChargeFits DEF Charged1
  <1>3. t \in Nat /\ Without(c, d) \in Origins /\ Without(c, d).pv = c.pv - t
    BY <1>1, <1>2, TakingFits
  <1>4. AccountAfter(m, o) = Without(c, d)
    BY DEF AccountAfter
  <1>5. SunFromBattery(m, o) = IF d = 0 THEN 0 ELSE (t * b) \div d
    BY DEF SunFromBattery
  <1> HIDE DEF c, d, t, b, s
  <1>6. SunFromBattery(m, o) \in 0..t
    BY <1>1, <1>3, <1>5, DivPart
  <1>7. o.pv \in Nat /\ c.pv \in Nat
    BY <1>2 DEF Origins
  <1> QED
    BY <1>1, <1>2, <1>3, <1>4, <1>6, <1>7 DEF MinuteRight, s

\* A minute that is not booked leaves the account alone.
LEMMA MinuteKept ==
  ASSUME RowsKnown, NEW m, NEW o \in Origins
  PROVE  AccountAfter(m, o) \in Origins /\ (m \notin Booked => AccountAfter(m, o) = o)
  <1>1. m \notin Booked => AccountAfter(m, o) = o
    BY DEF AccountAfter
  <1>2. m \in Booked => AccountAfter(m, o) \in Origins
    BY MinuteBooked DEF MinuteRight
  <1> QED
    BY <1>1, <1>2

\* The hour as calculated: each minute of the account follows from the one before, and what is
\* booked keeps to it.
AccountRight ==
  \E k \in Nat :
    /\ DOMAIN account = 0..k /\ BookedNow \subseteq 1..k
    /\ account[0] = inBattery /\ \A m \in 0..k : account[m] \in Origins
    /\ \A m \in 1..k :
         /\ m \in BookedNow => MinuteRight(account[m - 1], account[m], flows[m].sunIn, flows[m].sunOut)
         /\ m \notin BookedNow => account[m] = account[m - 1]

\* Added up over the minutes, the sun that came out was in at the start or came in.
LEMMA AccountsAddUp ==
  ASSUME AccountRight
  PROVE  SunOutOfBattery
  <1>1. PICK k \in Nat :
          /\ DOMAIN account = 0..k /\ BookedNow \subseteq 1..k
          /\ account[0] = inBattery /\ \A m \in 0..k : account[m] \in Origins
          /\ \A m \in 1..k :
               /\ m \in BookedNow => MinuteRight(account[m - 1], account[m], flows[m].sunIn, flows[m].sunOut)
               /\ m \notin BookedNow => account[m] = account[m - 1]
    BY DEF AccountRight
  <1> DEFINE in == [m \in BookedNow |-> flows[m]["sunIn"]]
             out == [m \in BookedNow |-> flows[m]["sunOut"]]
             B(n) == {m \in BookedNow : m <= n}
             P == {n \in Nat : n <= k => SumOver(out, B(n)) + account[n].pv <= inBattery.pv + SumOver(in, B(n))}
  <1>12. \A m \in BookedNow : m \in Nat /\ 1 <= m /\ m <= k
    BY <1>1
  <1>2. \A m \in BookedNow : in[m] \in Nat /\ out[m] \in Nat
    BY <1>1 DEF MinuteRight
  <1>3. \A m \in 0..k : account[m].pv \in Nat
    BY <1>1 DEF Origins
  <1>4. \A n \in Nat : IsFiniteSet(B(n)) /\ B(n) \subseteq BookedNow /\ B(n) \subseteq 1..k
    <2>1. IsFiniteSet(1..k)
      BY FS_Interval
    <2> QED
      BY <1>1, <2>1, FS_Subset
  <1>5. \A n \in Nat : SumOver(in, B(n)) \in Nat /\ SumOver(out, B(n)) \in Nat
    <2> TAKE n \in Nat
    <2> HIDE DEF in, out
    <2>1. \A m \in B(n) : in[m] \in Nat /\ out[m] \in Nat
      BY <1>2
    <2> HIDE DEF B
    <2> QED
      BY <1>4, <2>1, SumNat
  <1>6. 0 \in P
    <2>1. B(0) = {}
      BY <1>12
    <2>2. SumOver(in, {}) = 0 /\ SumOver(out, {}) = 0
      BY SumEmpty
    <2>3. account[0] = inBattery /\ account[0].pv \in Nat
      BY <1>1, <1>3
    <2> HIDE DEF in, out, B
    <2> QED
      BY <2>1, <2>2, <2>3
  <1>7. ASSUME NEW n \in Nat, n \in P PROVE n + 1 \in P
    <2> SUFFICES ASSUME n + 1 <= k
                 PROVE  SumOver(out, B(n + 1)) + account[n + 1].pv <= inBattery.pv + SumOver(in, B(n + 1))
      OBVIOUS
    <2>1. SumOver(out, B(n)) + account[n].pv <= inBattery.pv + SumOver(in, B(n))
      BY <1>7
    <2>2. account[n].pv \in Nat /\ account[n + 1].pv \in Nat /\ inBattery.pv \in Nat
      BY <1>1, <1>3
    <2>3. CASE n + 1 \in BookedNow
      <3>1. B(n + 1) = B(n) \cup {n + 1} /\ n + 1 \notin B(n)
        BY <1>12, <2>3
      <3>2. account[n + 1].pv + out[n + 1] <= account[n].pv + in[n + 1] /\ in[n + 1] \in Nat /\ out[n + 1] \in Nat
        BY <1>1, <2>3 DEF MinuteRight
      <3>3. Numbers(in, B(n) \cup {n + 1}) /\ Numbers(out, B(n) \cup {n + 1})
        <4> HIDE DEF in, out
        <4> QED
          BY <1>2, <2>3 DEF Numbers
      <3>4. /\ SumOver(in, B(n + 1)) = in[n + 1] + SumOver(in, B(n))
            /\ SumOver(out, B(n + 1)) = out[n + 1] + SumOver(out, B(n))
        <4> HIDE DEF in, out, B
        <4> QED
          BY <1>4, <3>1, <3>3, SumWith
      <3> HIDE DEF in, out, B
      <3> QED
        BY <1>5, <2>1, <2>2, <3>2, <3>4
    <2>4. CASE n + 1 \notin BookedNow
      <3>1. B(n + 1) = B(n)
        <4>1. \A m \in BookedNow : m <= n + 1 <=> m <= n
          BY <1>12, <2>4
        <4> QED
          BY <4>1
      <3>2. account[n + 1] = account[n]
        <4>1. n + 1 \in 1..k /\ (n + 1) - 1 = n
          BY <1>1
        <4> QED
          BY <1>1, <2>4, <4>1
      <3> QED
        BY <2>1, <3>1, <3>2
    <2> QED
      BY <2>3, <2>4
  <1>8. k \in P
    <2> HIDE DEF P
    <2> QED
      BY <1>6, <1>7, NatsByInduction
  <1>9. B(k) = BookedNow
    BY <1>12
  <1>10. SumOver(out, BookedNow) <= inBattery.pv + SumOver(in, BookedNow)
    <2>1. account[k].pv \in Nat /\ SumOver(out, BookedNow) + account[k].pv <= inBattery.pv + SumOver(in, BookedNow)
      <3> HIDE DEF in, out, B
      <3>1. SumOver(out, B(k)) + account[k].pv <= inBattery.pv + SumOver(in, B(k))
        BY <1>8
      <3> QED
        BY <1>1, <1>3, <1>9, <3>1
    <2>2. SumOver(out, BookedNow) \in Nat /\ SumOver(in, BookedNow) \in Nat /\ inBattery.pv \in Nat
      <3> HIDE DEF in, out, B
      <3>1. inBattery = account[0] /\ 0 \in 0..k
        BY <1>1
      <3> QED
        BY <1>1, <1>3, <1>5, <1>9, <3>1
    <2> HIDE DEF in, out
    <2> QED
      BY <2>1, <2>2
  <1>11. IsFiniteSet(BookedNow)
    BY <1>4, <1>9
  <1> QED
    BY <1>10, <1>11, FlowSum DEF SunOutOfBattery

\* Each row as it was filled, and the last one from what is held.
LastFilled ==
  Now > 0 => rows[Now] = IF \E f \in Fields : Recent(lastHeld[f]) THEN [f \in Fields |-> Held(lastHeld[f])] ELSE NoRow

\* The inductive invariant: the rows, the last filled minute and, once calculated, the account.
SplitInv ==
  RowsKnown /\ LastFilled /\ AccountRight /\ (fresh => BookedNow = Booked)

\* The hour starts with an empty account of rows.
LEMMA SplitStarts == SplitInit => SplitInv
  <1> SUFFICES ASSUME SplitInit PROVE SplitInv
    OBVIOUS
  <1>1. rows = [m \in {} |-> NoRow] /\ DOMAIN rows = {} /\ lastRow = 0
    BY DEF SplitInit
  <1>2. Now = 0
    BY <1>1, FS_EmptySet DEF Now
  <1>3. RowsKnown
    BY <1>1, <1>2, SplitAssumption DEF RowsKnown, SplitInit, Forgotten, FieldValues
  <1>4. inBattery \in Origins
    BY SplitAssumption DEF SplitInit, Origins
  <1>5. BookedNow = {} /\ Booked = {}
    BY <1>1 DEF BookedNow, Booked, SplitInit
  <1>6. AccountRight
    <2>1. DOMAIN account = 0..0 /\ account[0] = inBattery
      BY DEF SplitInit
    <2> QED
      BY <1>4, <1>5, <2>1 DEF AccountRight
  <1> QED
    BY <1>2, <1>3, <1>5, <1>6 DEF SplitInv, LastFilled

\* A row, and a minute without one, keep what is known of the rows (fill_gaps).
LEMMA RowKept ==
  ASSUME SplitInv, NEW row \in SplitRows \cup {NoRow}, RowArrives(row)
  PROVE  SplitInv'
  <1>1. /\ rows' = [m \in 1..(Now + 1) |-> IF m <= Now THEN rows[m] ELSE Filled(row)]
        /\ lastHeld' = HeldAfter(row) /\ lastRow' \in {lastRow, Now + 1}
        /\ fresh' = FALSE /\ UNCHANGED <<inBattery, flows, account>>
    BY DEF RowArrives
  <1>2. Now \in Nat /\ RowsKnown
    BY DEF SplitInv, RowsKnown
  <1>3. Now' = Now + 1 /\ DOMAIN rows' = 1..(Now + 1)
    <2>1. Cardinality(1..(Now + 1)) = Now + 1
      <3> DEFINE n == Now
      <3>1. n \in Nat
        BY <1>2
      <3> HIDE DEF n
      <3>2. Cardinality(1..(n + 1)) = n + 1
        BY <3>1, FS_Interval
      <3> QED
        BY <3>2 DEF n
    <2> QED
      BY <1>1, <2>1 DEF Now
  <1>4. \A f \in Fields : row[f] \in FieldValues
    BY SplitAssumption DEF SplitRows, NoRow, Fields, FieldValues
  <1>5. \A f \in Fields : HeldAfter(row)[f].value \in FieldValues /\ HeldAfter(row)[f].age \in 0..(MaxHold + 1)
    <2> TAKE f \in Fields
    <2>1. HeldAfter(row)[f] = IF row[f] # Silent THEN [value |-> row[f], age |-> 0]
                              ELSE [lastHeld[f] EXCEPT !.age = Lesser(@ + 1, MaxHold + 1)]
      BY DEF HeldAfter
    <2>2. CASE row[f] # Silent
      BY <1>4, <2>1, <2>2, SplitAssumption
    <2>3. CASE row[f] = Silent
      <3>1. lastHeld[f].value \in FieldValues /\ lastHeld[f].age \in 0..(MaxHold + 1)
        BY <1>2 DEF RowsKnown
      <3>2. HeldAfter(row)[f].value \in FieldValues
        BY <2>1, <2>3, <3>1
      <3>3. HeldAfter(row)[f].age \in 0..(MaxHold + 1)
        BY <2>1, <2>3, <3>1, SplitAssumption DEF Lesser
      <3> QED
        BY <3>2, <3>3
    <2> QED
      BY <2>2, <2>3
  <1>6. \A f \in Fields : Filled(row)[f] \in FieldValues
    BY <1>5, SplitAssumption DEF Filled, Held, NoRow, FieldValues
  <1>7. RowsKnown'
    BY <1>1, <1>2, <1>3, <1>5, <1>6 DEF RowsKnown
  <1>8. LastFilled'
    <2>1. rows'[Now + 1] = Filled(row)
      BY <1>1, <1>2
    <2> QED
      BY <1>1, <1>3, <2>1 DEF LastFilled, Filled, Recent, Held
  <1>9. AccountRight'
    BY <1>1 DEF SplitInv, AccountRight, BookedNow
  <1> QED
    BY <1>1, <1>7, <1>8, <1>9 DEF SplitInv

\* Calculating the hour makes its account right (hourly_energy, BatteryOrigin).
LEMMA HourKept ==
  ASSUME SplitInv, HourCalculated
  PROVE  SplitInv'
  <1> DEFINE k == Now
             Step(m, o) == AccountAfter(m, o)
             Walks(W) == W = [m \in 0..k |-> IF m = 0 THEN inBattery ELSE Step(m, W[m - 1])]
             walk == CHOOSE W : Walks(W)
  <1>1. RowsKnown /\ k \in Nat
    BY DEF SplitInv, RowsKnown
  <1>2. inBattery \in Origins
    BY DEF SplitInv, AccountRight
  <1>3. \A m, o : o \in Origins => Step(m, o) \in Origins
    BY <1>1, MinuteKept
  <1>4. /\ account' = [m \in 0..k |-> walk[m]]
        /\ flows' = [m \in Booked |-> [sun |-> Sun(m), sunIn |-> SunToBattery(m), sunOut |-> SunFromBattery(m, walk[m - 1])]]
    BY DEF HourCalculated
  <1> HIDE DEF k, walk, Step
  <1>5. Walks(walk)
    <2> DEFINE step == [m \in 1..k |-> [o \in Origins |-> Step(m, o)]]
    <2>1. \A n \in 1..k : \A o \in Origins : step[n][o] = Step(n, o) /\ step[n][o] \in Origins
      BY <1>3
    <2> HIDE DEF step
    <2>2. PICK F \in [0..k -> Origins] : Builds(F, k, inBattery, step)
      <3>1. \A n \in 1..k : \A v \in Origins : step[n][v] \in Origins
        BY <2>1
      <3> QED
        BY <1>1, <1>2, <3>1, Built
    <2>3. \A m \in 0..k : F[m] = IF m = 0 THEN inBattery ELSE Step(m, F[m - 1])
      <3> TAKE m \in 0..k
      <3>1. CASE m = 0
        BY <2>2, <3>1 DEF Builds
      <3>2. CASE m # 0
        <4>1. m \in 1..k /\ m - 1 \in 0..k
          BY <1>1, <3>2
        <4>2. F[m - 1] \in Origins
          BY <2>2, <4>1
        <4> QED
          BY <2>1, <2>2, <3>2, <4>1, <4>2 DEF Builds
      <3> QED
        BY <3>1, <3>2
    <2>4. Walks(F)
      BY <2>2, <2>3
    <2> HIDE DEF Walks
    <2> QED
      BY <2>4 DEF walk
  <1>6. walk[0] = inBattery /\ \A m \in 1..k : walk[m] = Step(m, walk[m - 1])
    BY <1>1, <1>5
  <1>7. \A m \in 0..k : walk[m] \in Origins
    <2> DEFINE P == {n \in Nat : n <= k => walk[n] \in Origins}
    <2>1. 0 \in P
      BY <1>2, <1>6
    <2>2. ASSUME NEW n \in Nat, n \in P PROVE n + 1 \in P
      <3>1. n + 1 <= k => n + 1 \in 1..k /\ (n + 1) - 1 = n
        BY <1>1
      <3> QED
        BY <1>1, <1>3, <1>6, <2>2, <3>1
    <2>3. \A n \in Nat : n \in P
      <3> HIDE DEF P
      <3> QED
        BY <2>1, <2>2, NatsByInduction
    <2> QED
      BY <1>1, <2>3
  <1>8. UNCHANGED <<lastHeld, rows, lastRow, inBattery>>
    BY DEF HourCalculated
  <1>9. RowsKnown' /\ LastFilled' /\ Booked' = Booked
    BY <1>8 DEF SplitInv, RowsKnown, LastFilled, Booked, Now
  <1>10. BookedNow' = Booked /\ Booked \subseteq 1..k
    BY <1>1, <1>4, MinutePowers DEF BookedNow, k
  <1>11. AccountRight'
    <2>1. DOMAIN account' = 0..k /\ \A m \in 0..k : account'[m] = walk[m]
      BY <1>4
    <2>2. account'[0] = inBattery' /\ \A m \in 0..k : account'[m] \in Origins
      BY <1>1, <1>6, <1>7, <1>8, <2>1
    <2>3. ASSUME NEW m \in 1..k
          PROVE  /\ m \in Booked => MinuteRight(account'[m - 1], account'[m], flows'[m].sunIn, flows'[m].sunOut)
                 /\ m \notin Booked => account'[m] = account'[m - 1]
      <3>1. m \in 0..k /\ m - 1 \in 0..k
        BY <1>1
      <3>2. account'[m - 1] = walk[m - 1] /\ account'[m] = AccountAfter(m, walk[m - 1]) /\ walk[m - 1] \in Origins
        BY <1>6, <1>7, <2>1, <3>1 DEF Step
      <3>3. m \in Booked => flows'[m].sunIn = SunToBattery(m) /\ flows'[m].sunOut = SunFromBattery(m, walk[m - 1])
        BY <1>4
      <3> QED
        BY <1>1, <3>2, <3>3, MinuteBooked, MinuteKept
    <2> QED
      BY <1>1, <1>10, <2>1, <2>2, <2>3 DEF AccountRight, Origins, MinuteRight, Content
  <1> QED
    BY <1>9, <1>10, <1>11 DEF SplitInv

\* The invariant holds in every state.
LEMMA SplitInvariance == SplitSpec => []SplitInv
  <1>1. SplitInv /\ [SplitNext]_splitVars => SplitInv'
    <2> SUFFICES ASSUME SplitInv, [SplitNext]_splitVars PROVE SplitInv'
      OBVIOUS
    <2>1. CASE UNCHANGED splitVars
      BY <2>1 DEF splitVars, SplitInv, RowsKnown, LastFilled, AccountRight, Booked, BookedNow, Now
    <2>2. CASE SplitNext
      BY <2>2, RowKept, HourKept DEF SplitNext
    <2> QED
      BY <2>1, <2>2
  <1> QED
    BY <1>1, SplitStarts, PTL DEF SplitSpec

\* The account holds what the battery can hold, a filled value is no older than it may be: the
\* types of the hour, for any powers and any limits (fill_gaps, BatteryOrigin).
THEOREM SplitTypes == SplitSpec => []SplitTypeOK
  <1>1. SplitInv => SplitTypeOK
    <2> SUFFICES ASSUME SplitInv PROVE SplitTypeOK
      OBVIOUS
    <2>1. \A f \in Fields : lastHeld[f].age <= MaxHold + 1 /\ lastRow \in 0..Now
      BY SplitAssumption DEF SplitInv, RowsKnown
    <2>2. \A m \in DOMAIN account : account[m] \in Origins
      BY DEF SplitInv, AccountRight
    <2> QED
      BY <2>1, <2>2 DEF SplitTypeOK, Origins
  <1> QED
    BY <1>1, SplitInvariance, PTL

\* No more sun leaves the battery than went into it or was there, and no minute of the night drops out
\* of the balance, for any powers, any capacity and any window (BatteryOrigin, fill_gaps).
THEOREM SplitBookedRight == SplitSpec => []BookedRight
  <1>1. SplitInv => BookedRight
    <2> SUFFICES ASSUME SplitInv PROVE BookedRight
      OBVIOUS
    <2>1. SunOutOfBattery
      BY AccountsAddUp DEF SplitInv
    <2>2. NightBooked
      <3> SUFFICES ASSUME fresh, lastRow = Now, Now > 0, lastHeld["pv"].value = 0, Recent(lastHeld["grid"])
                   PROVE  Now \in BookedNow
        BY DEF NightBooked
      <3>1. rows[Now] = [f \in Fields |-> Held(lastHeld[f])]
        BY DEF SplitInv, LastFilled, Fields
      <3>2. rows[Now].pv # Silent /\ rows[Now].grid # Silent
        BY <3>1, SplitAssumption DEF Held, Recent, Fields
      <3>3. Now \in 1..lastRow
        BY DEF SplitInv, RowsKnown
      <3> QED
        BY <3>2, <3>3 DEF SplitInv, Booked
    <2> QED
      BY <2>1, <2>2 DEF BookedRight
  <1> QED
    BY <1>1, SplitInvariance, PTL

----------------------------------------------------------------------------
(* The runs *)

----------------------------------------------------------------------------
(* Runs of any minutes R of which the pairs J belong together. *)
RunOf(run, R, J) ==
  /\ run # {} /\ run \subseteq R
  /\ \A a \in run : \A b \in R : <<a, b>> \in J \/ <<b, a>> \in J => b \in run
  /\ \A a \in run : \A b \in run : a < b /\ (\A m \in run : ~(a < m /\ m < b)) => <<a, b>> \in J
\* The runs in R of minutes joined by J.
RunsOf(R, J) == {run \in SUBSET R : RunOf(run, R, J)}

\* Runs with a minute in common are the same.
LEMMA RunWithin ==
  ASSUME NEW R \in SUBSET Nat, NEW J, NEW r \in RunsOf(R, J), NEW s \in RunsOf(R, J), NEW x \in r, x \in s
  PROVE  r \subseteq s
  <1>1. r \subseteq Nat /\ s \subseteq Nat
    BY DEF RunsOf
  <1>2. ASSUME NEW y \in r, y \notin s, y > x PROVE FALSE
    <2> DEFINE T == {z \in r : z > x /\ z \notin s}
    <2>1. T \subseteq Nat /\ T # {}
      BY <1>1, <1>2
    <2>2. PICK z \in T : \A u \in T : z <= u
      BY <2>1, FirstOne
    <2> DEFINE B == {p \in r : p < z}
    <2>10. z \in Nat /\ x \in Nat /\ x < z
      BY <1>1, <2>1, <2>2
    <2>3. B \subseteq Nat /\ x \in B /\ \A p \in B : p <= z
      <3>1. B \subseteq Nat /\ x \in B
        BY <1>1, <2>10
      <3>2. \A p \in Nat : p < z => p <= z
        BY <2>10
      <3> QED
        BY <1>1, <3>1, <3>2
    <2>4. PICK p \in B : \A q \in B : q <= p
      BY <1>1, <2>1, <2>2, <2>3, LastOne
    <2>5. p \in s
      <3>1. CASE p = x
        BY <3>1
      <3>2. CASE p # x
        BY <1>1, <2>2, <2>3, <2>4, <3>2
      <3> QED
        BY <3>1, <3>2
    <2>6. \A m \in r : ~(p < m /\ m < z)
      BY <1>1, <2>4
    <2>7. <<p, z>> \in J
      BY <2>2, <2>4, <2>6 DEF RunsOf, RunOf
    <2>8. z \in s
      BY <2>2, <2>5, <2>7 DEF RunsOf, RunOf
    <2> QED
      BY <2>2, <2>8
  <1>3. ASSUME NEW y \in r, y \notin s, y < x PROVE FALSE
    <2> DEFINE T == {z \in r : z < x /\ z \notin s}
    <2>1. T \subseteq Nat /\ T # {} /\ x \in Nat /\ \A z \in T : z <= x
      <3>1. T \subseteq Nat /\ x \in Nat
        BY <1>1
      <3>2. \A z \in Nat : z < x => z <= x
        BY <3>1
      <3>3. y \in T
        BY <1>3
      <3> QED
        BY <3>1, <3>2, <3>3
    <2>2. PICK z \in T : \A u \in T : u <= z
      BY <2>1, LastOne
    <2> DEFINE B == {p \in r : p > z}
    <2>10. z \in Nat /\ x \in Nat /\ z < x
      BY <1>1, <2>1, <2>2
    <2>3. B \subseteq Nat /\ x \in B
      BY <1>1, <2>10
    <2>4. PICK p \in B : \A q \in B : p <= q
      BY <2>3, FirstOne
    <2>5. p \in s
      <3>1. CASE p = x
        BY <3>1
      <3>2. CASE p # x
        BY <1>1, <2>2, <2>3, <2>4, <3>2
      <3> QED
        BY <3>1, <3>2
    <2>6. \A m \in r : ~(z < m /\ m < p)
      BY <1>1, <2>4
    <2>7. <<z, p>> \in J
      BY <2>2, <2>4, <2>6 DEF RunsOf, RunOf
    <2>8. z \in s
      BY <2>2, <2>5, <2>7 DEF RunsOf, RunOf
    <2> QED
      BY <2>2, <2>8
  <1> QED
    BY <1>1, <1>2, <1>3

\* A minute is in one run at most.
LEMMA RunUnique ==
  ASSUME NEW R \in SUBSET Nat, NEW J, NEW r \in RunsOf(R, J), NEW s \in RunsOf(R, J), r # s
  PROVE  r \cap s = {}
  <1> SUFFICES ASSUME NEW x \in r, x \in s PROVE FALSE
    OBVIOUS
  <1>1. r \subseteq s
    BY RunWithin
  <1>2. s \subseteq r
    BY RunWithin
  <1> QED
    BY <1>1, <1>2

\* What belongs together among the minutes so far, with a later one or without.
Agree(R, J, K) == \A a \in R : \A b \in R : <<a, b>> \in J <=> <<a, b>> \in K

\* A minute m that comes after all of R, and belongs to none but perhaps to l.
ComesAfter(R, J, K, m) ==
  /\ R \subseteq Nat /\ m \in Nat /\ \A a \in R : a < m
  /\ Agree(R, J, K) /\ \A b \in R \cup {m} : <<m, b>> \notin K

\* It begins a run of its own.
LEMMA RunBegins ==
  ASSUME NEW R, NEW J, NEW K, NEW m, ComesAfter(R, J, K, m), \A a \in R : <<a, m>> \notin K
  PROVE  RunsOf(R \cup {m}, K) = RunsOf(R, J) \cup {{m}}
  <1>0. R \subseteq Nat /\ m \in Nat /\ (\A a \in R : a < m) /\ m \notin R
    BY DEF ComesAfter
  <1>1. \A a \in R \cup {m} : <<a, m>> \notin K /\ <<m, a>> \notin K
    BY DEF ComesAfter
  <1>2. ASSUME NEW r \in SUBSET R PROVE RunOf(r, R, J) <=> RunOf(r, R \cup {m}, K)
    <2>1. \A a \in r : \A b \in R : (<<a, b>> \in J <=> <<a, b>> \in K) /\ (<<b, a>> \in J <=> <<b, a>> \in K)
      BY DEF ComesAfter, Agree
    <2>2. \A a \in r : <<a, m>> \notin K /\ <<m, a>> \notin K
      BY <1>1
    <2> QED
      BY <2>1, <2>2 DEF RunOf
  <1>3. RunOf({m}, R \cup {m}, K)
    BY <1>0, <1>1 DEF RunOf
  <1>4. ASSUME NEW r \in SUBSET (R \cup {m}), m \in r, RunOf(r, R \cup {m}, K) PROVE r = {m}
    <2> SUFFICES ASSUME r \ {m} # {} PROVE FALSE
      BY <1>4
    <2>1. r \ {m} \subseteq R
      BY <1>4
    <2>2. PICK p \in r \ {m} : \A q \in r \ {m} : q <= p
      <3>1. r \ {m} \in SUBSET Nat /\ \A q \in r \ {m} : q <= m
        BY <1>0, <2>1
      <3> QED
        BY <1>0, <3>1, LastOne
    <2>3. p < m /\ \A q \in r : ~(p < q /\ q < m)
      BY <1>0, <2>1, <2>2
    <2>4. <<p, m>> \in K
      BY <1>4, <2>2, <2>3 DEF RunOf
    <2> QED
      BY <1>1, <2>1, <2>4
  <1> QED
    BY <1>2, <1>3, <1>4 DEF RunsOf

\* It goes on with the run that l, the last minute of R, is in.
LEMMA RunGoesOn ==
  ASSUME NEW R, NEW J, NEW K, NEW m, ComesAfter(R, J, K, m),
         NEW l \in R, \A a \in R : a <= l, \A a \in R : <<a, m>> \in K <=> a = l,
         NEW going \in RunsOf(R, J), l \in going
  PROVE  RunsOf(R \cup {m}, K) = (RunsOf(R, J) \ {going}) \cup {going \cup {m}}
  <1>0. R \subseteq Nat /\ m \in Nat /\ (\A a \in R : a < m) /\ m \notin R /\ l < m
    BY DEF ComesAfter
  <1>1. /\ \A a \in R : <<a, m>> \in K <=> a = l
        /\ \A b \in R \cup {m} : <<m, b>> \notin K
    BY DEF ComesAfter
  <1>2. Agree(R, J, K)
    BY DEF ComesAfter
  <1>3. ASSUME NEW r \in SUBSET R PROVE RunOf(r, R \cup {m}, K) <=> RunOf(r, R, J) /\ r # going
    <2>1. RunOf(r, R, J) /\ r # going => l \notin r
      <3>1. RunOf(r, R, J) => r \in RunsOf(R, J)
        BY DEF RunsOf
      <3> QED
        BY <1>0, <3>1, RunUnique
    <2>2. RunOf(r, R \cup {m}, K) => l \notin r
      BY <1>0, <1>1 DEF RunOf
    <2>3. l \notin r => (RunOf(r, R \cup {m}, K) <=> RunOf(r, R, J))
      <3> SUFFICES ASSUME l \notin r PROVE RunOf(r, R \cup {m}, K) <=> RunOf(r, R, J)
        OBVIOUS
      <3>1. \A a \in r : \A b \in R : (<<a, b>> \in J <=> <<a, b>> \in K) /\ (<<b, a>> \in J <=> <<b, a>> \in K)
        BY <1>2 DEF Agree
      <3>2. \A a \in r : <<a, m>> \notin K /\ <<m, a>> \notin K
        BY <1>1
      <3> QED
        BY <3>1, <3>2 DEF RunOf
    <2> QED
      BY <2>1, <2>2, <2>3
  <1>4. RunOf(going \cup {m}, R \cup {m}, K)
    <2> DEFINE r == going \cup {m}
    <2>1. RunOf(going, R, J) /\ going \subseteq R
      BY DEF RunsOf, RunOf
    <2>2. ASSUME NEW a \in r, NEW b \in R \cup {m}, <<a, b>> \in K \/ <<b, a>> \in K PROVE b \in r
      <3>1. CASE b = m
        BY <3>1
      <3>2. CASE b \in R /\ a \in going
        BY <1>2, <2>1, <2>2, <3>2 DEF Agree, RunOf
      <3>3. CASE b \in R /\ a = m
        BY <1>1, <2>2, <3>3
      <3> QED
        BY <2>2, <3>1, <3>2, <3>3
    <2>3. ASSUME NEW a \in r, NEW b \in r, a < b, \A c \in r : ~(a < c /\ c < b) PROVE <<a, b>> \in K
      <3>1. a # m
        BY <1>0, <2>1, <2>3
      <3>2. CASE b = m
        <4>1. ~(a < l /\ l < m)
          BY <2>3, <3>2
        <4>2. a \in R /\ a <= l
          BY <2>1, <3>1
        <4>3. a = l
          BY <1>0, <4>1, <4>2
        <4> QED
          BY <1>1, <3>2, <4>3
      <3>3. CASE b # m
        <4>1. a \in going /\ b \in going /\ \A c \in going : ~(a < c /\ c < b)
          BY <2>3, <3>1, <3>3
        <4>2. <<a, b>> \in J
          BY <2>1, <2>3, <4>1 DEF RunOf
        <4> QED
          BY <1>2, <2>1, <4>1, <4>2 DEF Agree
      <3> QED
        BY <3>2, <3>3
    <2>4. r # {} /\ r \subseteq R \cup {m}
      BY <2>1
    <2> HIDE DEF r
    <2>5. RunOf(r, R \cup {m}, K)
      BY <2>2, <2>3, <2>4 DEF RunOf
    <2> QED
      BY <2>5 DEF r
  <1>5. ASSUME NEW r \in SUBSET (R \cup {m}), m \in r, RunOf(r, R \cup {m}, K) PROVE r = going \cup {m}
    <2> DEFINE s == r \ {m}
    <2>1. l \in s /\ s \subseteq R
      BY <1>0, <1>1, <1>5 DEF RunOf
    <2>2. RunOf(s, R, J)
      <3>1. ASSUME NEW a \in s, NEW b \in R, <<a, b>> \in J \/ <<b, a>> \in J PROVE b \in s
        <4>1. <<a, b>> \in K \/ <<b, a>> \in K
          BY <1>2, <2>1, <3>1 DEF Agree
        <4> QED
          BY <1>0, <1>5, <4>1 DEF RunOf
      <3>2. ASSUME NEW a \in s, NEW b \in s, a < b, \A c \in s : ~(a < c /\ c < b) PROVE <<a, b>> \in J
        <4>1. ~(a < m /\ m < b)
          BY <1>0, <2>1
        <4>2. \A c \in r : ~(a < c /\ c < b)
          BY <3>2, <4>1
        <4>3. <<a, b>> \in K
          BY <1>5, <3>2, <4>2 DEF RunOf
        <4> QED
          BY <1>2, <2>1, <4>3 DEF Agree
      <3> HIDE DEF s
      <3> QED
        BY <2>1, <3>1, <3>2 DEF RunOf
    <2>3. s = going
      <3>1. s \in RunsOf(R, J)
        BY <2>1, <2>2 DEF RunsOf
      <3> QED
        BY <1>0, <2>1, <3>1, RunUnique
    <2> QED
      BY <1>5, <2>3
  <1>6. \A r \in RunsOf(R, J) : r \in SUBSET R /\ r # going \cup {m}
    BY <1>0 DEF RunsOf
  <1>7. going \cup {m} \in SUBSET (R \cup {m})
    BY DEF RunsOf
  <1>8. ASSUME NEW r \in SUBSET (R \cup {m})
        PROVE  RunOf(r, R \cup {m}, K) <=> (r \in SUBSET R /\ RunOf(r, R, J) /\ r # going) \/ r = going \cup {m}
    <2>1. CASE m \in r
      BY <1>4, <1>5, <1>0, <2>1
    <2>2. CASE m \notin r
      <3>1. r \in SUBSET R
        BY <2>2
      <3> QED
        BY <1>3, <2>2, <3>1
    <2> QED
      BY <2>1, <2>2
  <1> QED
    BY <1>7, <1>8 DEF RunsOf

\* Joined the same, the runs are the same.
LEMMA RunsSame ==
  ASSUME NEW R, NEW J, NEW K, Agree(R, J, K)
  PROVE  RunsOf(R, J) = RunsOf(R, K)
  BY DEF RunsOf, RunOf, Agree

\* The minutes with a value that belong together.
Joints == {p \in Running \X Running : Joined(p[1], p[2])}
\* The runs of the minutes so far.
AllRuns == RunsOf(Running, Joints)
\* A session counts when it has enough rows; the other runs all do.
Kept(run) == series = "session" => Cardinality(run) >= EnoughRows
\* The last minute in which something runs.
IsLast(a) == a \in Running /\ \A b \in Running : b <= a
\* The rows with a value after a minute.
RowsAfter(a) == {m \in Valued : a < m}

\* The types of the rows and of the state between them.
RunsKnown ==
  /\ series \in SeriesKinds /\ next \in 1..(LastRow + 1) /\ idle \in 0..GapRows /\ lastSeen \in 0..LastRow
  /\ cycling \in {"open", "unknown", "ok", "watch", "short_cycling"}
  /\ \A m \in DOMAIN seen : m \in Nat /\ 1 <= m /\ m < next /\ seen[m] \in Nat \cup {NoValue}
\* The runs found are all runs but the one that goes on.
FoundAllBut == found = {run \in AllRuns : Kept(run) /\ run # open}
\* The run that goes on holds the last minute, and nothing ended it yet.
GoesOn ==
  open # {} =>
    /\ open \in AllRuns
    /\ \E a \in open : IsLast(a) /\ (IF series = "session" THEN idle = Cardinality(RowsAfter(a)) ELSE lastSeen = a)
\* When none does, the last minute is too far back to be joined.
NoneGoesOn ==
  open = {} => \A a \in Running : IsLast(a) =>
    IF series = "session" THEN Cardinality(RowsAfter(a)) > GapRows ELSE a + 1 < next

\* The inductive invariant: before the end all runs but the open one are found, which goes on; at the end all are.
RunInv == RunsKnown /\ (IF cycling = "open" THEN FoundAllBut /\ GoesOn /\ NoneGoesOn ELSE RunsRight)

\* Runs as the property has them and as the lemmas do.
LEMMA RunsAre == {run \in SUBSET Running : IsRun(run)} = AllRuns
  <1>1. ASSUME NEW run \in SUBSET Running PROVE IsRun(run) <=> RunOf(run, Running, Joints)
    <2>1. \A a \in Running : \A b \in Running : <<a, b>> \in Joints <=> Joined(a, b)
      BY DEF Joints
    <2>2. (\A a \in run, b \in Running : Joined(a, b) \/ Joined(b, a) => b \in run)
           <=> (\A a \in run : \A b \in Running : <<a, b>> \in Joints \/ <<b, a>> \in Joints => b \in run)
      BY <2>1
    <2>3. (\A a, b \in run : a < b /\ (\A m \in run : ~(a < m /\ m < b)) => Joined(a, b))
           <=> (\A a \in run : \A b \in run : a < b /\ (\A m \in run : ~(a < m /\ m < b)) => <<a, b>> \in Joints)
      BY <2>1
    <2> QED
      BY <2>2, <2>3 DEF IsRun, RunOf
  <1> QED
    BY <1>1 DEF AllRuns, RunsOf

\* There are only so many minutes.
LEMMA MinutesFinite ==
  ASSUME RunsKnown
  PROVE  /\ Valued \subseteq Nat /\ Running \subseteq Valued
         /\ IsFiniteSet(Valued) /\ Cardinality(Valued) \in Nat
         /\ \A m \in Valued : 1 <= m /\ m < next
         /\ \A a : IsFiniteSet(RowsAfter(a)) /\ Cardinality(RowsAfter(a)) \in Nat
  <1>1. Valued \subseteq 1..(LastRow + 1) /\ Valued \subseteq Nat /\ \A m \in Valued : 1 <= m /\ m < next
    BY RunAssumption DEF RunsKnown, Valued
  <1>2. IsFiniteSet(Valued)
    <2>1. IsFiniteSet(1..(LastRow + 1))
      BY RunAssumption, FS_Interval
    <2> QED
      BY <1>1, <2>1, FS_Subset
  <1>3. \A a : IsFiniteSet(RowsAfter(a)) /\ Cardinality(RowsAfter(a)) \in Nat
    <2> TAKE a
    <2>1. RowsAfter(a) \subseteq Valued
      BY DEF RowsAfter
    <2> QED
      BY <1>2, <2>1, FS_Subset, FS_CardinalityType
  <1> QED
    BY <1>1, <1>2, <1>3, FS_CardinalityType DEF Running

----------------------------------------------------------------------------
\* A row arrives.
Grown(value) ==
  /\ seen' = [m \in DOMAIN seen \cup {next} |-> IF m = next THEN value ELSE seen[m]]
  /\ next' = next + 1 /\ UNCHANGED series /\ next <= LastRow
\* A row in which something runs.
Runs(value) == value # NoValue /\ (series = "rest" \/ Matches(value))
\* The last minute would go on with it.
Fits(a, value) ==
  CASE series = "session" -> Cardinality(RowsAfter(a)) <= GapRows
    [] series = "rest" -> next = a + 1 /\ seen[a] = value
    [] OTHER -> next = a + 1

\* What a row adds to the minutes with a value and to those in which something runs.
LEMMA GrownSets ==
  ASSUME RunsKnown, NEW value \in Nat \cup {NoValue}, Grown(value)
  PROVE  /\ Valued' = IF value = NoValue THEN Valued ELSE Valued \cup {next}
         /\ Running' = IF Runs(value) THEN Running \cup {next} ELSE Running
         /\ \A a \in Valued : a \in Nat /\ a < next /\ seen'[a] = seen[a]
         /\ seen'[next] = value /\ next \in Nat /\ next \notin Valued
  <1>1. next \in Nat /\ next \notin DOMAIN seen
    BY RunAssumption DEF RunsKnown
  <1>2. /\ DOMAIN seen' = DOMAIN seen \cup {next} /\ seen'[next] = value
        /\ \A a \in DOMAIN seen : seen'[a] = seen[a] /\ a \in Nat /\ a < next
    BY <1>1 DEF Grown, RunsKnown
  <1>3. Valued' = IF value = NoValue THEN Valued ELSE Valued \cup {next}
    BY <1>1, <1>2 DEF Valued
  <1>4. series' = series
    BY DEF Grown
  <1>5. Running' = IF Runs(value) THEN Running \cup {next} ELSE Running
    <2>1. Running' = {m \in Valued' : series = "rest" \/ (IF series = "flat" THEN seen'[m] = 0 ELSE seen'[m] >= 1)}
      BY <1>4 DEF Running, Matches
    <2>2. Running = {m \in Valued : series = "rest" \/ (IF series = "flat" THEN seen[m] = 0 ELSE seen[m] >= 1)}
      BY DEF Running, Matches
    <2>3. Runs(value) <=> value # NoValue /\ (series = "rest" \/ (IF series = "flat" THEN value = 0 ELSE value >= 1))
      BY DEF Runs, Matches
    <2>4. next \notin Valued /\ seen'[next] = value /\ \A m \in Valued : seen'[m] = seen[m]
      BY <1>1, <1>2 DEF Valued
    <2> QED
      BY <1>3, <2>1, <2>2, <2>3, <2>4
  <1> QED
    BY <1>1, <1>2, <1>3, <1>5 DEF Valued

\* A row joins only minutes before it to its own.
LEMMA GrownJoints ==
  ASSUME RunsKnown, NEW value \in Nat \cup {NoValue}, Grown(value)
  PROVE  /\ Agree(Running, Joints, Joints')
         /\ Runs(value) => /\ ComesAfter(Running, Joints, Joints', next)
                           /\ \A a \in Running : <<a, next>> \in Joints' <=> IsLast(a) /\ Fits(a, value)
  <1>1. /\ Running' = IF Runs(value) THEN Running \cup {next} ELSE Running
        /\ Valued' = IF value = NoValue THEN Valued ELSE Valued \cup {next}
        /\ seen'[next] = value /\ next \in Nat /\ next \notin Running /\ series' = series
        /\ \A a \in Valued : a \in Nat /\ a < next /\ seen'[a] = seen[a]
        /\ \A a \in Running : a \in Nat /\ a < next /\ seen'[a] = seen[a]
    BY GrownSets DEF Grown, Running
  <1>2. ASSUME NEW a \in Running, NEW b \in Running PROVE Joined(a, b)' <=> Joined(a, b)
    <2>1. a \in Nat /\ b \in Nat /\ a < next /\ b < next /\ seen'[a] = seen[a] /\ seen'[b] = seen[b]
      BY <1>1
    <2>2. (\A m \in Running' : ~(a < m /\ m < b)) <=> (\A m \in Running : ~(a < m /\ m < b))
      BY <1>1, <2>1
    <2>3. {m \in Valued' : a < m /\ m < b} = {m \in Valued : a < m /\ m < b}
      BY <1>1, <2>1
    <2> QED
      BY <1>1, <2>1, <2>2, <2>3 DEF Joined
  <1>3. Agree(Running, Joints, Joints')
    <2>1. \A a \in Running : a \in Running'
      BY <1>1
    <2> QED
      BY <1>2, <2>1 DEF Agree, Joints
  <1>4. ASSUME Runs(value), NEW b \in Running \cup {next} PROVE <<next, b>> \notin Joints'
    <2>1. ~(next < b)
      BY <1>1
    <2> QED
      BY <2>1 DEF Joints, Joined
  <1>5. ASSUME Runs(value), NEW a \in Running PROVE <<a, next>> \in Joints' <=> IsLast(a) /\ Fits(a, value)
    <2>0. PICK n \in Nat : n = next
      BY <1>1
    <2>1. n \in Running' /\ a \in Running' /\ a \in Nat /\ a < n /\ seen'[a] = seen[a] /\ seen'[n] = value
      BY <1>1, <1>5, <2>0
    <2>2. <<a, n>> \in Joints' <=> Joined(a, n)'
      BY <2>1 DEF Joints
    <2>3. (\A m \in Running' : ~(a < m /\ m < n)) <=> IsLast(a)
      <3>1. \A m \in Running : m \in Nat /\ m < n
        BY <1>1, <2>0
      <3>2. Running' = Running \cup {n}
        BY <1>1, <1>5, <2>0
      <3> QED
        BY <2>1, <3>1, <3>2 DEF IsLast
    <2>4. {m \in Valued' : a < m /\ m < n} = RowsAfter(a)
      <3>1. \A m \in Valued : m \in Nat /\ m < n
        BY <1>1, <2>0
      <3>2. Valued' = Valued \cup {n}
        BY <1>1, <1>5, <2>0 DEF Runs
      <3> QED
        BY <2>1, <3>1, <3>2 DEF RowsAfter
    <2>5. Joined(a, n)' <=> IsLast(a) /\ (CASE series = "session" -> Cardinality(RowsAfter(a)) <= GapRows
                                            [] series = "rest" -> n = a + 1 /\ seen[a] = value
                                            [] OTHER -> n = a + 1)
      BY <1>1, <2>1, <2>3, <2>4 DEF Joined
    <2> QED
      BY <2>0, <2>2, <2>5 DEF Fits
  <1>6. Runs(value) => ComesAfter(Running, Joints, Joints', next)
    BY <1>1, <1>3, <1>4 DEF ComesAfter
  <1> QED
    BY <1>3, <1>5, <1>6

\* What a row does to the runs there are.
LEMMA RunsGrow ==
  ASSUME RunsKnown, GoesOn, NEW value \in Nat \cup {NoValue}, Grown(value)
  PROVE  /\ ~Runs(value) => AllRuns' = AllRuns
         /\ Runs(value) /\ open # {} /\ (\A a \in open : IsLast(a) => Fits(a, value))
              => AllRuns' = (AllRuns \ {open}) \cup {open \cup {next}}
         /\ Runs(value) /\ (\A a \in Running : IsLast(a) => ~Fits(a, value)) => AllRuns' = AllRuns \cup {{next}}
  <1>1. ~Runs(value) => AllRuns' = AllRuns
    BY GrownSets, GrownJoints, RunsSame DEF AllRuns
  <1>2. ASSUME Runs(value) PROVE /\ Running' = Running \cup {next} /\ ComesAfter(Running, Joints, Joints', next)
                                 /\ \A a \in Running : <<a, next>> \in Joints' <=> IsLast(a) /\ Fits(a, value)
    BY <1>2, GrownSets, GrownJoints
  <1>3. ASSUME Runs(value), open # {}, \A a \in open : IsLast(a) => Fits(a, value)
        PROVE  AllRuns' = (AllRuns \ {open}) \cup {open \cup {next}}
    <2>1. PICK l \in open : IsLast(l)
      BY <1>3 DEF GoesOn
    <2>2. open \in RunsOf(Running, Joints) /\ l \in Running /\ \A a \in Running : a <= l
      BY <1>3, <2>1 DEF GoesOn, AllRuns, IsLast
    <2>3. \A a \in Running : IsLast(a) <=> a = l
      <3>1. Running \subseteq Nat
        BY MinutesFinite
      <3> QED
        BY <2>1, <2>2, <3>1 DEF IsLast
    <2>4. \A a \in Running : <<a, next>> \in Joints' <=> a = l
      BY <1>2, <1>3, <2>1, <2>3
    <2>5. RunsOf(Running \cup {next}, Joints') = (RunsOf(Running, Joints) \ {open}) \cup {open \cup {next}}
      BY <1>2, <1>3, <2>1, <2>2, <2>4, RunGoesOn
    <2> QED
      BY <1>2, <1>3, <2>5 DEF AllRuns
  <1>4. ASSUME Runs(value), \A a \in Running : IsLast(a) => ~Fits(a, value)
        PROVE  AllRuns' = AllRuns \cup {{next}}
    <2>1. \A a \in Running : <<a, next>> \notin Joints'
      BY <1>2, <1>4
    <2>2. RunsOf(Running \cup {next}, Joints') = RunsOf(Running, Joints) \cup {{next}}
      BY <1>2, <1>4, <2>1, RunBegins
    <2> QED
      BY <1>2, <1>4, <2>2 DEF AllRuns
  <1> QED
    BY <1>1, <1>3, <1>4

\* The runs that count.
KeptRuns == {run \in AllRuns : Kept(run)}

\* Closing the run that goes on finds it, or forgets it if it is too small.
LEMMA Closing ==
  ASSUME RunsKnown, FoundAllBut, GoesOn
  PROVE  /\ series # "session" => RunClosed(open) = KeptRuns
         /\ series = "session" => SessionClosed(open) = KeptRuns
         /\ open = {} => found = KeptRuns
  <1>1. \A run \in AllRuns : run # {}
    BY DEF AllRuns, RunsOf, RunOf
  <1>2. open = {} => found = KeptRuns
    BY <1>1 DEF FoundAllBut, KeptRuns
  <1>3. series # "session" => RunClosed(open) = KeptRuns
    BY <1>2 DEF RunClosed, FoundAllBut, KeptRuns, NoRun, GoesOn, Kept
  <1>4. ASSUME series = "session" PROVE SessionClosed(open) = KeptRuns
    <2>1. CASE open = {}
      <3>1. Cardinality(open) < EnoughRows
        BY <2>1, FS_EmptySet, RunAssumption
      <3> QED
        BY <1>2, <2>1, <3>1 DEF SessionClosed
    <2>2. CASE open # {}
      <3>1. IsFiniteSet(open) /\ open \in AllRuns
        BY <2>2, MinutesFinite, FS_Subset DEF GoesOn, AllRuns, RunsOf
      <3>2. Cardinality(open) \in Nat /\ EnoughRows \in Nat
        BY <3>1, FS_CardinalityType, RunAssumption
      <3>3. Kept(open) <=> ~(Cardinality(open) < EnoughRows)
        BY <1>4, <3>2 DEF Kept
      <3> QED
        BY <3>1, <3>3 DEF SessionClosed, FoundAllBut, KeptRuns
    <2> QED
      BY <2>1, <2>2
  <1> QED
    BY <1>2, <1>3, <1>4

\* What a step must have done for the runs found to be all but the one that goes on.
LEMMA FoundAfter ==
  ASSUME RunsKnown, FoundAllBut, GoesOn, series' = series,
         \/ AllRuns' = AllRuns /\ found' = found /\ open' = open
         \/ AllRuns' = AllRuns /\ found' = KeptRuns /\ open' = {}
         \/ AllRuns' = (AllRuns \ {open}) \cup {open \cup {next}} /\ found' = found /\ open' = open \cup {next}
         \/ AllRuns' = AllRuns \cup {{next}} /\ found' = KeptRuns /\ open' = {next}
  PROVE  FoundAllBut'
  <1>1. \A run \in AllRuns : run # {} /\ next \notin run
    <2>1. next \notin Running
      BY MinutesFinite, RunAssumption DEF RunsKnown
    <2> QED
      BY <2>1 DEF AllRuns, RunsOf, RunOf
  <1>2. \A run : Kept(run)' <=> Kept(run)
    BY DEF Kept
  <1>3. found = {run \in AllRuns : Kept(run) /\ run # open} /\ KeptRuns = {run \in AllRuns : Kept(run)}
    BY DEF FoundAllBut, KeptRuns
  <1>4. FoundAllBut' <=> found' = {run \in AllRuns' : Kept(run) /\ run # open'}
    BY <1>2 DEF FoundAllBut
  <1> HIDE DEF Kept, FoundAllBut, KeptRuns
  <1>5. CASE AllRuns' = AllRuns /\ found' = found /\ open' = open
    BY <1>3, <1>4, <1>5
  <1>6. CASE AllRuns' = AllRuns /\ found' = KeptRuns /\ open' = {}
    BY <1>1, <1>3, <1>4, <1>6
  <1>7. CASE AllRuns' = (AllRuns \ {open}) \cup {open \cup {next}} /\ found' = found /\ open' = open \cup {next}
    <2>1. open \cup {next} \notin AllRuns
      BY <1>1
    <2> QED
      BY <1>3, <1>4, <1>7, <2>1
  <1>8. CASE AllRuns' = AllRuns \cup {{next}} /\ found' = KeptRuns /\ open' = {next}
    <2>1. {next} \notin AllRuns
      BY <1>1
    <2> QED
      BY <1>3, <1>4, <1>8, <2>1
  <1> QED
    BY <1>5, <1>6, <1>7, <1>8

\* What holds between two rows.
RunOpen == RunsKnown /\ FoundAllBut /\ GoesOn /\ NoneGoesOn
\* What a row has to bring about.
RunStays == FoundAllBut /\ GoesOn /\ NoneGoesOn /\ idle \in 0..GapRows /\ lastSeen \in 0..LastRow

\* There is one last minute at most.
LEMMA LastIsOne ==
  ASSUME RunsKnown, NEW a, IsLast(a), NEW b, IsLast(b)
  PROVE  a = b
  BY MinutesFinite DEF IsLast

\* A new row behind the others.
LEMMA LastGrows ==
  ASSUME RunsKnown, NEW value \in Nat \cup {NoValue}, Grown(value)
  PROVE  /\ ~Runs(value) => \A a : IsLast(a)' <=> IsLast(a)
         /\ Runs(value) => \E n \in {next} : IsLast(n)' /\ RowsAfter(n)' = {}
         /\ value = NoValue => \A a : RowsAfter(a)' = RowsAfter(a)
         /\ value # NoValue => \A a \in Running : Cardinality(RowsAfter(a)') = Cardinality(RowsAfter(a)) + 1
  <1> PICK n \in Nat : n = next
    BY GrownSets
  <1>1. /\ Valued' = IF value = NoValue THEN Valued ELSE Valued \cup {n}
        /\ Running' = IF Runs(value) THEN Running \cup {n} ELSE Running
        /\ \A a \in Valued : a \in Nat /\ a < n
        /\ Running \subseteq Valued /\ n \notin Valued
    BY GrownSets DEF Running
  <1>2. ASSUME ~Runs(value) PROVE \A a : IsLast(a)' <=> IsLast(a)
    BY <1>1, <1>2 DEF IsLast
  <1>3. ASSUME Runs(value) PROVE IsLast(n)' /\ RowsAfter(n)' = {}
    <2>1. value # NoValue
      BY <1>3 DEF Runs
    <2>2. \A a \in Valued' : a <= n /\ ~(n < a)
      BY <1>1, <2>1
    <2> QED
      BY <1>1, <1>3, <2>2 DEF IsLast, RowsAfter
  <1>4. value = NoValue => \A a : RowsAfter(a)' = RowsAfter(a)
    BY <1>1 DEF RowsAfter
  <1>5. ASSUME value # NoValue, NEW a \in Running PROVE Cardinality(RowsAfter(a)') = Cardinality(RowsAfter(a)) + 1
    <2>1. RowsAfter(a)' = RowsAfter(a) \cup {n} /\ n \notin RowsAfter(a)
      BY <1>1, <1>5 DEF RowsAfter
    <2>2. IsFiniteSet(RowsAfter(a))
      BY MinutesFinite
    <2> QED
      BY <2>1, <2>2, FS_AddElement
  <1> QED
    BY <1>2, <1>3, <1>4, <1>5

\* A row of the car's charges (_sessions).
LEMMA SessionKept ==
  ASSUME RunOpen, series = "session", NEW value \in Nat \cup {NoValue}, Grown(value), SessionRow(next, value)
  PROVE  RunStays'
  <1>0. /\ RunsKnown /\ FoundAllBut /\ GoesOn /\ NoneGoesOn /\ GapRows \in Nat /\ idle \in 0..GapRows
        /\ series' = series /\ (Runs(value) <=> value # NoValue /\ Matches(value)) /\ lastSeen \in 0..LastRow
    BY RunAssumption DEF RunOpen, RunsKnown, Grown, Runs
  <1>1. \A a \in Running : Cardinality(RowsAfter(a)) \in Nat
    BY <1>0, MinutesFinite
  <1>2. /\ ~Runs(value) => AllRuns' = AllRuns /\ \A a : IsLast(a)' <=> IsLast(a)
        /\ Runs(value) => \E n \in {next} : IsLast(n)' /\ RowsAfter(n)' = {}
        /\ value = NoValue => \A a : RowsAfter(a)' = RowsAfter(a)
        /\ value # NoValue => \A a \in Running : Cardinality(RowsAfter(a)') = Cardinality(RowsAfter(a)) + 1
    BY <1>0, RunsGrow, LastGrows
  <1>3. lastSeen' = lastSeen
    BY DEF SessionRow
  <1>4. \A a : IsLast(a) => a \in Running
    BY DEF IsLast
  <1>5. \A a : open # {} /\ IsLast(a) => idle = Cardinality(RowsAfter(a)) /\ a \in open
    BY <1>0, LastIsOne DEF GoesOn
  <1>6. CASE value = NoValue
    <2>1. UNCHANGED <<found, open, idle>> /\ ~Runs(value)
      BY <1>0, <1>6 DEF SessionRow
    <2>2. FoundAllBut'
      BY <1>0, <1>2, <2>1, FoundAfter
    <2>3. GoesOn' /\ NoneGoesOn'
      <3>1. \A a : (IsLast(a)' <=> IsLast(a)) /\ RowsAfter(a)' = RowsAfter(a)
        BY <1>2, <1>6, <2>1
      <3>2. NoneGoesOn'
        BY <1>0, <2>1, <3>1, <1>4 DEF NoneGoesOn
      <3>3. GoesOn'
        BY <1>0, <1>2, <2>1, <3>1 DEF GoesOn
      <3> QED
        BY <3>2, <3>3
    <2> QED
      BY <1>0, <1>3, <2>1, <2>2, <2>3 DEF RunStays
  <1>7. CASE value # NoValue /\ Matches(value)
    <2>1. open' = open \cup {next} /\ idle' = 0 /\ found' = found /\ Runs(value)
      BY <1>0, <1>7 DEF SessionRow
    <2>2. FoundAllBut' /\ open' \in AllRuns'
      <3>1. CASE open = {}
        <4>1. \A a \in Running : IsLast(a) => ~Fits(a, value)
          BY <1>0, <1>1, <3>1 DEF NoneGoesOn, Fits
        <4>2. AllRuns' = AllRuns \cup {{next}} /\ found' = KeptRuns /\ open' = {next}
          BY <1>0, <2>1, <3>1, <4>1, RunsGrow, Closing
        <4> QED
          BY <1>0, <4>2, FoundAfter
      <3>2. CASE open # {}
        <4>1. \A a \in open : IsLast(a) => Fits(a, value)
          BY <1>0, <1>5, <3>2 DEF Fits
        <4>2. AllRuns' = (AllRuns \ {open}) \cup {open \cup {next}}
          BY <1>0, <2>1, <3>2, <4>1, RunsGrow
        <4> QED
          BY <1>0, <2>1, <4>2, FoundAfter
      <3> QED
        BY <3>1, <3>2
    <2>3. GoesOn' /\ NoneGoesOn'
      <3>1. PICK n \in {next} : IsLast(n)' /\ RowsAfter(n)' = {}
        BY <1>2, <2>1
      <3>2. idle' = Cardinality(RowsAfter(n)') /\ n \in open'
        BY <2>1, <3>1, FS_EmptySet
      <3> QED
        BY <1>0, <2>1, <2>2, <3>1, <3>2 DEF GoesOn, NoneGoesOn
    <2> QED
      BY <1>0, <1>3, <2>1, <2>2, <2>3 DEF RunStays
  <1>8. CASE value # NoValue /\ ~Matches(value)
    <2>1. /\ idle' = IF open = {} \/ idle = GapRows THEN 0 ELSE idle + 1
          /\ found' = IF idle = GapRows THEN SessionClosed(open) ELSE found
          /\ open' = IF idle = GapRows THEN {} ELSE open
          /\ ~Runs(value)
      BY <1>0, <1>8 DEF SessionRow, NoRun
    <2>2. /\ AllRuns' = AllRuns /\ \A a : IsLast(a)' <=> IsLast(a)
          /\ \A a \in Running : Cardinality(RowsAfter(a)') = Cardinality(RowsAfter(a)) + 1
      BY <1>2, <1>8, <2>1
    <2>3. CASE open = {}
      <3>1. open' = {} /\ found' = KeptRuns /\ idle' = 0
        BY <1>0, <2>1, <2>3, Closing
      <3>2. FoundAllBut'
        BY <1>0, <2>2, <3>1, FoundAfter
      <3>3. NoneGoesOn' /\ GoesOn'
        BY <1>0, <1>1, <1>4, <2>2, <2>3, <3>1 DEF NoneGoesOn, GoesOn
      <3> QED
        BY <1>0, <1>3, <3>1, <3>2, <3>3 DEF RunStays
    <2>4. CASE open # {} /\ idle = GapRows
      <3>1. open' = {} /\ found' = KeptRuns /\ idle' = 0
        BY <1>0, <2>1, <2>4, Closing
      <3>2. FoundAllBut'
        BY <1>0, <2>2, <3>1, FoundAfter
      <3>3. NoneGoesOn' /\ GoesOn'
        BY <1>0, <1>4, <1>5, <2>2, <2>4, <3>1 DEF NoneGoesOn, GoesOn
      <3> QED
        BY <1>0, <1>3, <3>1, <3>2, <3>3 DEF RunStays
    <2>5. CASE open # {} /\ idle # GapRows
      <3>1. open' = open /\ found' = found /\ idle' = idle + 1 /\ idle + 1 \in 0..GapRows
        BY <1>0, <2>1, <2>5
      <3>2. FoundAllBut'
        BY <1>0, <2>2, <3>1, FoundAfter
      <3>3. GoesOn'
        <4>1. PICK a \in open : IsLast(a) /\ idle = Cardinality(RowsAfter(a))
          BY <1>0, <2>5 DEF GoesOn
        <4>2. IsLast(a)' /\ idle' = Cardinality(RowsAfter(a)') /\ a \in open'
          BY <1>4, <2>2, <3>1, <4>1
        <4> QED
          BY <1>0, <2>2, <2>5, <3>1, <4>2 DEF GoesOn
      <3>4. NoneGoesOn'
        BY <2>5, <3>1 DEF NoneGoesOn
      <3> QED
        BY <1>0, <1>3, <3>1, <3>2, <3>3, <3>4 DEF RunStays
    <2> QED
      BY <2>3, <2>4, <2>5
  <1> QED
    BY <1>6, <1>7, <1>8

\* The other kinds: a run goes on from the minute seen last, or it does not.
LEMMA RowJoins ==
  ASSUME RunOpen, series # "session", NEW value \in Nat \cup {NoValue}, Grown(value), idle' = idle,
         Runs(value), lastSeen' = next,
         \/ open # {} /\ Fits(lastSeen, value) /\ open' = open \cup {next} /\ found' = found
         \/ (open = {} \/ ~Fits(lastSeen, value)) /\ open' = {next} /\ found' = RunClosed(open)
  PROVE  RunStays'
  <1>0. /\ RunsKnown /\ FoundAllBut /\ GoesOn /\ NoneGoesOn /\ idle \in 0..GapRows
        /\ series' = series /\ next \in 0..LastRow /\ next \in Nat
    BY RunAssumption DEF RunOpen, RunsKnown, Grown
  <1>1. \A a : IsLast(a) => a \in Running /\ a \in Nat
    BY <1>0, MinutesFinite DEF IsLast
  <1>2. open # {} => IsLast(lastSeen) /\ lastSeen \in open
    BY <1>0 DEF GoesOn
  <1>3. open = {} => \A a \in Running : IsLast(a) => ~Fits(a, value)
    <2>1. \A a \in Running : IsLast(a) /\ open = {} => a + 1 < next /\ a \in Nat
      BY <1>0, <1>1 DEF NoneGoesOn
    <2> QED
      BY <1>0, <2>1 DEF Fits
  <1>4. FoundAllBut' /\ open' \in AllRuns'
    <2>1. CASE open # {} /\ Fits(lastSeen, value)
      <3>1. \A a \in open : IsLast(a) => Fits(a, value)
        BY <1>0, <1>2, <2>1, LastIsOne
      <3>2. AllRuns' = (AllRuns \ {open}) \cup {open \cup {next}}
        BY <1>0, <2>1, <3>1, RunsGrow
      <3>3. open' = open \cup {next} /\ found' = found
        BY <2>1
      <3> QED
        BY <1>0, <3>2, <3>3, FoundAfter
    <2>2. CASE open = {} \/ ~Fits(lastSeen, value)
      <3>1. \A a \in Running : IsLast(a) => ~Fits(a, value)
        BY <1>0, <1>2, <1>3, <2>2, LastIsOne
      <3>2. AllRuns' = AllRuns \cup {{next}}
        BY <1>0, <3>1, RunsGrow
      <3>3. open' = {next} /\ found' = KeptRuns
        BY <1>0, <2>2, Closing
      <3> QED
        BY <1>0, <3>2, <3>3, FoundAfter
    <2> QED
      BY <2>1, <2>2
  <1>5. PICK n \in {next} : IsLast(n)' /\ RowsAfter(n)' = {}
    BY <1>0, LastGrows
  <1>6. n \in open' /\ lastSeen' = n
    OBVIOUS
  <1>7. GoesOn' /\ NoneGoesOn'
    BY <1>0, <1>4, <1>5, <1>6 DEF GoesOn, NoneGoesOn
  <1> QED
    BY <1>0, <1>4, <1>7 DEF RunStays

\* A row that ends the run.
LEMMA RowEnds ==
  ASSUME RunOpen, series # "session", NEW value \in Nat \cup {NoValue}, Grown(value), idle' = idle, lastSeen' \in 0..LastRow,
         ~Runs(value), open' = {}, found' = RunClosed(open)
  PROVE  RunStays'
  <1>0. /\ RunsKnown /\ FoundAllBut /\ GoesOn /\ NoneGoesOn /\ idle \in 0..GapRows /\ GapRows \in Nat
        /\ series' = series /\ next' = next + 1 /\ next \in Nat
    BY RunAssumption DEF RunOpen, RunsKnown, Grown
  <1>1. AllRuns' = AllRuns /\ \A a : IsLast(a)' <=> IsLast(a)
    BY <1>0, RunsGrow, LastGrows
  <1>2. FoundAllBut'
    <2>1. found' = KeptRuns
      BY <1>0, Closing
    <2> QED
      BY <1>0, <1>1, <2>1, FoundAfter
  <1>3. \A a : IsLast(a)' => a \in Nat /\ a + 1 < next'
    <2>1. \A a : IsLast(a) => a \in Nat /\ a < next
      BY <1>0, MinutesFinite DEF IsLast
    <2> QED
      BY <1>0, <1>1, <2>1
  <1> QED
    BY <1>0, <1>2, <1>3 DEF RunStays, GoesOn, NoneGoesOn

\* A row of no account: nothing goes on from it, and it ends nothing.
LEMMA RowPasses ==
  ASSUME RunOpen, series # "session", NEW value \in Nat \cup {NoValue}, Grown(value), ~Runs(value),
         UNCHANGED <<found, open, lastSeen, idle>>
  PROVE  RunStays'
  <1>0. /\ RunsKnown /\ FoundAllBut /\ GoesOn /\ NoneGoesOn /\ idle \in 0..GapRows /\ lastSeen \in 0..LastRow
        /\ series' = series /\ next' = next + 1 /\ next \in Nat
    BY RunAssumption DEF RunOpen, RunsKnown, Grown
  <1>1. AllRuns' = AllRuns /\ \A a : IsLast(a)' <=> IsLast(a)
    BY <1>0, RunsGrow, LastGrows
  <1>2. FoundAllBut'
    BY <1>0, <1>1, FoundAfter
  <1>3. \A a : IsLast(a)' => a \in Nat /\ a < next /\ a + 1 < next'
    <2>1. \A a : IsLast(a) => a \in Nat /\ a < next
      BY <1>0, MinutesFinite DEF IsLast
    <2> QED
      BY <1>0, <1>1, <2>1
  <1>4. GoesOn'
    <2> SUFFICES ASSUME open # {} PROVE GoesOn'
      BY <1>0 DEF GoesOn
    <2>1. PICK a \in open : IsLast(a) /\ lastSeen = a
      BY <1>0 DEF GoesOn
    <2> QED
      BY <1>0, <1>1, <2>1 DEF GoesOn
  <1>5. NoneGoesOn'
    BY <1>0, <1>3 DEF NoneGoesOn
  <1> QED
    BY <1>0, <1>2, <1>4, <1>5 DEF RunStays

\* A row of diagnose_day and of _laeufe, which skip a row without a value.
LEMMA SkippingKept ==
  ASSUME RunOpen, series \in {"charge", "rest"}, NEW value \in Nat \cup {NoValue}, Grown(value), SkippingRow(next, value)
  PROVE  RunStays'
  <1>0. /\ next \in 1..LastRow /\ lastSeen \in 0..LastRow /\ LastRow \in Nat /\ idle' = idle
        /\ (open # {} => lastSeen \in open /\ lastSeen \in Nat /\ 1 <= lastSeen)
    <2>1. next \in 1..LastRow /\ lastSeen \in 0..LastRow /\ LastRow \in Nat /\ idle' = idle /\ RunsKnown
      BY RunAssumption DEF RunOpen, RunsKnown, Grown, SkippingRow
    <2>2. \A a : IsLast(a) => a \in Nat /\ 1 <= a
      BY <2>1, MinutesFinite DEF IsLast
    <2> QED
      BY <2>1, <2>2 DEF RunOpen, GoesOn
  <1>1. CASE value = NoValue
    <2>1. UNCHANGED <<found, open, lastSeen, idle>> /\ ~Runs(value)
      BY <1>1 DEF SkippingRow, Runs
    <2> QED
      BY <2>1, RowPasses
  <1>2. CASE value # NoValue
    <2> DEFINE fits == series = "rest" \/ Matches(value)
               goesOn == Follows(next) /\ fits /\ (series = "rest" => open # NoRun /\ seen[lastSeen] = value)
    <2>1. /\ open' = IF goesOn THEN open \cup {next} ELSE IF fits THEN {next} ELSE NoRun
          /\ found' = IF goesOn THEN found ELSE RunClosed(open)
          /\ lastSeen' = IF fits THEN next ELSE 0
          /\ (fits <=> Runs(value)) /\ fits \in BOOLEAN
      BY <1>2 DEF SkippingRow, Runs
    <2>2. CASE ~fits
      BY <1>0, <2>1, <2>2, RowEnds DEF NoRun
    <2>3. CASE fits
      <3>1. open # {} => (goesOn <=> Fits(lastSeen, value))
        <4>1. open # {} => (Follows(next) <=> next = lastSeen + 1)
          BY <1>0 DEF Follows
        <4> QED
          BY <2>3, <4>1 DEF Fits, NoRun
      <3>2. open = {} => ~goesOn \/ Follows(next)
        OBVIOUS
      <3>3. CASE open # {}
        BY <1>0, <2>1, <2>3, <3>1, <3>3, RowJoins
      <3>4. CASE open = {}
        <4>1. open' = {next} /\ found' = RunClosed(open)
          BY <2>1, <2>3, <3>4 DEF RunClosed, NoRun
        <4> QED
          BY <1>0, <2>1, <2>3, <3>4, <4>1, RowJoins
      <3> QED
        BY <3>3, <3>4
    <2> QED
      BY <2>2, <2>3
  <1> QED
    BY <1>1, <1>2

\* A row of compressor_runs, _strecken and _pv_series_note, which end a run without one.
LEMMA PlainKept ==
  ASSUME RunOpen, series \in {"flat", "compressor", "stretch"}, NEW value \in Nat \cup {NoValue}, Grown(value),
         PlainRow(next, value)
  PROVE  RunStays'
  <1>0. /\ next \in 1..LastRow /\ lastSeen \in 0..LastRow /\ LastRow \in Nat /\ idle' = idle
        /\ (open # {} => lastSeen \in open /\ lastSeen \in Nat /\ 1 <= lastSeen)
    <2>1. next \in 1..LastRow /\ lastSeen \in 0..LastRow /\ LastRow \in Nat /\ idle' = idle /\ RunsKnown
      BY RunAssumption DEF RunOpen, RunsKnown, Grown, PlainRow
    <2>2. \A a : IsLast(a) => a \in Nat /\ 1 <= a
      BY <2>1, MinutesFinite DEF IsLast
    <2> QED
      BY <2>1, <2>2 DEF RunOpen, GoesOn
  <1> DEFINE runs == value # NoValue /\ Matches(value)
             goesOn == runs /\ open # NoRun /\ Follows(next)
  <1>1. /\ open' = IF goesOn THEN open \cup {next} ELSE IF runs THEN {next} ELSE NoRun
        /\ found' = IF goesOn THEN found ELSE RunClosed(open)
        /\ lastSeen' = IF value = NoValue THEN 0 ELSE next
        /\ (runs <=> Runs(value))
    BY DEF PlainRow, Runs
  <1>2. CASE ~runs
    <2>1. lastSeen' \in 0..LastRow
      BY <1>0, <1>1
    <2> QED
      BY <1>0, <1>1, <1>2, <2>1, RowEnds DEF NoRun
  <1>3. CASE runs
    <2>1. lastSeen' = next
      BY <1>1, <1>3
    <2>2. open # {} => (goesOn <=> Fits(lastSeen, value))
      <3>1. open # {} => (Follows(next) <=> next = lastSeen + 1)
        BY <1>0 DEF Follows
      <3> QED
        BY <1>3, <3>1 DEF Fits, NoRun
    <2>3. open = {} => ~goesOn
      BY DEF NoRun
    <2> QED
      BY <1>0, <1>1, <1>3, <2>1, <2>2, <2>3, RowJoins
  <1> QED
    BY <1>2, <1>3

----------------------------------------------------------------------------
\* Runs have no minute in common, so together they have no more than there are.
LEMMA RunsFewer ==
  ASSUME RunsKnown, NEW runs \in SUBSET AllRuns
  PROVE  RunningMinutes(runs) <= Cardinality(Valued)
  <1>0. /\ Valued \subseteq Nat /\ Running \subseteq Valued /\ Running \subseteq Nat /\ IsFiniteSet(Valued) /\ IsFiniteSet(Running)
    BY MinutesFinite, FS_Subset
  <1>1. \A run \in AllRuns : run \subseteq Running /\ IsFiniteSet(run) /\ Cardinality(run) \in Nat
    BY <1>0, FS_Subset, FS_CardinalityType DEF AllRuns, RunsOf
  <1>2. IsFiniteSet(runs)
    <2>1. AllRuns \subseteq SUBSET Running
      BY <1>1
    <2> QED
      BY <1>0, <2>1, FS_SUBSET, FS_Subset
  <1> DEFINE w == [run \in runs |-> Cardinality(run)]
             Sums(F) == F = [s \in SUBSET runs |-> IF s = {} THEN 0
                               ELSE Cardinality(CHOOSE x \in s : TRUE) + F[s \ {CHOOSE x \in s : TRUE}]]
             P == {T \in SUBSET runs : SumOver(w, T) = Cardinality(UNION T)}
  <1>3. RunningMinutes(runs) = SumOver(w, runs)
    <2>1. ASSUME NEW F PROVE Sums(F) <=> Adds(F, w, runs)
      BY PickedIn DEF Picked, Adds
    <2>2. RunningMinutes(runs) = (CHOOSE F : Sums(F))[runs]
      BY DEF RunningMinutes, FoldSet, MapThenFoldSet
    <2> HIDE DEF w, Sums
    <2>3. (CHOOSE F : Sums(F)) = (CHOOSE F : Adds(F, w, runs))
      BY <2>1
    <2> QED
      BY <2>2, <2>3 DEF SumOver
  <1>4. {} \in P
    <2>1. UNION {} = {}
      OBVIOUS
    <2> QED
      BY <2>1, SumEmpty, FS_EmptySet
  <1>5. ASSUME NEW T \in SUBSET runs, NEW x \in runs, T \in P, x \notin T PROVE T \cup {x} \in P
    <2>1. IsFiniteSet(T) /\ Numbers(w, T \cup {x})
      BY <1>1, <1>2, FS_Subset DEF Numbers
    <2>2. SumOver(w, T \cup {x}) = w[x] + SumOver(w, T)
      BY <1>5, <2>1, SumWith
    <2>3. IsFiniteSet(UNION T) /\ IsFiniteSet(x)
      <3>1. UNION T \subseteq Running
        BY <1>1
      <3> QED
        BY <1>0, <1>1, <3>1, FS_Subset
    <2>4. UNION (T \cup {x}) = x \cup UNION T /\ x \cap UNION T = {}
      <3>1. \A r \in T : r \cap x = {}
        BY <1>0, <1>5, RunUnique DEF AllRuns
      <3> QED
        BY <3>1
    <2>5. Cardinality(x \cup UNION T) = Cardinality(x) + Cardinality(UNION T)
      <3>1. Cardinality(x \cup UNION T) = Cardinality(x) + Cardinality(UNION T) - Cardinality(x \cap UNION T)
        BY <2>3, FS_Union
      <3>2. Cardinality(x) \in Nat /\ Cardinality(UNION T) \in Nat /\ Cardinality(x \cap UNION T) = 0
        BY <2>3, <2>4, FS_CardinalityType, FS_EmptySet
      <3> QED
        BY <3>1, <3>2
    <2>6. SumOver(w, T) = Cardinality(UNION T)
      BY <1>5
    <2> QED
      BY <2>2, <2>4, <2>5, <2>6
  <1>6. runs \in P
    <2> HIDE DEF P
    <2> QED
      BY <1>2, <1>4, <1>5, SetsByInduction
  <1>7. Cardinality(UNION runs) <= Cardinality(Valued)
    <2>1. UNION runs \subseteq Valued
      BY <1>0, <1>1
    <2> QED
      BY <1>0, <2>1, FS_Subset
  <1> QED
    BY <1>3, <1>6, <1>7

\* Before the first row there is no run.
LEMMA RunStarts == RunInit => RunInv
  <1> SUFFICES ASSUME RunInit PROVE RunInv
    OBVIOUS
  <1>1. RunsKnown
    BY RunAssumption DEF RunInit, RunsKnown
  <1>2. Running = {} /\ open = {} /\ found = {} /\ cycling = "open"
    BY DEF RunInit, Running, Valued, NoRun
  <1>3. AllRuns = {}
    BY <1>2 DEF AllRuns, RunsOf, RunOf
  <1> QED
    BY <1>1, <1>2, <1>3 DEF RunInv, FoundAllBut, GoesOn, NoneGoesOn

\* Every row keeps the invariant.
LEMMA RowStep ==
  ASSUME RunInv, NEW value \in SeriesValues \cup {NoValue}, Row(value)
  PROVE  RunInv'
  <1>1. /\ cycling = "open" /\ cycling' = cycling /\ Grown(value) /\ RunOpen /\ RunsKnown /\ value \in Nat \cup {NoValue}
    BY RunAssumption DEF Row, RunInv, RunOpen, Grown
  <1>2. series \in {"session", "charge", "flat", "compressor", "rest", "stretch"}
    BY <1>1, RunAssumption DEF RunsKnown
  <1>3. RunStays'
    <2>1. CASE series = "session"
      <3>1. SessionRow(next, value)
        BY <2>1 DEF Row
      <3> QED
        BY <1>1, <2>1, <3>1, SessionKept
    <2>2. CASE series \in {"charge", "rest"}
      <3>1. SkippingRow(next, value)
        BY <2>2 DEF Row
      <3> QED
        BY <1>1, <2>2, <3>1, SkippingKept
    <2>3. CASE series \in {"flat", "compressor", "stretch"}
      <3>1. PlainRow(next, value)
        BY <2>3 DEF Row
      <3> QED
        BY <1>1, <2>3, <3>1, PlainKept
    <2> QED
      BY <1>2, <2>1, <2>2, <2>3
  <1>4. RunsKnown'
    <2>1. next \in Nat /\ 1 <= next /\ next <= LastRow /\ LastRow \in Nat
      BY <1>1, RunAssumption DEF RunsKnown, Grown
    <2>2. \A m \in DOMAIN seen' : m \in Nat /\ 1 <= m /\ m < next' /\ seen'[m] \in Nat \cup {NoValue}
      BY <1>1, <2>1 DEF RunsKnown, Grown
    <2> QED
      BY <1>1, <1>3, <2>1, <2>2 DEF RunsKnown, RunStays, Grown
  <1> QED
    BY <1>1, <1>3, <1>4 DEF RunInv, RunStays

\* A minute without a row keeps it.
LEMMA MinuteStep ==
  ASSUME RunInv, NoRowHere
  PROVE  RunInv'
  <1>1. /\ cycling = "open" /\ next' = next + 1 /\ next < LastRow /\ UNCHANGED <<series, seen, found, open, lastSeen, idle, cycling>>
        /\ RunsKnown /\ FoundAllBut /\ GoesOn /\ NoneGoesOn /\ next \in Nat /\ LastRow \in Nat
    BY RunAssumption DEF NoRowHere, RunInv, RunsKnown
  <1>2. /\ Valued' = Valued /\ Running' = Running
    BY <1>1 DEF Valued, Running, Matches
  <1>3. AllRuns' = AllRuns
    <2>1. Joints' = Joints
      BY <1>1, <1>2 DEF Joints, Joined
    <2> QED
      BY <1>2, <2>1 DEF AllRuns
  <1>4. RunsKnown'
    BY <1>1 DEF RunsKnown
  <1>5. FoundAllBut'
    BY <1>1, <1>3 DEF FoundAllBut, Kept
  <1>6. (\A a : RowsAfter(a)' = RowsAfter(a)) /\ \A a : IsLast(a)' <=> IsLast(a)
    BY <1>2 DEF RowsAfter, IsLast
  <1>7. GoesOn'
    BY <1>1, <1>3, <1>6 DEF GoesOn
  <1>8. NoneGoesOn'
    <2>1. \A a \in Running : a \in Nat
      BY <1>1, MinutesFinite
    <2> QED
      BY <1>1, <1>2, <1>6, <2>1 DEF NoneGoesOn
  <1> QED
    BY <1>1, <1>4, <1>5, <1>7, <1>8 DEF RunInv

\* At the end the open run is found as well.
LEMMA EndStep ==
  ASSUME RunInv, EndOfRows
  PROVE  RunInv'
  <1>1. /\ cycling = "open" /\ UNCHANGED <<series, seen, next, lastSeen, idle>> /\ cycling' = Assessed(found')
        /\ RunsKnown /\ FoundAllBut /\ GoesOn /\ NoneGoesOn
        /\ found' = IF series = "session" THEN SessionClosed(open) ELSE RunClosed(open)
    BY DEF EndOfRows, RunInv
  <1>2. found' = KeptRuns
    BY <1>1, Closing
  <1>3. cycling' \in {"unknown", "ok", "watch", "short_cycling"}
    BY <1>1 DEF Assessed
  <1>4. RunsKnown'
    BY <1>1, <1>3 DEF RunsKnown
  <1>5. RunsRight'
    <2>1. found' = {run \in SUBSET Running : IsRun(run) /\ (series = "session" => Cardinality(run) >= EnoughRows)}
      BY <1>2, RunsAre DEF KeptRuns, Kept, AllRuns
    <2>2. RunningMinutes(found') <= Cardinality(Valued)
      <3>1. KeptRuns \in SUBSET AllRuns
        BY DEF KeptRuns
      <3> QED
        BY <1>1, <1>2, <3>1, RunsFewer
    <2>3. /\ Running' = Running /\ Valued' = Valued /\ \A run : IsRun(run)' <=> IsRun(run)
      BY <1>1 DEF Running, Valued, IsRun, Joined, Matches
    <2>4. RunningMinutes(found)' = RunningMinutes(found')
      BY DEF RunningMinutes, FoldSet, MapThenFoldSet
    <2> QED
      BY <1>1, <2>1, <2>2, <2>3, <2>4 DEF RunsRight
  <1> QED
    BY <1>3, <1>4, <1>5 DEF RunInv

\* The invariant holds in every state.
LEMMA RunInvariance == RunSpec => []RunInv
  <1>1. RunInv /\ [RunNext]_runVars => RunInv'
    <2> SUFFICES ASSUME RunInv, [RunNext]_runVars PROVE RunInv'
      OBVIOUS
    <2>1. CASE UNCHANGED runVars
      <3>1. /\ UNCHANGED <<series, seen, next, found, open, lastSeen, idle, cycling>>
            /\ Valued' = Valued /\ Running' = Running
        BY <2>1 DEF runVars, Valued, Running, Matches
      <3>2. Joints' = Joints /\ \A run : IsRun(run)' <=> IsRun(run)
        BY <3>1 DEF Joints, Joined, IsRun
      <3>3. AllRuns' = AllRuns
        BY <3>1, <3>2 DEF AllRuns
      <3>4. RunningMinutes(found)' = RunningMinutes(found)
        BY <3>1 DEF RunningMinutes, FoldSet, MapThenFoldSet
      <3>5. RunsKnown' <=> RunsKnown
        BY <3>1 DEF RunsKnown
      <3>6. (FoundAllBut' <=> FoundAllBut) /\ (GoesOn' <=> GoesOn) /\ (NoneGoesOn' <=> NoneGoesOn)
        BY <3>1, <3>3 DEF FoundAllBut, Kept, GoesOn, NoneGoesOn, IsLast, RowsAfter
      <3>7. RunsRight' <=> RunsRight
        BY <3>1, <3>2, <3>4 DEF RunsRight
      <3> QED
        BY <3>1, <3>5, <3>6, <3>7 DEF RunInv
    <2>2. CASE RunNext
      BY <2>2, RowStep, MinuteStep, EndStep DEF RunNext
    <2> QED
      BY <2>1, <2>2
  <1> QED
    BY <1>1, RunStarts, PTL DEF RunSpec

\* What the six detectors find row by row are the runs there are, for any number of rows, any gap and
\* any values (_sessions, diagnose_day, _pv_series_note, compressor_runs, _laeufe, _strecken).
THEOREM RunsFound == RunSpec => []RunsRight
  <1>1. RunInv => RunsRight
    BY DEF RunInv, RunsRight
  <1> QED
    BY <1>1, RunInvariance, PTL

----------------------------------------------------------------------------
(* The comparison *)

\* One pass of spread, as Spread has it.
PassOf(shares, weight) ==
  LET over == MapThenSumSet(LAMBDA h : Most(0, shares[h] - Limit), DOMAIN shares)
      free == {h \in DOMAIN shares : shares[h] < Limit}
  IN  IF over = 0 THEN shares
      ELSE IF MapThenSumSet(LAMBDA g : weight[g], free) = 0 THEN [h \in DOMAIN shares |-> Least(Limit, shares[h])]
      ELSE PassOn(shares, weight, over, free)

\* Shares of an amount t, before they are capped and after.
SharesOf(S, t) == {x \in [S -> Nat] : SumOver(x, S) <= t}
\* Shares of t at most that keep to the device's limit.
CappedShares(S, t) == {x \in SharesOf(S, t) : \A h \in S : x[h] <= Limit}

\* One round of spread leaves shares that keep the limit and make no more than before.
LEMMA PassFits ==
  ASSUME NEW S, IsFiniteSet(S), NEW weight, \A h \in S : weight[h] \in Nat, NEW t \in Nat, NEW shares \in SharesOf(S, t)
  PROVE  PassOf(shares, weight) \in CappedShares(S, t)
  <1> DEFINE free == {h \in S : shares[h] < Limit}
             excess == [h \in S |-> Most(0, shares[h] - Limit)]
             capped == [h \in S |-> Least(Limit, shares[h])]
             over == SumOver(excess, S)
             room == SumOver(weight, free)
             more == [h \in S |-> IF h \in free THEN (over * weight[h]) \div room ELSE 0]
             both == [h \in S |-> Least(Limit, capped[h] + more[h])]
  <1>1. Limit \in Nat /\ DOMAIN shares = S /\ (\A h \in S : shares[h] \in Nat) /\ shares \in [S -> Nat] /\ SumOver(shares, S) <= t
    BY ShiftAssumption DEF Limit, SharesOf
  <1>2. IsFiniteSet(free) /\ free \subseteq S
    BY FS_Subset
  <1>3. MapThenSumSet(LAMBDA h : Most(0, shares[h] - Limit), S) = over
    <2> DEFINE Sums(F) == F = [s \in SUBSET S |-> IF s = {} THEN 0
                               ELSE Most(0, shares[CHOOSE x \in s : TRUE] - Limit) + F[s \ {CHOOSE x \in s : TRUE}]]
    <2>1. ASSUME NEW F PROVE Sums(F) <=> Adds(F, excess, S)
      BY PickedIn DEF Picked, Adds
    <2>2. MapThenSumSet(LAMBDA h : Most(0, shares[h] - Limit), S) = (CHOOSE F : Sums(F))[S]
      BY DEF MapThenSumSet, MapThenFoldSet
    <2> HIDE DEF Sums, excess
    <2>3. (CHOOSE F : Sums(F)) = (CHOOSE F : Adds(F, excess, S))
      BY <2>1
    <2> QED
      BY <2>2, <2>3 DEF SumOver
  <1>4. MapThenSumSet(LAMBDA g : weight[g], free) = room
    BY <1>2, SumOfValues
  <1>5. MapThenSumSet(LAMBDA g : weight[g], {h \in S : shares[h] < Limit}) = room
    BY <1>4
  <1>6. PassOf(shares, weight) = IF over = 0 THEN shares ELSE IF room = 0 THEN capped ELSE both
    <2>1. PassOf(shares, weight) = IF over = 0 THEN shares ELSE IF room = 0 THEN capped ELSE PassOn(shares, weight, over, free)
      <3> HIDE DEF over, room
      <3> QED
        BY <1>1, <1>3, <1>5 DEF PassOf
    <2>2. PassOn(shares, weight, over, free) = both
      <3> HIDE DEF over, room
      <3> QED
        BY <1>1, <1>5 DEF PassOn
    <2> QED
      BY <2>1, <2>2
  <1>7. \A h \in S : excess[h] \in Nat /\ capped[h] \in 0..Limit /\ shares[h] = capped[h] + excess[h]
    BY <1>1 DEF Most, Least
  <1> HIDE DEF excess, capped
  <1>8. over \in Nat /\ SumOver(capped, S) \in Nat /\ SumOver(shares, S) = SumOver(capped, S) + over
    <2>1. Numbers(excess, S) /\ Numbers(capped, S)
      BY <1>7 DEF Numbers
    <2>2. SumOver(shares, S) = SumOver(capped, S) + SumOver(excess, S)
      BY <1>7, <2>1, SumPlus
    <2>3. SumOver(excess, S) \in Nat
      BY <1>7, SumNat
    <2>4. SumOver(capped, S) \in Nat
      <3>1. \A h \in S : capped[h] \in Nat
        BY <1>1, <1>7
      <3> QED
        BY <3>1, SumNat
    <2> QED
      BY <2>2, <2>3, <2>4
  <1>9. CASE over = 0
    <2>1. \A h \in S : excess[h] = 0
      BY <1>7, <1>9, SumZero
    <2>2. \A h \in S : shares[h] <= Limit
      BY <1>1, <1>7, <2>1
    <2> QED
      BY <1>6, <1>9, <2>2 DEF CappedShares
  <1>10. CASE over # 0 /\ room = 0
    <2>1. capped \in [S -> Nat]
      BY <1>1 DEF capped, Least
    <2>2. SumOver(capped, S) <= t
      BY <1>1, <1>8
    <2>3. \A h \in S : capped[h] <= Limit
      BY <1>1, <1>7
    <2> HIDE DEF over, room
    <2> QED
      BY <1>6, <1>10, <2>1, <2>2, <2>3 DEF CappedShares, SharesOf
  <1>11. CASE over # 0 /\ room # 0
    <2>1. /\ \A h \in free : more[h] = (over * weight[h]) \div room
          /\ \A h \in S \ free : more[h] = 0
      OBVIOUS
    <2> HIDE DEF more
    <2>2. (\A h \in free : more[h] \in Nat) /\ SumOver(more, free) \in Nat /\ SumOver(more, free) <= over
      <3>1. \A h \in free : weight[h] \in Nat
        OBVIOUS
      <3> HIDE DEF free
      <3> QED
        BY <1>2, <1>8, <1>11, <2>1, <3>1, SharesFit
    <2>3. \A h \in S : more[h] \in Nat
      BY <2>1, <2>2
    <2>4. SumOver(more, S) = SumOver(more, free)
      <3>1. Numbers(more, S)
        BY <2>3 DEF Numbers
      <3> HIDE DEF free
      <3> QED
        BY <1>2, <2>1, <3>1, SumPart
    <2> DEFINE all == [h \in S |-> capped[h] + more[h]]
    <2>5. /\ \A h \in S : all[h] = capped[h] + more[h] /\ all[h] \in Nat
          /\ \A h \in S : both[h] \in Nat /\ both[h] <= Limit /\ both[h] <= all[h]
          /\ both \in [S -> Nat]
      BY <1>1, <1>7, <2>3 DEF Least
    <2> HIDE DEF all, both
    <2>6. SumOver(all, S) = SumOver(capped, S) + SumOver(more, S)
      <3>1. Numbers(capped, S) /\ Numbers(more, S)
        BY <1>7, <2>3 DEF Numbers
      <3> QED
        BY <2>5, <3>1, SumPlus
    <2>7. SumOver(both, S) <= SumOver(all, S) /\ SumOver(both, S) \in Nat
      <3>1. Numbers(both, S) /\ Numbers(all, S)
        BY <2>5 DEF Numbers
      <3> QED
        BY <2>5, <3>1, SumMonotone, SumNat
    <2>8. SumOver(both, S) <= t
      <3> DEFINE o == over  f == SumOver(more, free)  c == SumOver(capped, S)  a == SumOver(shares, S)  b == SumOver(both, S)
                 l == SumOver(all, S)
      <3>1. o \in Nat /\ c \in Nat /\ a = c + o /\ a <= t /\ f \in Nat /\ f <= o /\ l = c + f /\ b <= l /\ b \in Nat
        BY <1>1, <1>8, <2>2, <2>4, <2>6, <2>7
      <3> HIDE DEF o, f, c, a, b, l
      <3>2. b <= t
        BY <3>1
      <3> QED
        BY <3>2 DEF b
    <2>9. PassOf(shares, weight) = both
      <3> HIDE DEF over, room
      <3> QED
        BY <1>6, <1>11
    <2> QED
      BY <2>5, <2>8, <2>9 DEF CappedShares, SharesOf
  <1> QED
    BY <1>9, <1>10, <1>11

\* spread leaves no hour above the limit, and hands out no more than there is.
LEMMA SpreadFits ==
  ASSUME NEW S, IsFiniteSet(S), NEW weight, DOMAIN weight = S, \A h \in S : weight[h] \in Nat,
         SumOver(weight, S) # 0, NEW total \in Nat
  PROVE  Spread(total, weight) \in CappedShares(S, Fine * total)
  <1> DEFINE t == Fine * total
             W == SumOver(weight, S)
             base == [h \in S |-> (t * weight[h]) \div W]
             Passes(F) == F = [n \in 0..Rounds |-> IF n = 0 THEN base ELSE PassOf(F[n - 1], weight)]
             passes == CHOOSE F : Passes(F)
  <1>1. t \in Nat /\ Rounds \in Nat \ {0}
    BY ShiftAssumption
  <1>2. Spread(total, weight) = passes[Rounds]
    <2>1. MapThenSumSet(LAMBDA g : weight[g], S) = W
      BY SumOfValues
    <2> DEFINE first == [h \in S |-> (Fine * total * weight[h]) \div MapThenSumSet(LAMBDA g : weight[g], S)]
    <2>2. first = base
      BY <2>1
    <2>3. Spread(total, weight) = (CHOOSE F : F = [n \in 0..Rounds |-> IF n = 0 THEN first ELSE PassOf(F[n - 1], weight)])[Rounds]
      BY DEF Spread, PassOf
    <2> HIDE DEF first, base
    <2> QED
      BY <2>2, <2>3
  <1>3. base \in SharesOf(S, t)
    <2>1. \A h \in S : base[h] = (t * weight[h]) \div W
      OBVIOUS
    <2>2. base = [h \in S |-> base[h]]
      OBVIOUS
    <2> HIDE DEF base, t
    <2>3. (\A h \in S : base[h] \in Nat) /\ SumOver(base, S) <= t
      BY <1>1, <2>1, SharesFit
    <2> QED
      BY <2>2, <2>3 DEF SharesOf
  <1> HIDE DEF base, t, passes
  <1>4. \A x \in SharesOf(S, t) : PassOf(x, weight) \in SharesOf(S, t)
    BY <1>1, PassFits DEF CappedShares
  <1>5. Passes(passes)
    <2> DEFINE step == [n \in 1..Rounds |-> [x \in SharesOf(S, t) |-> PassOf(x, weight)]]
    <2>1. \A n \in 1..Rounds : \A x \in SharesOf(S, t) : step[n][x] = PassOf(x, weight) /\ step[n][x] \in SharesOf(S, t)
      BY <1>4
    <2> HIDE DEF step
    <2>2. PICK F \in [0..Rounds -> SharesOf(S, t)] : Builds(F, Rounds, base, step)
      BY <1>1, <1>3, <2>1, Built
    <2>3. \A n \in 0..Rounds : F[n] = IF n = 0 THEN base ELSE PassOf(F[n - 1], weight)
      <3> TAKE n \in 0..Rounds
      <3>1. n # 0 => n \in 1..Rounds /\ n - 1 \in 0..Rounds
        BY <1>1
      <3>2. n # 0 => F[n - 1] \in SharesOf(S, t)
        BY <2>2, <3>1
      <3> QED
        BY <2>1, <2>2, <3>1, <3>2 DEF Builds
    <2>4. Passes(F)
      BY <2>2, <2>3
    <2> HIDE DEF Passes
    <2> QED
      BY <2>4 DEF passes
  <1>6. \A n \in 0..Rounds : passes[n] \in SharesOf(S, t)
    <2> DEFINE P == {n \in Nat : n <= Rounds => passes[n] \in SharesOf(S, t)}
    <2>1. 0 \in P
      BY <1>1, <1>3, <1>5
    <2>2. ASSUME NEW n \in Nat, n \in P PROVE n + 1 \in P
      <3> SUFFICES ASSUME n + 1 <= Rounds PROVE passes[n + 1] \in SharesOf(S, t)
        OBVIOUS
      <3>1. n + 1 \in 0..Rounds /\ n + 1 # 0 /\ (n + 1) - 1 = n /\ n <= Rounds
        BY <1>1
      <3>2. passes[n + 1] = PassOf(passes[n], weight)
        BY <1>5, <3>1
      <3> QED
        BY <1>4, <2>2, <3>1, <3>2
    <2>3. \A n \in Nat : n \in P
      <3> HIDE DEF P
      <3> QED
        BY <2>1, <2>2, NatsByInduction
    <2> QED
      BY <1>1, <2>3
  <1>7. passes[Rounds] = PassOf(passes[Rounds - 1], weight) /\ passes[Rounds - 1] \in SharesOf(S, t)
    <2>1. Rounds \in 0..Rounds /\ Rounds # 0 /\ Rounds - 1 \in 0..Rounds
      BY <1>1
    <2> QED
      BY <1>5, <1>6, <2>1
  <1> QED
    BY <1>1, <1>2, <1>7, PassFits DEF t

\* The stored hours are rows that may be stored.
HoursKnown ==
  /\ shiftNow \in Nat /\ \A h \in DOMAIN shiftHours : h \in Nat /\ h < shiftNow /\ shiftHours[h] \in ShiftRows

\* A day's comparison, as the report has it.
DayFair(value) ==
  LET S == DOMAIN value.naive IN
    /\ \A h \in S : value.naive[h] >= 0 /\ value.naive[h] <= Limit
    /\ IsFiniteSet(S) /\ SumOver(value.naive, S) <= Fine * value.pump
    /\ \A h \in S : h \in DOMAIN shiftHours /\ value.naive[h] \in Int
                    /\ value.delta[h] = value.naive[h] - Fine * shiftHours[h].pump

\* The weights by which a thermostat's day is spread are natural numbers.
LEMMA WeightsKnown ==
  ASSUME HoursKnown, NEW full \in SUBSET DOMAIN shiftHours, IsFiniteSet(full), Measured(full) # {}
  PROVE  DOMAIN NaiveShape(full) = full /\ \A h \in full : NaiveShape(full)[h] \in Nat
  <1> DEFINE M == Measured(full)
             w == [h \in M |-> Max(shiftHours[h].outdoor)]
             sum == MapThenSumSet(LAMBDA h : Max(shiftHours[h].outdoor), M)
             mean == sum \div Cardinality(M)
  <1>1. IsFiniteSet(M) /\ M \subseteq full
    BY FS_Subset DEF Measured
  <1>2. \A h \in M : Max(shiftHours[h].outdoor) \in Int
    <2> TAKE h \in M
    <2>1. PICK x \in Int : shiftHours[h].outdoor = {x}
      <3>1. shiftHours[h].outdoor \subseteq Int /\ \A x, y \in shiftHours[h].outdoor : x = y
        BY <1>1, ShiftAssumption DEF Measured, HoursKnown
      <3>2. shiftHours[h].outdoor # {}
        BY DEF Measured
      <3> QED
        BY <3>1, <3>2, OneOrNone
    <2>2. Max(shiftHours[h].outdoor) \in shiftHours[h].outdoor
      BY <2>1 DEF Max
    <2> QED
      BY <2>1, <2>2
  <1>3. sum = SumOver(w, M)
    <2> DEFINE Sums(F) == F = [s \in SUBSET M |-> IF s = {} THEN 0
                               ELSE Max(shiftHours[CHOOSE x \in s : TRUE].outdoor) + F[s \ {CHOOSE x \in s : TRUE}]]
    <2>1. ASSUME NEW F PROVE Sums(F) <=> Adds(F, w, M)
      BY PickedIn DEF Picked, Adds
    <2>2. sum = (CHOOSE F : Sums(F))[M]
      BY DEF MapThenSumSet, MapThenFoldSet
    <2> HIDE DEF Sums, w, sum
    <2>3. (CHOOSE F : Sums(F)) = (CHOOSE F : Adds(F, w, M))
      BY <2>1
    <2> QED
      BY <2>2, <2>3 DEF SumOver
  <1>4. sum \in Int
    <2>1. Numbers(w, M)
      BY <1>2 DEF Numbers
    <2> HIDE DEF w, sum, M
    <2> QED
      BY <1>1, <1>3, <2>1, SumInt
  <1>5. Cardinality(M) \in Nat \ {0}
    BY <1>1, FS_CardinalityType, FS_EmptySet
  <1>6. mean \in Int
    <2> DEFINE c == Cardinality(M)
    <2>1. sum \in Int /\ c \in Nat \ {0} /\ mean = sum \div c
      BY <1>4, <1>5
    <2> HIDE DEF sum, c, mean
    <2> QED
      BY <2>1
  <1>7. NaiveShape(full) = [h \in full |-> Most(0, shiftHours[h].demand - (IF h \in M THEN Max(shiftHours[h].outdoor) ELSE mean))]
    BY DEF NaiveShape
  <1> HIDE DEF mean, M
  <1>8. \A h \in full : shiftHours[h].demand \in Int
    BY ShiftAssumption DEF HoursKnown
  <1> QED
    BY <1>2, <1>6, <1>7, <1>8 DEF Most

\* The hours that count, their energy and their demand.
FullHours(day) == {h \in DayHoursOf(day) : shiftHours[h].minutes >= FullMinutes}
\* The heat pump's energy of the full hours.
PumpIn(full) == MapThenSumSet(LAMBDA h : shiftHours[h].pump, full)
\* The demand of the full hours.
DemandIn(full) == MapThenSumSet(LAMBDA h : NaiveShape(full)[h], full)

\* Only so many hours are full.
LEMMA FullFinite ==
  ASSUME HoursKnown, NEW day
  PROVE  FullHours(day) \subseteq DOMAIN shiftHours /\ IsFiniteSet(FullHours(day))
  <1>1. FullHours(day) \subseteq DOMAIN shiftHours
    BY DEF FullHours, DayHoursOf
  <1>2. PICK n \in Nat : n = shiftNow
    BY DEF HoursKnown
  <1>3. FullHours(day) \subseteq 0..n
    BY <1>1, <1>2 DEF HoursKnown
  <1>4. IsFiniteSet(0..n)
    BY FS_Interval
  <1> QED
    BY <1>1, <1>3, <1>4, FS_Subset

\* The day's energy is a natural number.
LEMMA PumpIsSum ==
  ASSUME HoursKnown, NEW full \in SUBSET DOMAIN shiftHours, IsFiniteSet(full)
  PROVE  PumpIn(full) \in Nat
  <1> DEFINE w == [h \in full |-> shiftHours[h].pump]
             Sums(F) == F = [s \in SUBSET full |-> IF s = {} THEN 0
                               ELSE shiftHours[CHOOSE x \in s : TRUE].pump + F[s \ {CHOOSE x \in s : TRUE}]]
  <1>1. ASSUME NEW F PROVE Sums(F) <=> Adds(F, w, full)
    BY PickedIn DEF Picked, Adds
  <1>2. PumpIn(full) = (CHOOSE F : Sums(F))[full]
    BY DEF PumpIn, MapThenSumSet, MapThenFoldSet
  <1> HIDE DEF Sums
  <1>3. (CHOOSE F : Sums(F)) = (CHOOSE F : Adds(F, w, full))
    BY <1>1
  <1>4. PumpIn(full) = SumOver(w, full)
    BY <1>2, <1>3 DEF SumOver
  <1>5. \A h \in full : w[h] \in Nat
    BY ShiftAssumption DEF HoursKnown
  <1> HIDE DEF w
  <1> QED
    BY <1>4, <1>5, SumNat

\* A day that is not skipped has all that its numbers need.
LEMMA DayNumbers ==
  ASSUME NEW day, DayValue(day).reason = ""
  PROVE  LET full == FullHours(day)
             naive == Spread(PumpIn(full), NaiveShape(full))
         IN  /\ Measured(full) # {} /\ DemandIn(full) # 0
             /\ DayValue(day).pump = PumpIn(full) /\ DayValue(day).naive = naive
             /\ DayValue(day).delta = [h \in full |-> naive[h] - Fine * shiftHours[h].pump]
  <1> DEFINE full == FullHours(day)
             naive == Spread(PumpIn(full), NaiveShape(full))
             delta == [h \in full |-> naive[h] - Fine * shiftHours[h].pump]
             few == Cardinality(full) < HoursNeeded \/ 10 * Cardinality(full) < PartNeeded * HoursGone(day)
             free == \E h \in full : shiftHours[h].price = {}
             shifted == MapThenSumSet(LAMBDA h : Most(0, delta[h]), full)
             saving == MapThenSumSet(LAMBDA h :
                  Cost(shiftHours[h], GridImport(shiftHours[h], delta[h]), GridExport(shiftHours[h], delta[h]))
                    - Cost(shiftHours[h], Fine * shiftHours[h].import, Fine * shiftHours[h].export), full)
             result == [reason |-> "", pump |-> PumpIn(full), naive |-> naive, delta |-> delta, shifted |-> shifted, saving |-> saving]
  <1>1. DayValue(day) = IF few THEN Skipped("few hours")
          ELSE IF free THEN Skipped("no price")
          ELSE IF Measured(full) = {} THEN Skipped("no outdoor")
          ELSE IF PumpIn(full) < PumpNeeded THEN Skipped("no run")
          ELSE IF DemandIn(full) = 0 THEN Skipped("no demand")
          ELSE result
    BY DEF DayValue, FullHours, PumpIn, DemandIn
  <1>2. \A reason : Skipped(reason).reason = reason
    BY DEF Skipped
  <1>3. "few hours" # "" /\ "no price" # "" /\ "no outdoor" # "" /\ "no run" # "" /\ "no demand" # ""
    OBVIOUS
  <1> HIDE DEF few, free, full, naive, delta, shifted, saving
  <1>4. Measured(full) # {} /\ DemandIn(full) # 0 /\ DayValue(day) = result
    <2> HIDE DEF result
    <2> QED
      BY <1>1, <1>2, <1>3
  <1>5. result.pump = PumpIn(full) /\ result.naive = naive /\ result.delta = delta
    OBVIOUS
  <1> HIDE DEF result
  <1>6. DayValue(day).pump = PumpIn(full) /\ DayValue(day).naive = naive /\ DayValue(day).delta = delta
    BY <1>4, <1>5
  <1> QED
    BY <1>4, <1>6 DEF full, naive, delta

\* A natural number is an integer that is not negative.
LEMMA NatIsInt == \A n \in Nat : n >= 0 /\ n \in Int
  OBVIOUS

\* A day that is compared is compared fairly.
LEMMA DayIsFair ==
  ASSUME HoursKnown, NEW day, DayValue(day).reason = ""
  PROVE  DayFair(DayValue(day))
  <1> DEFINE full == FullHours(day)
             pump == PumpIn(full)
             weight == NaiveShape(full)
             naive == Spread(pump, weight)
             delta == [h \in full |-> naive[h] - Fine * shiftHours[h].pump]
  <1>1. full \subseteq DOMAIN shiftHours /\ IsFiniteSet(full)
    BY FullFinite
  <1>2. /\ Measured(full) # {} /\ DemandIn(full) # 0
        /\ DayValue(day).pump = pump /\ DayValue(day).naive = naive /\ DayValue(day).delta = delta
    BY DayNumbers
  <1> HIDE DEF full
  <1>3. pump \in Nat
    BY <1>1, PumpIsSum
  <1>4. DOMAIN weight = full /\ \A h \in full : weight[h] \in Nat
    BY <1>1, <1>2, WeightsKnown
  <1>5. SumOver(weight, full) # 0
    <2>1. DemandIn(full) = SumOver(weight, full)
      BY <1>1, SumOfValues DEF DemandIn
    <2> QED
      BY <1>2, <2>1
  <1> HIDE DEF pump, weight
  <1>6. naive \in CappedShares(full, Fine * pump)
    BY <1>1, <1>3, <1>4, <1>5, SpreadFits
  <1> HIDE DEF naive
  <1>7. DOMAIN naive = full /\ (\A h \in full : naive[h] \in Nat /\ naive[h] <= Limit) /\ SumOver(naive, full) <= Fine * pump
    BY <1>6 DEF CappedShares, SharesOf
  <1>8. \A h \in full : h \in DOMAIN shiftHours /\ delta[h] = naive[h] - Fine * shiftHours[h].pump
    BY <1>1
  <1> HIDE DEF delta
  <1> DEFINE value == DayValue(day)
  <1>9. value.pump = pump /\ value.naive = naive /\ value.delta = delta
    BY <1>2
  <1> HIDE DEF value
  <1>10. IsFiniteSet(DOMAIN value.naive) /\ SumOver(value.naive, DOMAIN value.naive) <= Fine * value.pump
    BY <1>1, <1>7, <1>9
  <1>11. \A h \in DOMAIN value.naive :
            /\ value.naive[h] >= 0 /\ value.naive[h] <= Limit /\ h \in DOMAIN shiftHours /\ value.naive[h] \in Int
            /\ value.delta[h] = value.naive[h] - Fine * shiftHours[h].pump
    <2>1. \A h \in full : naive[h] \in Nat /\ naive[h] <= Limit /\ h \in DOMAIN shiftHours
                          /\ delta[h] = naive[h] - Fine * shiftHours[h].pump
      BY <1>7, <1>8
    <2>2. DOMAIN value.naive = full
      BY <1>7, <1>9
    <2> DEFINE HourFair(n, d, h) == /\ n >= 0 /\ n <= Limit /\ h \in DOMAIN shiftHours /\ n \in Int
                                    /\ d = n - Fine * shiftHours[h].pump
    <2> HIDE DEF HourFair
    <2>3. \A h \in full : HourFair(naive[h], delta[h], h)
      <3> SUFFICES ASSUME NEW h \in full PROVE HourFair(naive[h], delta[h], h)
        OBVIOUS
      <3>1. naive[h] \in Nat
        BY <2>1
      <3>2. naive[h] >= 0 /\ naive[h] \in Int
        BY <3>1, NatIsInt, Zenon
      <3>3. naive[h] <= Limit /\ h \in DOMAIN shiftHours
        BY <2>1
      <3>4. delta[h] = naive[h] - Fine * shiftHours[h].pump
        BY <2>1, Zenon
      <3> QED
        BY <3>2, <3>3, <3>4, Zenon DEF HourFair
    <2>4. \A h \in DOMAIN value.naive : HourFair(value.naive[h], value.delta[h], h)
      BY <1>9, <2>2, <2>3
    <2> QED
      BY <2>4 DEF HourFair
  <1> QED
    BY <1>10, <1>11 DEF DayFair, value

\* The inductive invariant: the hours, and that every day of a report is compared fairly.
ShiftInv == HoursKnown /\ \A r \in dayResults : \A d \in DOMAIN r.days : r.days[d].reason = "" => DayFair(r.days[d])

\* What moved use costs the grid: what is taken more, and what is given less, are together what was moved.
LEMMA GridMoves ==
  ASSUME NEW row \in ShiftRows, NEW delta \in Int
  PROVE  /\ GridImport(row, delta) - GridExport(row, delta) = Fine * (row.import - row.export) + delta
         /\ delta = 0 => GridImport(row, delta) = Fine * row.import
  <1> DEFINE i == Fine * row.import
             e == Fine * row.export
  <1>1. i \in Nat /\ e \in Nat /\ Fine * (row.import - row.export) = i - e
    BY ShiftAssumption
  <1>2. /\ GridImport(row, delta) = IF delta >= 0 THEN i + Most(0, delta - e) ELSE Most(0, i + delta)
        /\ GridExport(row, delta) = IF delta >= 0 THEN Most(0, e - delta) ELSE e + Most(0, 0 - delta - i)
    BY DEF GridImport, GridExport
  <1> HIDE DEF i, e
  <1> QED
    BY <1>1, <1>2 DEF Most, i

\* The invariant holds in every state.
LEMMA ShiftInvariance == ShiftSpec => []ShiftInv
  <1>1. ShiftInit => ShiftInv
    BY DEF ShiftInit, ShiftInv, HoursKnown
  <1>2. ShiftInv /\ [ShiftNext]_shiftVars => ShiftInv'
    <2> SUFFICES ASSUME ShiftInv, [ShiftNext]_shiftVars PROVE ShiftInv'
      OBVIOUS
    <2>1. ASSUME NEW row \in ShiftRows, ShiftHour(row) PROVE ShiftInv'
      <3>1. HoursKnown'
        BY <2>1 DEF ShiftHour, ShiftInv, HoursKnown
      <3> QED
        BY <2>1, <3>1 DEF ShiftHour, ShiftInv
    <2>2. CASE ShiftHourMissing
      <3>1. HoursKnown'
        BY <2>2 DEF ShiftHourMissing, ShiftInv, HoursKnown
      <3> QED
        BY <2>2, <3>1 DEF ShiftHourMissing, ShiftInv
    <2>3. CASE UNCHANGED <<shiftHours, shiftNow>>
      <3>1. HoursKnown'
        BY <2>3 DEF ShiftInv, HoursKnown
      <3>2. \A value : DayFair(value)' <=> DayFair(value)
        BY <2>3 DEF DayFair
      <3>3. CASE dayResults' = dayResults
        BY <3>1, <3>2, <3>3 DEF ShiftInv
      <3>4. CASE ReportShift
        <4> DEFINE known == {d \in 0..(ShiftDays - 1) : DayHoursOf(d) # {}}
                   value == [d \in known |-> DayValue(d)]
                   skipped == Cardinality({d \in known : value[d].reason # ""})
                   saving == MapThenSumSet(LAMBDA d : value[d].saving, known)
                   shifted == MapThenSumSet(LAMBDA d : value[d].shifted, known)
        <4>1. dayResults' = {[days |-> value, skipped |-> skipped, saving |-> saving, shifted |-> shifted]}
          BY <3>4 DEF ReportShift
        <4> HIDE DEF skipped, saving, shifted
        <4>2. \A r \in dayResults' : \A d \in DOMAIN r.days : r.days[d] = DayValue(d)
          BY <4>1
        <4> QED
          BY <3>1, <3>2, <4>2, DayIsFair DEF ShiftInv
      <3> QED
        BY <2>3, <3>3, <3>4 DEF ShiftNext, ShiftHour, ShiftHourMissing, shiftVars
    <2> QED
      BY <2>1, <2>2, <2>3 DEF ShiftNext, shiftVars, ReportShift
  <1> QED
    BY <1>1, <1>2, PTL DEF ShiftSpec

\* No hour of a thermostat's day takes more than the heat pump can, the day no more than was measured,
\* and the grid differs by what was moved, for any rows, any limit and any number of rounds (spread, _netz).
THEOREM ShiftsComparedFairly == ShiftSpec => []FairComparison
  <1>1. ShiftInv => FairComparison
    <2> SUFFICES ASSUME ShiftInv, NEW v \in Judged1
                 PROVE  /\ \A h \in FullOf(v) : v.value.naive[h] >= 0 /\ v.value.naive[h] <= Limit
                        /\ MapThenSumSet(LAMBDA h : v.value.naive[h], FullOf(v)) <= Fine * v.value.pump
                        /\ \A h \in FullOf(v) :
                              /\ GridImport(shiftHours[h], v.value.delta[h]) - GridExport(shiftHours[h], v.value.delta[h])
                                    = Fine * (shiftHours[h].import - shiftHours[h].export) + v.value.delta[h]
                              /\ v.value.naive[h] = Fine * shiftHours[h].pump =>
                                    GridImport(shiftHours[h], v.value.delta[h]) = Fine * shiftHours[h].import
      BY DEF FairComparison
    <2>1. PICK r \in dayResults : v \in {[day |-> d, value |-> r.days[d]] : d \in {k \in DOMAIN r.days : r.days[k].reason = ""}}
      BY DEF Judged1
    <2>5. PICK d \in DOMAIN r.days : r.days[d].reason = "" /\ v = [day |-> d, value |-> r.days[d]]
      BY <2>1
    <2>2. DayFair(v.value)
      <3>1. v.value = r.days[d]
        BY <2>5
      <3> QED
        BY <2>5, <3>1 DEF ShiftInv
    <2>4. MapThenSumSet(LAMBDA h : v.value.naive[h], FullOf(v)) <= Fine * v.value.pump
      <3> DEFINE naive == v.value.naive
      <3>1. MapThenSumSet(LAMBDA h : naive[h], DOMAIN naive) = SumOver(naive, DOMAIN naive)
        <4> HIDE DEF naive
        <4>1. IsFiniteSet(DOMAIN naive)
          BY <2>2 DEF DayFair, naive
        <4> QED
          BY <4>1, SumOfValues
      <3> QED
        BY <2>2, <3>1 DEF DayFair, FullOf
    <2>3. ASSUME NEW h \in FullOf(v)
          PROVE  /\ GridImport(shiftHours[h], v.value.delta[h]) - GridExport(shiftHours[h], v.value.delta[h])
                      = Fine * (shiftHours[h].import - shiftHours[h].export) + v.value.delta[h]
                 /\ v.value.naive[h] = Fine * shiftHours[h].pump =>
                      GridImport(shiftHours[h], v.value.delta[h]) = Fine * shiftHours[h].import
      <3>1. shiftHours[h] \in ShiftRows /\ v.value.naive[h] \in Int /\ v.value.delta[h] = v.value.naive[h] - Fine * shiftHours[h].pump
        BY <2>2, <2>3 DEF DayFair, FullOf, ShiftInv, HoursKnown
      <3> DEFINE p == Fine * shiftHours[h].pump
      <3>2. p \in Nat
        BY <3>1, ShiftAssumption
      <3> HIDE DEF p
      <3>3. v.value.delta[h] = v.value.naive[h] - p
        BY <3>1 DEF p
      <3>4. v.value.delta[h] \in Int /\ (v.value.naive[h] = p => v.value.delta[h] = 0)
        BY <3>1, <3>2, <3>3
      <3> QED
        BY <3>1, <3>4, GridMoves DEF p
    <2> QED
      BY <2>2, <2>3, <2>4 DEF DayFair, FullOf
  <1> QED
    BY <1>1, ShiftInvariance, PTL

----------------------------------------------------------------------------
(* The heat *)

\* Two members of M with none between them.
Consecutive(M) == {p \in M \X M : p[1] < p[2] /\ \A t \in M : t <= p[1] \/ t >= p[2]}

\* g is what w changes between two of them.
ChangesOf(g, w, M) == \A p \in Consecutive(M) : g[p] = w[p[2]] - w[p[1]]
\* The first and the last member of M.
FirstOf1(x, M) == x \in M /\ \A t \in M : x <= t
\* See FirstOf1.
LastOf1(x, M) == x \in M /\ \A t \in M : t <= x
\* The members up to n.
Upto(M, n) == {t \in M : t <= n}

\* What comes in with a later member.
LEMMA ConsecutiveWith ==
  ASSUME NEW M \in SUBSET Nat, NEW x \in M, NEW b \in M, b < x, \A t \in M : t <= b \/ t >= x
  PROVE  /\ Consecutive(Upto(M, x)) = Consecutive(Upto(M, b)) \cup {<<b, x>>}
         /\ <<b, x>> \notin Consecutive(Upto(M, b))
  <1>0. b \in Nat /\ x \in Nat /\ \A t \in M : t \in Nat
    OBVIOUS
  <1>1. ASSUME NEW p \in Consecutive(Upto(M, b)) PROVE p \in Consecutive(Upto(M, x))
    <2>1. p \in Upto(M, b) \X Upto(M, b) /\ p[1] < p[2] /\ \A t \in Upto(M, b) : t <= p[1] \/ t >= p[2]
      BY <1>1 DEF Consecutive
    <2>2. p[1] \in M /\ p[2] \in M /\ p[1] <= b /\ p[2] <= b /\ p = <<p[1], p[2]>>
      BY <2>1 DEF Upto
    <2>3. p[1] \in Upto(M, x) /\ p[2] \in Upto(M, x)
      BY <1>0, <2>2 DEF Upto
    <2>4. ASSUME NEW t \in Upto(M, x) PROVE t <= p[1] \/ t >= p[2]
      <3>1. t \in M
        BY <2>4 DEF Upto
      <3>2. CASE t <= b
        <4>1. t \in Upto(M, b)
          BY <3>1, <3>2 DEF Upto
        <4> QED
          BY <2>1, <4>1
      <3>3. CASE t >= x
        BY <1>0, <2>2, <3>1, <3>3
      <3> QED
        BY <3>1, <3>2, <3>3
    <2> QED
      BY <2>1, <2>2, <2>3, <2>4 DEF Consecutive
  <1>2. <<b, x>> \in Consecutive(Upto(M, x))
    <2>1. b \in Upto(M, x) /\ x \in Upto(M, x)
      BY <1>0 DEF Upto
    <2>2. \A t \in Upto(M, x) : t <= b \/ t >= x
      BY DEF Upto
    <2> QED
      BY <2>1, <2>2 DEF Consecutive
  <1>3. ASSUME NEW p \in Consecutive(Upto(M, x)), p # <<b, x>> PROVE p \in Consecutive(Upto(M, b))
    <2>1. p \in Upto(M, x) \X Upto(M, x) /\ p[1] < p[2] /\ \A t \in Upto(M, x) : t <= p[1] \/ t >= p[2]
      BY <1>3 DEF Consecutive
    <2>2. p = <<p[1], p[2]>> /\ p[1] \in M /\ p[2] \in M /\ p[1] <= x /\ p[2] <= x
      BY <2>1 DEF Upto
    <2>7. p[1] \in Nat /\ p[2] \in Nat
      BY <1>0, <2>2
    <2>8. p[1] < p[2]
      BY <2>1
    <2>3. p[2] # x
      <3> SUFFICES ASSUME p[2] = x PROVE FALSE
        OBVIOUS
      <3>1. b \in Upto(M, x)
        BY <1>0 DEF Upto
      <3>2. b <= p[1] \/ b >= x
        BY <2>1, <3>1
      <3>3. p[1] <= b \/ p[1] >= x
        BY <2>2
      <3>4. p[1] = b
        BY <1>0, <2>7, <2>8, <3>2, <3>3
      <3> QED
        BY <1>3, <2>2, <3>4
    <2>4. p[1] <= b /\ p[2] <= b
      <3>1. (p[1] <= b \/ p[1] >= x) /\ (p[2] <= b \/ p[2] >= x)
        BY <2>2
      <3> QED
        BY <1>0, <2>2, <2>3, <2>7, <2>8, <3>1
    <2>5. p[1] \in Upto(M, b) /\ p[2] \in Upto(M, b)
      BY <2>2, <2>4 DEF Upto
    <2>6. \A t \in Upto(M, b) : t \in Upto(M, x)
      BY <1>0 DEF Upto
    <2> QED
      BY <2>1, <2>2, <2>5, <2>6 DEF Consecutive
  <1>4. <<b, x>> \notin Consecutive(Upto(M, b))
    BY <1>0 DEF Consecutive, Upto
  <1> QED
    BY <1>1, <1>2, <1>3, <1>4

\* The changes between consecutive members add up to the one from the first to the last.
LEMMA ChangesAddUp ==
  ASSUME NEW M \in SUBSET Nat, IsFiniteSet(M), NEW w, Numbers(w, M), NEW g, ChangesOf(g, w, M),
         NEW first, FirstOf1(first, M), NEW last, LastOf1(last, M)
  PROVE  SumOver(g, Consecutive(M)) = w[last] - w[first]
  <1> DEFINE P == {n \in Nat : \A x \in M : x <= n => SumOver(g, Consecutive(Upto(M, x))) = w[x] - w[first]}
  <1>0. first \in M /\ last \in M /\ (\A t \in M : t \in Nat /\ first <= t /\ t <= last)
    BY DEF FirstOf1, LastOf1
  <1>1. Consecutive(M) \subseteq M \X M /\ IsFiniteSet(Consecutive(M))
    <2>1. Consecutive(M) \subseteq M \X M
      BY DEF Consecutive
    <2> QED
      BY <2>1, FS_Product, FS_Subset
  <1>2. Numbers(g, Consecutive(M))
    <2> SUFFICES ASSUME NEW p \in Consecutive(M) PROVE g[p] \in Int
      BY DEF Numbers
    <2>1. p[1] \in M /\ p[2] \in M
      BY <1>1
    <2>2. w[p[1]] \in Int /\ w[p[2]] \in Int
      BY <2>1 DEF Numbers
    <2>3. g[p] = w[p[2]] - w[p[1]]
      BY DEF ChangesOf
    <2> QED
      BY <2>2, <2>3
  <1>3. ASSUME NEW x \in M, NEW p \in Consecutive(Upto(M, x)) PROVE p \in Consecutive(M)
    <2>1. p \in Upto(M, x) \X Upto(M, x) /\ p[1] < p[2] /\ \A t \in Upto(M, x) : t <= p[1] \/ t >= p[2]
      BY <1>3 DEF Consecutive
    <2>2. p \in M \X M /\ p[1] \in M /\ p[2] \in M /\ p[2] <= x
      BY <2>1 DEF Upto
    <2>3. ASSUME NEW t \in M PROVE t <= p[1] \/ t >= p[2]
      <3>1. CASE t <= x
        <4>1. t \in Upto(M, x)
          BY <3>1 DEF Upto
        <4> QED
          BY <2>1, <4>1
      <3>2. CASE t > x
        <4>1. p[2] \in Nat /\ t \in Nat /\ x \in Nat /\ p[2] <= x
          BY <1>0, <2>2
        <4> QED
          BY <3>2, <4>1
      <3>3. t \in Nat /\ x \in Nat
        BY <1>0
      <3> QED
        BY <3>1, <3>2, <3>3
    <2> QED
      BY <2>1, <2>2, <2>3 DEF Consecutive
  <1>4. SumOver(g, Consecutive(Upto(M, first))) = w[first] - w[first]
    <2>1. Upto(M, first) = {first}
      <3>1. \A t \in M : t <= first => t = first
        <4> TAKE t \in M
        <4>1. t \in Nat /\ first \in Nat /\ first <= t
          BY <1>0
        <4> QED
          BY <4>1
      <3>2. first \in Nat
        BY <1>0
      <3> QED
        BY <1>0, <3>1, <3>2 DEF Upto
    <2>2. Consecutive({first}) = {}
      BY <1>0 DEF Consecutive
    <2>3. w[first] - w[first] = 0
      BY <1>0 DEF Numbers
    <2> QED
      BY <2>1, <2>2, <2>3, SumEmpty
  <1>5. 0 \in P
    <2>1. \A x \in M : x <= 0 => x = first
      BY <1>0
    <2> QED
      BY <1>4, <2>1
  <1>6. ASSUME NEW n \in Nat, n \in P PROVE n + 1 \in P
    <2> SUFFICES ASSUME NEW x \in M, x <= n + 1 PROVE SumOver(g, Consecutive(Upto(M, x))) = w[x] - w[first]
      BY <1>6
    <2>1. CASE x <= n
      BY <1>6, <2>1
    <2>2. CASE x = first
      BY <1>4, <2>2
    <2>3. CASE x = n + 1 /\ x # first
      <3> DEFINE B == {t \in M : t < x}
      <3>1. first \in B
        BY <1>0, <2>3
      <3>2. B \in SUBSET Nat /\ B # {} /\ \A t \in B : t <= n
        <4>1. B # {}
          BY <3>1
        <4>2. ASSUME NEW t \in B PROVE t \in Nat /\ t <= n
          <5>1. t \in Nat /\ t < n + 1
            BY <1>0, <2>3, <4>2
          <5> QED
            BY <1>6, <5>1
        <4> HIDE DEF B
        <4> QED
          BY <4>1, <4>2
      <3> HIDE DEF B
      <3>3. PICK b \in B : \A t \in B : t <= b
        BY <1>6, <3>2, LastOne
      <3>4. b \in M /\ b < x /\ b <= n /\ \A t \in M : t <= b \/ t >= x
        <4>1. b \in M /\ b < x
          BY <3>3 DEF B
        <4>2. \A t \in M : t < x => t <= b
          BY <3>3 DEF B
        <4>3. \A t \in M : t < x \/ t >= x
          BY <1>0
        <4> QED
          BY <3>2, <3>3, <4>1, <4>2, <4>3
      <3> DEFINE C == Consecutive(Upto(M, b))
      <3>5. Consecutive(Upto(M, x)) = C \cup {<<b, x>>} /\ <<b, x>> \notin C
        BY <3>4, ConsecutiveWith
      <3>6. <<b, x>> \in Consecutive(M)
        BY <1>3, <3>5
      <3>7. g[<<b, x>>] = w[x] - w[b]
        BY <3>6 DEF ChangesOf
      <3>8. SumOver(g, C) = w[b] - w[first]
        BY <1>6, <3>4
      <3>9. IsFiniteSet(C) /\ Numbers(g, C \cup {<<b, x>>})
        <4>1. C \subseteq Consecutive(M)
          BY <1>3, <3>4
        <4> HIDE DEF C
        <4> QED
          BY <1>1, <1>2, <3>6, <4>1, FS_Subset DEF Numbers
      <3> HIDE DEF C
      <3>10. SumOver(g, C \cup {<<b, x>>}) = g[<<b, x>>] + SumOver(g, C)
        BY <3>5, <3>9, SumWith
      <3>11. w[x] \in Int /\ w[b] \in Int /\ w[first] \in Int
        BY <1>0, <3>4 DEF Numbers
      <3> QED
        BY <3>5, <3>7, <3>8, <3>10, <3>11
    <2>4. x \in Nat
      BY <1>0
    <2> QED
      BY <1>6, <2>1, <2>2, <2>3, <2>4
  <1>7. \A n \in Nat : n \in P
    <2> HIDE DEF P
    <2> QED
      BY <1>5, <1>6, NatsByInduction
  <1>8. Upto(M, last) = M
    BY <1>0 DEF Upto
  <1>9. last \in P /\ last <= last
    BY <1>0, <1>7
  <1> QED
    BY <1>0, <1>8, <1>9

\* A reading of the buffer, and the samples a balance is made of.
Reading(content) == content = {} \/ \E x \in Int : content = {x}
\* Every row has one content or none.
LEMMA RowsReadable == \A row \in HeatRows : Reading(row.content)
  BY HeatAssumption, OneOrNone DEF Reading
\* See Reading.
Sampled(s) ==
  /\ \E n \in Nat : DOMAIN s \subseteq 0..n
  /\ \A t \in DOMAIN s : Reading(s[t].content) /\ s[t].pump \in Int /\ s[t].level \in Int

\* What is measured is a number, at a sample.
LEMMA ReadingsKnown ==
  ASSUME NEW s, Sampled(s)
  PROVE  /\ \E n \in Nat : MeasuredAt(s) \subseteq 0..n
         /\ MeasuredAt(s) \in SUBSET Nat /\ IsFiniteSet(MeasuredAt(s)) /\ MeasuredAt(s) \subseteq DOMAIN s
         /\ \A t \in MeasuredAt(s) : \E x \in Int : s[t].content = {x} /\ Max(s[t].content) = x
  <1>1. PICK n \in Nat : DOMAIN s \subseteq 0..n
    BY DEF Sampled
  <1>2. MeasuredAt(s) \subseteq DOMAIN s /\ MeasuredAt(s) \subseteq 0..n
    BY <1>1 DEF MeasuredAt
  <1>3. IsFiniteSet(MeasuredAt(s))
    <2>1. IsFiniteSet(0..n)
      BY FS_Interval
    <2> QED
      BY <1>2, <2>1, FS_Subset
  <1>4. \A t \in MeasuredAt(s) : \E x \in Int : s[t].content = {x} /\ Max(s[t].content) = x
    BY MaxOfOne DEF MeasuredAt, Sampled, Reading
  <1> QED
    BY <1>2, <1>3, <1>4

\* The readings a power is made of are at a sample each, before and after.
LEMMA ReadingsAround ==
  ASSUME NEW s, Sampled(s), NEW t \in Nat
  PROVE  /\ \A a \in ReadingBefore(s, t) : a \in MeasuredAt(s) /\ a <= t /\ ReadingBefore(s, t) = {a}
         /\ \A b \in ReadingAfter(s, t) : b \in MeasuredAt(s) /\ b >= t /\ ReadingAfter(s, t) = {b}
  <1>1. PICK n \in Nat : MeasuredAt(s) \subseteq 0..n
    BY ReadingsKnown
  <1>2. ASSUME NEW a \in ReadingBefore(s, t) PROVE a \in MeasuredAt(s) /\ a <= t /\ ReadingBefore(s, t) = {a}
    <2> DEFINE before == {u \in MeasuredAt(s) : u <= t}
               far == {u \in before : 2 * (t - u) >= BufferWindow}
    <2>1. before \in SUBSET Nat /\ far \subseteq before /\ \A y \in before : y <= n /\ y <= t /\ y \in MeasuredAt(s)
      BY <1>1
    <2>2. ReadingBefore(s, t) = IF far # {} THEN {Max(far)} ELSE IF before # {} THEN {Min(before)} ELSE {}
      BY DEF ReadingBefore
    <2> HIDE DEF far, before
    <2>3. CASE far # {}
      <3>1. Max(far) \in far
        BY <2>1, <2>3, MaxIs
      <3> QED
        BY <1>2, <2>1, <2>2, <2>3, <3>1
    <2>4. CASE far = {}
      <3>1. before # {} /\ a = Min(before) /\ ReadingBefore(s, t) = {a}
        BY <1>2, <2>2, <2>4
      <3>2. Min(before) \in before
        BY <2>1, <3>1, MinIs
      <3> QED
        BY <2>1, <3>1, <3>2
    <2> QED
      BY <2>3, <2>4
  <1>3. ASSUME NEW b \in ReadingAfter(s, t) PROVE b \in MeasuredAt(s) /\ b >= t /\ ReadingAfter(s, t) = {b}
    <2> DEFINE after == {u \in MeasuredAt(s) : u >= t}
               far == {u \in after : 2 * (u - t) >= BufferWindow}
    <2>1. after \in SUBSET Nat /\ far \subseteq after /\ \A y \in after : y <= n /\ y >= t /\ y \in MeasuredAt(s)
      BY <1>1
    <2>2. ReadingAfter(s, t) = IF far # {} THEN {Min(far)} ELSE IF after # {} THEN {Max(after)} ELSE {}
      BY DEF ReadingAfter
    <2> HIDE DEF far, after
    <2>3. CASE far # {}
      <3>1. Min(far) \in far
        BY <2>1, <2>3, MinIs
      <3> QED
        BY <1>3, <2>1, <2>2, <2>3, <3>1
    <2>4. CASE far = {}
      <3>1. after # {} /\ b = Max(after) /\ ReadingAfter(s, t) = {b}
        BY <1>3, <2>2, <2>4
      <3>2. Max(after) \in after
        BY <2>1, <3>1, MaxIs
      <3> QED
        BY <2>1, <3>1, <3>2
    <2> QED
      BY <2>3, <2>4
  <1> QED
    BY <1>2, <1>3

\* A power of the buffer is the change between two readings, over their distance.
PowerOf(s, t, c) ==
  \E a \in MeasuredAt(s), b \in MeasuredAt(s) :
    /\ a <= t /\ t <= b /\ a < b /\ b - a <= GapLimit + BufferWindow
    /\ c \in Int /\ (b - a) * c = Scale * (Max(s[b].content) - Max(s[a].content))

\* A quotient without a rest.
LEMMA DivEven ==
  ASSUME NEW d \in Nat \ {0}, NEW k \in Int
  PROVE  (d * k) \div d = k
  OBVIOUS

\* There is one power at most.
LEMMA OnePower ==
  ASSUME NEW s, Sampled(s), NEW t \in Nat, NEW c \in BufferPower(s, t)
  PROVE  PowerOf(s, t, c) /\ BufferPower(s, t) = {c}
  <1> DEFINE A == ReadingBefore(s, t)
             B == ReadingAfter(s, t)
             pairs == {q \in A \X B : Apart(q[1], q[2])}
             Power(p) == (Scale * ContentGain(s, p)) \div (p[2] - p[1])
  <1>1. BufferPower(s, t) = {Power(p) : p \in pairs}
    BY DEF BufferPower
  <1>2. PICK p \in pairs : c = Power(p)
    BY <1>1
  <1>3. p = <<p[1], p[2]>> /\ p[1] \in A /\ p[2] \in B /\ Apart(p[1], p[2])
    OBVIOUS
  <1>4. A = {p[1]} /\ B = {p[2]} /\ p[1] \in MeasuredAt(s) /\ p[2] \in MeasuredAt(s) /\ p[1] <= t /\ t <= p[2]
    <2>1. p[1] \in MeasuredAt(s) /\ p[1] <= t /\ A = {p[1]}
      BY <1>3, ReadingsAround
    <2>2. p[2] \in MeasuredAt(s) /\ p[2] >= t /\ B = {p[2]}
      BY <1>3, ReadingsAround
    <2>3. p[2] \in Nat
      BY <2>2, ReadingsKnown
    <2> QED
      BY <2>1, <2>2, <2>3
  <1>5. pairs = {p}
    <2>1. ASSUME NEW q \in pairs PROVE q = p
      <3>1. q = <<q[1], q[2]>> /\ q[1] \in A /\ q[2] \in B
        OBVIOUS
      <3> HIDE DEF A, B, pairs
      <3> QED
        BY <1>3, <1>4, <3>1
    <2> HIDE DEF pairs
    <2> QED
      BY <2>1
  <1>6. BufferPower(s, t) = {c}
    <2> HIDE DEF pairs, Power
    <2> QED
      BY <1>1, <1>2, <1>5
  <1> DEFINE a == p[1]
             b == p[2]
             d == b - a
             g == ContentGain(s, p)
  <1>7. a \in Nat /\ b \in Nat /\ a < b /\ d \in 1..(GapLimit + BufferWindow) /\ d <= GapLimit + BufferWindow /\ d \in Nat \ {0}
    <2>1. a \in Nat /\ b \in Nat
      BY <1>4, ReadingsKnown
    <2> QED
      BY <1>3, <2>1, HeatAssumption DEF Apart
  <1>8. PICK k \in Nat : Scale = d * k
    <2>1. Scale \in Nat /\ Scale % d = 0
      BY <1>7, HeatAssumption
    <2> HIDE DEF d
    <2> QED
      BY <1>7, <2>1, DivideEvenly
  <1>9. g \in Int /\ g = Max(s[b].content) - Max(s[a].content)
    <2>1. Max(s[b].content) \in Int /\ Max(s[a].content) \in Int
      BY <1>4, ReadingsKnown
    <2> QED
      BY <2>1 DEF ContentGain
  <1>10. c = (Scale * g) \div d
    BY <1>2
  <1>11. a \in MeasuredAt(s) /\ b \in MeasuredAt(s) /\ a <= t /\ t <= b
    BY <1>4
  <1> HIDE DEF d, g, a, b
  <1>12. c = k * g
    <2>1. Scale * g = d * (k * g)
      BY <1>7, <1>8, <1>9
    <2>2. (d * (k * g)) \div d = k * g
      BY <1>7, <1>8, <1>9, DivEven
    <2> QED
      BY <1>10, <2>1, <2>2
  <1>13. c \in Int /\ d * c = Scale * g
    BY <1>7, <1>8, <1>9, <1>12
  <1>14. PowerOf(s, t, c)
    BY <1>7, <1>9, <1>11, <1>13 DEF PowerOf, d
  <1> QED
    BY <1>6, <1>14

\* A quotient is a whole number.
LEMMA DivInt == ASSUME NEW x \in Int, NEW d \in Nat \ {0} PROVE x \div d \in Int
  OBVIOUS

\* What the sources leave to the buffer when loss and draw are taken.
ToBuffer(point) == point.pump + point.water - point.loss - point.draw - point.residual

\* The sources and the loss of a sample, in whole numbers.
LEMMA SourcesKnown ==
  ASSUME NEW s, Sampled(s), NEW t \in DOMAIN s
  PROVE  /\ HeatPoint(s, t).pump \in Int /\ HeatPoint(s, t).water \in Int /\ HeatPoint(s, t).loss \in Int
  <1>1. s[t].pump \in Int /\ s[t].level \in Int /\ Reading(s[t].content) /\ Scale \in Int
    BY HeatAssumption DEF Sampled
  <1>2. s[t].content # {} => Max(s[t].content) \in Int
    BY <1>1, MaxOfOne DEF Reading
  <1>3. Cop(s[t].content) \in Int
    <2> DEFINE content == s[t].content
               warm == IF Max(content) > CopContent THEN Max(content) - CopContent ELSE 0
               cop == CopBase - warm
    <2>1. Cop(content) = IF content = {} THEN CopBase ELSE Max({1, cop})
      BY DEF Cop
    <2>2. content # {} => cop \in Int
      BY <1>2, HeatAssumption
    <2> HIDE DEF cop, content
    <2>3. content # {} => Max({1, cop}) \in Int
      BY <2>2, MaxOfTwo
    <2> QED
      BY <2>1, <2>3, HeatAssumption DEF content
  <1>4. StoveToWater(s[t].level) \in Int
    <2> DEFINE level == s[t].level
               stage == Min({level, StoveLevels}) - 1
               more == (StoveHigh - StoveLow) * stage
    <2>1. Min({level, StoveLevels}) \in Int
      BY <1>1, MinOfTwo, HeatAssumption
    <2>2. stage \in Int
      BY <2>1
    <2> HIDE DEF stage
    <2>3. more \in Int
      BY <2>2, HeatAssumption
    <2> HIDE DEF more
    <2>4. more \div (StoveLevels - 1) \in Int
      <3>1. StoveLevels - 1 \in Nat \ {0}
        BY HeatAssumption
      <3> QED
        BY <2>3, <3>1, DivInt
    <2>5. StoveHeat(level) = StoveLow + more \div (StoveLevels - 1)
      BY DEF StoveHeat, more, stage
    <2>6. StoveHeat(level) \in Int
      BY <2>4, <2>5, HeatAssumption
    <2>7. StoveToRoom(level) \in Int
      <3>1. StoveHeat(level) \div RoomPart \in Int
        BY <2>6, HeatAssumption
      <3> QED
        BY <3>1 DEF StoveToRoom
    <2> QED
      BY <2>6, <2>7 DEF StoveToWater
  <1>5. HeatPoint(s, t).pump = Scale * s[t].pump * Cop(s[t].content)
    BY DEF HeatPoint
  <1>6. HeatPoint(s, t).water = Scale * StoveToWater(s[t].level)
    BY DEF HeatPoint
  <1>7. HeatPoint(s, t).loss = IF s[t].content = {} THEN 0 ELSE (Scale * Max(s[t].content)) \div LossDivisor
    BY DEF HeatPoint
  <1>8. s[t].content # {} => (Scale * Max(s[t].content)) \div LossDivisor \in Int
    <2>1. s[t].content # {} => Scale * Max(s[t].content) \in Int
      BY <1>1, <1>2
    <2> QED
      BY <2>1, HeatAssumption
  <1>9. HeatPoint(s, t).pump \in Int
    BY <1>1, <1>3, <1>5
  <1>10. HeatPoint(s, t).water \in Int
    BY <1>1, <1>4, <1>6
  <1> QED
    BY <1>7, <1>8, <1>9, <1>10

\* A point that tells a draw tells the one that fits the sources and the buffer.
LEMMA PointMeasured ==
  ASSUME NEW s, Sampled(s), NEW t \in DOMAIN s, ~HeatPoint(s, t).unknown
  PROVE  PowerOf(s, t, ToBuffer(HeatPoint(s, t)))
  <1> DEFINE point == HeatPoint(s, t)
             gain == {c \in BufferPower(s, t) : c <= Scale * PowerLimit /\ c >= 0 - Scale * PowerLimit}
             pump == Scale * s[t].pump * Cop(s[t].content)
             water == Scale * StoveToWater(s[t].level)
             loss == IF s[t].content = {} THEN 0 ELSE (Scale * Max(s[t].content)) \div LossDivisor
             rest == pump + water - loss - Max(gain)
  <1>0. t \in Nat
    BY DEF Sampled
  <1>1. gain # {}
    BY DEF HeatPoint
  <1>2. PICK c \in BufferPower(s, t) : c \in gain
    BY <1>1
  <1>3. PowerOf(s, t, c) /\ BufferPower(s, t) = {c} /\ c \in Int
    <2>1. PowerOf(s, t, c) /\ BufferPower(s, t) = {c}
      BY <1>0, OnePower
    <2> QED
      BY <2>1 DEF PowerOf
  <1>4. gain = {c} /\ Max(gain) = c
    <2>1. gain = {c}
      BY <1>2, <1>3
    <2> HIDE DEF gain
    <2> QED
      BY <1>3, <2>1, MaxOfOne
  <1>5. /\ point.pump = pump /\ point.water = water /\ point.loss = loss
        /\ point.draw = IF gain = {} \/ rest < 0 THEN 0 ELSE rest
        /\ point.residual = IF gain = {} \/ rest > 0 THEN 0 ELSE rest
    BY DEF HeatPoint
  <1>6. point.pump \in Int /\ point.water \in Int /\ point.loss \in Int
    BY SourcesKnown
  <1> HIDE DEF point, gain, pump, water, loss
  <1>7. pump \in Int /\ water \in Int /\ loss \in Int
    BY <1>5, <1>6
  <1>8. rest \in Int /\ pump + water - loss - rest = c
    BY <1>3, <1>4, <1>7
  <1> HIDE DEF rest
  <1>9. point.draw \in Int /\ point.residual \in Int /\ point.draw + point.residual = rest
    BY <1>1, <1>5, <1>8
  <1>10. ToBuffer(point) = c
    <2>1. ToBuffer(point) = pump + water - loss - point.draw - point.residual
      BY <1>5 DEF ToBuffer
    <2> QED
      BY <1>7, <1>8, <1>9, <2>1
  <1>11. PowerOf(s, t, ToBuffer(point))
    BY <1>3, <1>10
  <1> QED
    BY <1>11 DEF point

\* The change from one reading to the next, of every pair of them.
Gains(s) == [p \in Pairs(s) |-> ContentGain(s, p)]

\* Gains are whole numbers, and what is added up of them is a sum.
LEMMA GainsKnown ==
  ASSUME NEW s, Sampled(s)
  PROVE  /\ Pairs(s) = Consecutive(MeasuredAt(s)) /\ IsFiniteSet(Pairs(s))
         /\ \A p \in Pairs(s) : p[1] \in MeasuredAt(s) /\ p[2] \in MeasuredAt(s) /\ Gains(s)[p] \in Int
         /\ Numbers(Gains(s), Pairs(s))
  <1>1. Pairs(s) = Consecutive(MeasuredAt(s))
    BY DEF Pairs, Consecutive
  <1>2. Pairs(s) \subseteq MeasuredAt(s) \X MeasuredAt(s)
    BY DEF Pairs
  <1>3. IsFiniteSet(Pairs(s))
    <2>1. IsFiniteSet(MeasuredAt(s) \X MeasuredAt(s))
      BY ReadingsKnown, FS_Product
    <2> QED
      BY <1>2, <2>1, FS_Subset
  <1>4. ASSUME NEW p \in Pairs(s) PROVE p[1] \in MeasuredAt(s) /\ p[2] \in MeasuredAt(s) /\ Gains(s)[p] \in Int
    <2>1. p[1] \in MeasuredAt(s) /\ p[2] \in MeasuredAt(s)
      BY <1>2
    <2>2. Max(s[p[1]].content) \in Int /\ Max(s[p[2]].content) \in Int
      BY <2>1, ReadingsKnown
    <2>3. ContentGain(s, p) \in Int
      BY <2>2 DEF ContentGain
    <2> QED
      BY <2>1, <2>3 DEF Gains
  <1> QED
    BY <1>1, <1>3, <1>4 DEF Numbers

\* See GainsKnown.
LEMMA GainSum ==
  ASSUME NEW s, Sampled(s), NEW pairs \in SUBSET Pairs(s)
  PROVE  GainOver(s, pairs) = SumOver(Gains(s), pairs) /\ IsFiniteSet(pairs) /\ Numbers(Gains(s), pairs)
  <1> DEFINE w == [p \in pairs |-> ContentGain(s, p)]
             Sums(F) == F = [t \in SUBSET pairs |-> IF t = {} THEN 0
                               ELSE ContentGain(s, CHOOSE x \in t : TRUE) + F[t \ {CHOOSE x \in t : TRUE}]]
  <1>1. ASSUME NEW F PROVE Sums(F) <=> Adds(F, w, pairs)
    BY PickedIn DEF Picked, Adds
  <1>2. GainOver(s, pairs) = (CHOOSE F : Sums(F))[pairs]
    BY DEF GainOver, MapThenSumSet, MapThenFoldSet
  <1> HIDE DEF Sums
  <1>3. (CHOOSE F : Sums(F)) = (CHOOSE F : Adds(F, w, pairs))
    BY <1>1
  <1>4. GainOver(s, pairs) = SumOver(w, pairs)
    BY <1>2, <1>3 DEF SumOver
  <1>5. IsFiniteSet(pairs) /\ Numbers(Gains(s), pairs)
    BY GainsKnown, FS_Subset DEF Numbers
  <1>6. \A p \in pairs : w[p] = Gains(s)[p]
    BY DEF Gains
  <1> HIDE DEF w
  <1>7. SumOver(Gains(s), pairs) = SumOver(w, pairs)
    BY <1>5, <1>6, SumSame
  <1> QED
    BY <1>4, <1>5, <1>7

\* The change of the period is that of all pairs.
LEMMA ChangeOfAll ==
  ASSUME NEW s, Sampled(s), NEW points, NEW step
  PROVE  HeatTotals(s, points, step).change = SumOver(Gains(s), Pairs(s))
  <1> DEFINE M == MeasuredAt(s)
             w == [t \in M |-> Max(s[t].content)]
             heat == step * MapThenSumSet(LAMBDA t : points[t].pump + points[t].water + points[t].room, DOMAIN s)
             draw == step * MapThenSumSet(LAMBDA t : points[t].draw, DOMAIN s)
             residual == step * MapThenSumSet(LAMBDA t : points[t].residual, DOMAIN s)
             loss == step * MapThenSumSet(LAMBDA t : points[t].loss, DOMAIN s)
             electric == step * MapThenSumSet(LAMBDA t : s[t].pump, DOMAIN s)
             gain == IF Cardinality(M) < 2 THEN 0 ELSE Max(s[Max(M)].content) - Max(s[Min(M)].content)
             stoveMinutes == step * Cardinality({t \in DOMAIN s : s[t].level > 0})
             unknown == Cardinality({t \in DOMAIN s : points[t].unknown})
  <1>1. HeatTotals(s, points, step) = [heat |-> heat, draw |-> draw, residual |-> residual, loss |-> loss, electric |-> electric,
                                      change |-> gain, stoveMinutes |-> stoveMinutes, unknown |-> unknown]
    BY DEF HeatTotals
  <1> HIDE DEF heat, draw, residual, loss, electric, stoveMinutes, unknown, gain
  <1>2. HeatTotals(s, points, step).change = gain
    BY <1>1
  <1>3. /\ M \in SUBSET Nat /\ IsFiniteSet(M) /\ Pairs(s) = Consecutive(M)
        /\ \A t \in M : Max(s[t].content) \in Int
    BY ReadingsKnown, GainsKnown
  <1>4. PICK n \in Nat : M \subseteq 0..n
    BY ReadingsKnown
  <1> HIDE DEF M
  <1>5. CASE Cardinality(M) < 2
    <2>1. M = {} \/ \E x : M = {x}
      <3>1. Cardinality(M) \in Nat
        BY <1>3, FS_CardinalityType
      <3>2. Cardinality(M) = 0 => M = {}
        BY <1>3, FS_EmptySet
      <3>3. Cardinality(M) = 1 => \E x : M = {x}
        BY <1>3, FS_Singleton
      <3>4. Cardinality(M) = 0 \/ Cardinality(M) = 1
        BY <1>5, <3>1
      <3> QED
        BY <3>2, <3>3, <3>4
    <2>2. Consecutive(M) = {}
      <3> SUFFICES ASSUME NEW p \in Consecutive(M) PROVE FALSE
        OBVIOUS
      <3>1. p[1] \in M /\ p[2] \in M /\ p[1] < p[2]
        BY DEF Consecutive
      <3>2. p[1] = p[2]
        BY <2>1, <3>1
      <3>3. p[1] \in Nat
        BY <1>3, <3>1
      <3> QED
        BY <3>1, <3>2, <3>3
    <2> QED
      BY <1>2, <1>3, <1>5, <2>2, SumEmpty DEF gain
  <1>6. CASE ~(Cardinality(M) < 2)
    <2>1. M # {}
      BY <1>6, FS_EmptySet
    <2>2. FirstOf1(Min(M), M)
      BY <1>3, <2>1, MinIs DEF FirstOf1
    <2>3. LastOf1(Max(M), M)
      <3>1. \A y \in M : y <= n
        BY <1>4
      <3> QED
        BY <1>3, <2>1, <3>1, MaxIs DEF LastOf1
    <2>4. Numbers(w, M) /\ w[Max(M)] = Max(s[Max(M)].content) /\ w[Min(M)] = Max(s[Min(M)].content)
      BY <1>3, <2>2, <2>3 DEF Numbers, FirstOf1, LastOf1
    <2>5. ChangesOf(Gains(s), w, M)
      BY <1>3, GainsKnown DEF ChangesOf, Gains, ContentGain, M
    <2> HIDE DEF w
    <2>6. SumOver(Gains(s), Consecutive(M)) = w[Max(M)] - w[Min(M)]
      BY <1>3, <2>2, <2>3, <2>4, <2>5, ChangesAddUp
    <2> QED
      BY <1>2, <1>3, <1>6, <2>4, <2>6 DEF gain
  <1> QED
    BY <1>5, <1>6

\* The gains, sorted by their reasons, close.
GainsRight(buffer, gain) ==
  /\ buffer.gain - buffer.drop = gain
  /\ buffer.gain = buffer.withPump + buffer.without
  /\ buffer.withStove + buffer.unexplained <= buffer.without

\* No gain is lost by sorting.
LEMMA SortingCloses ==
  ASSUME NEW s, Sampled(s)
  PROVE  GainsRight(BufferBalance(s), SumOver(Gains(s), Pairs(s)))
  <1> DEFINE all == Pairs(s)
             risen == {p \in Pairs(s) : ContentGain(s, p) >= 0}
             alone == {p \in risen : s[p[2]].pump = 0}
             stove == {p \in alone : s[p[2]].level > 0}
             cold == {p \in alone : s[p[2]].level = 0}
             Sum(pairs) == SumOver(Gains(s), pairs)
  <1>1. BufferBalance(s) =
          [gain |-> GainOver(s, risen), drop |-> 0 - GainOver(s, all \ risen), withPump |-> GainOver(s, risen \ alone),
           without |-> GainOver(s, alone), withStove |-> GainOver(s, stove), unexplained |-> GainOver(s, cold)]
    BY DEF BufferBalance
  <1>2. risen \subseteq all /\ alone \subseteq risen /\ stove \subseteq alone /\ cold \subseteq alone /\ stove \cap cold = {}
    OBVIOUS
  <1>3. \A p \in risen : Gains(s)[p] \in Nat
    <2> TAKE p \in risen
    <2>1. Gains(s)[p] \in Int
      BY GainsKnown
    <2>2. Gains(s)[p] = ContentGain(s, p) /\ ContentGain(s, p) >= 0
      BY DEF Gains
    <2> HIDE DEF risen
    <2> QED
      BY <2>1, <2>2
  <1> HIDE DEF all, risen, alone, stove, cold
  <1>4. \A pairs \in SUBSET all : GainOver(s, pairs) = Sum(pairs) /\ IsFiniteSet(pairs) /\ Numbers(Gains(s), pairs) /\ Sum(pairs) \in Int
    <2> SUFFICES ASSUME NEW pairs \in SUBSET all
                 PROVE GainOver(s, pairs) = Sum(pairs) /\ IsFiniteSet(pairs) /\ Numbers(Gains(s), pairs) /\ Sum(pairs) \in Int
      OBVIOUS
    <2>1. GainOver(s, pairs) = Sum(pairs) /\ IsFiniteSet(pairs) /\ Numbers(Gains(s), pairs)
      BY GainSum DEF all
    <2> QED
      BY <2>1, SumInt
  <1> HIDE DEF Sum
  <1>5. ASSUME NEW x \in SUBSET all, NEW y \in SUBSET all, x \cap y = {} PROVE Sum(x \cup y) = Sum(x) + Sum(y)
    <2>1. x \cup y \in SUBSET all
      OBVIOUS
    <2> QED
      BY <1>4, <1>5, <2>1, SumUnion DEF Sum
  <1>6. Sum(all) = Sum(risen) + Sum(all \ risen)
    <2>1. all = risen \cup (all \ risen) /\ risen \cap (all \ risen) = {} /\ all \ risen \in SUBSET all /\ risen \in SUBSET all
      BY <1>2
    <2> QED
      BY <1>5, <2>1
  <1>7. Sum(risen) = Sum(risen \ alone) + Sum(alone)
    <2>1. risen = (risen \ alone) \cup alone /\ (risen \ alone) \cap alone = {} /\ risen \ alone \in SUBSET all /\ alone \in SUBSET all
      BY <1>2
    <2> QED
      BY <1>5, <2>1
  <1>8. Sum(stove) + Sum(cold) <= Sum(alone)
    <2> DEFINE rest == alone \ (stove \cup cold)
    <2>1. /\ stove \in SUBSET all /\ cold \in SUBSET all /\ rest \in SUBSET all /\ stove \cup cold \in SUBSET all
          /\ alone = (stove \cup cold) \cup rest /\ (stove \cup cold) \cap rest = {} /\ rest \subseteq risen
      BY <1>2
    <2> HIDE DEF rest
    <2>2. Sum(alone) = Sum(stove \cup cold) + Sum(rest)
      BY <1>5, <2>1
    <2>3. Sum(stove \cup cold) = Sum(stove) + Sum(cold)
      BY <1>2, <1>5, <2>1
    <2>4. Sum(rest) \in Nat
      <3>1. IsFiniteSet(rest) /\ \A p \in rest : Gains(s)[p] \in Nat
        BY <1>3, <1>4, <2>1
      <3> QED
        BY <3>1, SumNat DEF Sum
    <2>5. Sum(stove) \in Int /\ Sum(cold) \in Int
      BY <1>4, <2>1
    <2> QED
      BY <2>2, <2>3, <2>4, <2>5
  <1>9. /\ Sum(risen) \in Int /\ Sum(all \ risen) \in Int
        /\ GainOver(s, risen) = Sum(risen) /\ GainOver(s, all \ risen) = Sum(all \ risen) /\ GainOver(s, risen \ alone) = Sum(risen \ alone)
        /\ GainOver(s, alone) = Sum(alone) /\ GainOver(s, stove) = Sum(stove) /\ GainOver(s, cold) = Sum(cold)
    <2>1. /\ risen \in SUBSET all /\ all \ risen \in SUBSET all /\ risen \ alone \in SUBSET all /\ alone \in SUBSET all
          /\ stove \in SUBSET all /\ cold \in SUBSET all
      BY <1>2
    <2> QED
      BY <1>4, <2>1
  <1> DEFINE buffer == BufferBalance(s)
  <1>10. /\ buffer.gain = Sum(risen) /\ buffer.drop = 0 - Sum(all \ risen) /\ buffer.withPump = Sum(risen \ alone)
         /\ buffer.without = Sum(alone) /\ buffer.withStove = Sum(stove) /\ buffer.unexplained = Sum(cold)
    BY <1>1, <1>9
  <1> HIDE DEF buffer
  <1>11. GainsRight(buffer, Sum(all))
    BY <1>6, <1>7, <1>8, <1>9, <1>10 DEF GainsRight
  <1> QED
    BY <1>11 DEF buffer, all, Sum

\* One report closes.
ReportCloses(r) ==
  /\ Sampled(r.samples) /\ DOMAIN r.points = DOMAIN r.samples
  /\ \A t \in DOMAIN r.points : r.points[t].unknown \/ PowerOf(r.samples, t, ToBuffer(r.points[t]))
  /\ GainsRight(r.buffer, r.totals.change)

\* A balance of samples closes.
LEMMA BalanceOfSamples ==
  ASSUME NEW s, Sampled(s), NEW step
  PROVE  \A r \in Balanced(s, step) : ReportCloses(r)
  <1> DEFINE points == [t \in DOMAIN s |-> HeatPoint(s, t)]
             totals == HeatTotals(s, points, step)
             buffer == BufferBalance(s)
             aired == IF step > 1 THEN [x \in DOMAIN Circuits |-> 0] ELSE AiredOut(s, points)
  <1> SUFFICES ASSUME NEW r \in Balanced(s, step) PROVE ReportCloses(r)
    OBVIOUS
  <1>1. r = [samples |-> s, points |-> points, totals |-> totals, step |-> step, buffer |-> buffer, aired |-> aired]
    BY DEF Balanced
  <1>2. DOMAIN points = DOMAIN s /\ \A t \in DOMAIN s : points[t] = HeatPoint(s, t)
    OBVIOUS
  <1>3. \A t \in DOMAIN s : points[t].unknown \/ PowerOf(s, t, ToBuffer(points[t]))
    BY <1>2, PointMeasured
  <1>4. GainsRight(buffer, totals.change)
    <2>1. totals.change = SumOver(Gains(s), Pairs(s))
      <3> HIDE DEF points
      <3> QED
        BY ChangeOfAll
    <2> HIDE DEF totals
    <2> QED
      BY <2>1, SortingCloses
  <1> HIDE DEF points, totals, buffer, aired
  <1>5. r.samples = s /\ r.points = points /\ r.totals = totals /\ r.buffer = buffer
    BY <1>1
  <1> QED
    BY <1>2, <1>3, <1>4, <1>5 DEF ReportCloses

----------------------------------------------------------------------------
\* The stored minutes, as the rows there may be, and the hours, as they are summed up.
MinutesStored ==
  /\ heatClock \in Nat
  /\ \A m \in DOMAIN heatMinutes : m \in Nat /\ m < heatClock /\ heatMinutes[m] \in HeatRows
\* See MinutesStored.
HourKnown(hour) ==
  Reading(hour.content) /\ hour.electric \in Int /\ hour.level \in Int
\* See MinutesStored.
HoursStored ==
  \A h \in DOMAIN heatHours : h \in Nat /\ h <= heatClock /\ HourKnown(heatHours[h])

\* The inductive invariant.
HeatInv == MinutesStored /\ HoursStored /\ \A r \in balance : ReportCloses(r)

\* Sums of the minutes of an hour.
PumpOver(mins) == MapThenSumSet(LAMBDA m : heatMinutes[m].pump, mins)
\* See PumpOver.
ContentOver(mins) == MapThenSumSet(LAMBDA m : Max(heatMinutes[m].content), mins)
\* See PumpOver.
LevelOver(mins) == MapThenSumSet(LAMBDA m : heatMinutes[m].level, mins)

\* They are whole numbers.
LEMMA HourSums ==
  ASSUME MinutesStored, NEW mins \in SUBSET DOMAIN heatMinutes, IsFiniteSet(mins)
  PROVE  /\ PumpOver(mins) \in Int /\ LevelOver(mins) \in Int
         /\ (\A m \in mins : heatMinutes[m].content # {}) => ContentOver(mins) \in Int
  <1>0. \A m \in mins : /\ heatMinutes[m].pump \in Int /\ heatMinutes[m].level \in Int
                        /\ (heatMinutes[m].content = {} \/ \E x \in Int : heatMinutes[m].content = {x})
    BY HeatAssumption, RowsReadable DEF MinutesStored, Reading
  <1>1. PumpOver(mins) \in Int
    <2> DEFINE w == [m \in mins |-> heatMinutes[m].pump]
               Sums(F) == F = [t \in SUBSET mins |-> IF t = {} THEN 0
                                 ELSE heatMinutes[CHOOSE x \in t : TRUE].pump + F[t \ {CHOOSE x \in t : TRUE}]]
    <2>1. ASSUME NEW F PROVE Sums(F) <=> Adds(F, w, mins)
      BY PickedIn DEF Picked, Adds
    <2>2. PumpOver(mins) = (CHOOSE F : Sums(F))[mins]
      BY DEF PumpOver, MapThenSumSet, MapThenFoldSet
    <2> HIDE DEF Sums
    <2>3. (CHOOSE F : Sums(F)) = (CHOOSE F : Adds(F, w, mins))
      BY <2>1
    <2>4. PumpOver(mins) = SumOver(w, mins)
      BY <2>2, <2>3 DEF SumOver
    <2>5. Numbers(w, mins)
      BY <1>0 DEF Numbers
    <2> HIDE DEF w
    <2> QED
      BY <2>4, <2>5, SumInt
  <1>2. LevelOver(mins) \in Int
    <2> DEFINE w == [m \in mins |-> heatMinutes[m].level]
               Sums(F) == F = [t \in SUBSET mins |-> IF t = {} THEN 0
                                 ELSE heatMinutes[CHOOSE x \in t : TRUE].level + F[t \ {CHOOSE x \in t : TRUE}]]
    <2>1. ASSUME NEW F PROVE Sums(F) <=> Adds(F, w, mins)
      BY PickedIn DEF Picked, Adds
    <2>2. LevelOver(mins) = (CHOOSE F : Sums(F))[mins]
      BY DEF LevelOver, MapThenSumSet, MapThenFoldSet
    <2> HIDE DEF Sums
    <2>3. (CHOOSE F : Sums(F)) = (CHOOSE F : Adds(F, w, mins))
      BY <2>1
    <2>4. LevelOver(mins) = SumOver(w, mins)
      BY <2>2, <2>3 DEF SumOver
    <2>5. Numbers(w, mins)
      BY <1>0 DEF Numbers
    <2> HIDE DEF w
    <2> QED
      BY <2>4, <2>5, SumInt
  <1>3. ASSUME \A m \in mins : heatMinutes[m].content # {} PROVE ContentOver(mins) \in Int
    <2> DEFINE w == [m \in mins |-> Max(heatMinutes[m].content)]
               Sums(F) == F = [t \in SUBSET mins |-> IF t = {} THEN 0
                                 ELSE Max(heatMinutes[CHOOSE x \in t : TRUE].content) + F[t \ {CHOOSE x \in t : TRUE}]]
    <2>1. ASSUME NEW F PROVE Sums(F) <=> Adds(F, w, mins)
      BY PickedIn DEF Picked, Adds
    <2>2. ContentOver(mins) = (CHOOSE F : Sums(F))[mins]
      BY DEF ContentOver, MapThenSumSet, MapThenFoldSet
    <2> HIDE DEF Sums
    <2>3. (CHOOSE F : Sums(F)) = (CHOOSE F : Adds(F, w, mins))
      BY <2>1
    <2>4. ContentOver(mins) = SumOver(w, mins)
      BY <2>2, <2>3 DEF SumOver
    <2>5. Numbers(w, mins)
      BY <1>0, <1>3, MaxOfOne DEF Numbers
    <2> HIDE DEF w
    <2> QED
      BY <2>4, <2>5, SumInt
  <1> QED
    BY <1>1, <1>2, <1>3

\* What is stored of an hour is what an hour may be.
LEMMA HourSummedUp ==
  ASSUME MinutesStored, NEW h
  PROVE  HourKnown(HourInput(h))
  <1> DEFINE mins == RowsOf(h)
             measured == {m \in mins : heatMinutes[m].content # {}}
             stoveOn == {m \in mins : heatMinutes[m].level > 0}
             content == IF measured = {} THEN {} ELSE {ContentOver(measured) \div Cardinality(measured)}
             level == IF stoveOn = {} THEN 0 ELSE LevelOver(stoveOn) \div Cardinality(stoveOn)
  <1>1. HourInput(h) = [electric |-> PumpOver(mins), content |-> content, stoveMinutes |-> Cardinality(stoveOn), level |-> level]
    BY DEF HourInput, PumpOver, ContentOver, LevelOver
  <1>2. PICK n \in Nat : n = heatClock
    BY DEF MinutesStored
  <1>3. mins \subseteq DOMAIN heatMinutes /\ mins \subseteq 0..n
    BY <1>2 DEF RowsOf, MinutesStored
  <1>4. /\ mins \in SUBSET DOMAIN heatMinutes /\ IsFiniteSet(mins)
        /\ measured \in SUBSET DOMAIN heatMinutes /\ IsFiniteSet(measured)
        /\ stoveOn \in SUBSET DOMAIN heatMinutes /\ IsFiniteSet(stoveOn)
    <2>1. IsFiniteSet(0..n)
      BY FS_Interval
    <2>2. IsFiniteSet(mins)
      BY <1>3, <2>1, FS_Subset
    <2>3. measured \subseteq mins /\ stoveOn \subseteq mins
      OBVIOUS
    <2> HIDE DEF mins, measured, stoveOn
    <2> QED
      BY <1>3, <2>2, <2>3, FS_Subset
  <1>5. \A m \in measured : heatMinutes[m].content # {}
    OBVIOUS
  <1> HIDE DEF mins, measured, stoveOn
  <1>6. PumpOver(mins) \in Int /\ ContentOver(measured) \in Int /\ LevelOver(stoveOn) \in Int
    BY <1>4, <1>5, HourSums
  <1>7. measured # {} => Cardinality(measured) \in Nat \ {0}
    BY <1>4, FS_EmptySet, FS_CardinalityType
  <1>8. stoveOn # {} => Cardinality(stoveOn) \in Nat \ {0}
    BY <1>4, FS_EmptySet, FS_CardinalityType
  <1>9. Reading(content)
    BY <1>6, <1>7, DivInt DEF Reading
  <1>10. level \in Int
    BY <1>6, <1>8, DivInt
  <1> HIDE DEF content, level
  <1> QED
    BY <1>1, <1>6, <1>9, <1>10 DEF HourKnown

----------------------------------------------------------------------------
\* The samples of a period are samples, of its minutes and of its hours.
LEMMA SamplesOfMinutes ==
  ASSUME MinutesStored, NEW stop
  PROVE  Sampled([m \in {k \in DOMAIN heatMinutes : k < stop} |-> heatMinutes[m]])
  <1> DEFINE s == [m \in {k \in DOMAIN heatMinutes : k < stop} |-> heatMinutes[m]]
  <1>1. PICK n \in Nat : n = heatClock
    BY DEF MinutesStored
  <1>2. DOMAIN s \subseteq 0..n
    BY <1>1 DEF MinutesStored
  <1>3. \A t \in DOMAIN s : s[t] \in HeatRows
    BY DEF MinutesStored
  <1> HIDE DEF s
  <1>4. \A t \in DOMAIN s : Reading(s[t].content) /\ s[t].pump \in Int /\ s[t].level \in Int
    BY <1>3, HeatAssumption, RowsReadable
  <1>5. Sampled(s)
    BY <1>2, <1>4 DEF Sampled
  <1> QED
    BY <1>5 DEF s

\* See SamplesOfMinutes.
LEMMA SamplesOfHours ==
  ASSUME MinutesStored, HoursStored, NEW stop
  PROVE  Sampled([h \in {k \in DOMAIN heatHours : k < stop} |-> SampleOfHour(heatHours[h])])
  <1> DEFINE s == [h \in {k \in DOMAIN heatHours : k < stop} |-> SampleOfHour(heatHours[h])]
  <1>1. PICK n \in Nat : n = heatClock
    BY DEF MinutesStored
  <1>2. DOMAIN s \subseteq 0..n
    BY <1>1 DEF HoursStored
  <1>3. \A t \in DOMAIN s : s[t] = SampleOfHour(heatHours[t]) /\ HourKnown(heatHours[t])
    BY DEF HoursStored
  <1> HIDE DEF s
  <1>4. \A t \in DOMAIN s : Reading(s[t].content) /\ s[t].pump \in Int /\ s[t].level \in Int
    BY <1>3 DEF SampleOfHour, HourKnown
  <1>5. Sampled(s)
    BY <1>2, <1>4 DEF Sampled
  <1> QED
    BY <1>5 DEF s

\* Nothing is known at first.
LEMMA HeatStarts == HeatInit => HeatInv
  BY DEF HeatInit, HeatInv, MinutesStored, HoursStored

\* A minute comes, with a row or without one.
LEMMA HeatMinuteKept ==
  ASSUME HeatInv, (\E row \in HeatRows : HeatRow(row)) \/ HeatRowLost
  PROVE  HeatInv'
  <1>0. heatClock \in Nat /\ heatClock' = heatClock + 1 /\ heatHours' = heatHours /\ balance' = balance
    BY DEF HeatInv, MinutesStored, HeatRow, HeatRowLost
  <1>1. MinutesStored'
    <2>1. CASE HeatRowLost
      BY <1>0, <2>1 DEF HeatRowLost, HeatInv, MinutesStored
    <2>2. ASSUME NEW row \in HeatRows, HeatRow(row) PROVE MinutesStored'
      BY <1>0, <2>2 DEF HeatRow, HeatInv, MinutesStored
    <2> QED
      BY <2>1, <2>2
  <1>2. HoursStored'
    BY <1>0 DEF HeatInv, HoursStored
  <1>3. \A r \in balance' : ReportCloses(r)'
    BY <1>0 DEF HeatInv, ReportCloses
  <1> QED
    BY <1>1, <1>2, <1>3 DEF HeatInv

\* Hours are summed up (refresh_heat_hours).
LEMMA HeatHoursKept ==
  ASSUME HeatInv, NEW h \in 0..HeatMinutes, RefreshHeatHours(h)
  PROVE  HeatInv'
  <1> DEFINE hours == {k \in h..heatClock : k % HourMinutes = 0 /\ RowsOf(k) # {}}
  <1>0. /\ heatClock \in Nat /\ heatClock' = heatClock /\ heatMinutes' = heatMinutes /\ balance' = balance
        /\ heatHours' = [k \in DOMAIN heatHours \cup hours |-> IF k \in hours THEN HourInput(k) ELSE heatHours[k]]
    BY DEF HeatInv, MinutesStored, RefreshHeatHours
  <1>1. MinutesStored'
    BY <1>0 DEF HeatInv, MinutesStored
  <1>2. \A k \in hours : k \in Nat /\ k <= heatClock /\ HourKnown(HourInput(k))
    <2>1. \A k \in hours : k \in Nat /\ k <= heatClock
      BY <1>0
    <2>2. \A k : HourKnown(HourInput(k))
      BY HourSummedUp DEF HeatInv
    <2> QED
      BY <2>1, <2>2
  <1> HIDE DEF hours
  <1>3. \A k \in DOMAIN heatHours' : k \in Nat /\ k <= heatClock /\ HourKnown(heatHours'[k])
    BY <1>0, <1>2 DEF HeatInv, HoursStored
  <1>4. HoursStored'
    BY <1>0, <1>3 DEF HoursStored, HourKnown, Reading
  <1>5. \A r \in balance' : ReportCloses(r)'
    BY <1>0 DEF HeatInv, ReportCloses
  <1> QED
    BY <1>1, <1>4, <1>5 DEF HeatInv

\* The report (heat_balance).
LEMMA HeatReportKept ==
  ASSUME HeatInv, NEW stop, ReportHeat(stop)
  PROVE  HeatInv'
  <1>0. heatClock' = heatClock /\ heatMinutes' = heatMinutes /\ heatHours' = heatHours
    BY DEF ReportHeat
  <1>1. MinutesStored' /\ HoursStored'
    BY <1>0 DEF HeatInv, MinutesStored, HoursStored
  <1>2. \A r \in balance' : ReportCloses(r)
    <2> DEFINE minutes == [m \in {k \in DOMAIN heatMinutes : k < stop} |-> heatMinutes[m]]
               hours == [h \in {k \in DOMAIN heatHours : k < stop} |-> SampleOfHour(heatHours[h])]
    <2>1. balance' = IF stop <= MinuteLimit THEN Balanced(minutes, 1) ELSE Balanced(hours, HourMinutes)
      BY DEF ReportHeat
    <2>2. Sampled(minutes) /\ Sampled(hours)
      BY SamplesOfMinutes, SamplesOfHours DEF HeatInv
    <2> HIDE DEF minutes, hours
    <2>3. (\A r \in Balanced(minutes, 1) : ReportCloses(r)) /\ \A r \in Balanced(hours, HourMinutes) : ReportCloses(r)
      BY <2>2, BalanceOfSamples
    <2> QED
      BY <2>1, <2>3
  <1>3. \A r \in balance' : ReportCloses(r)'
    BY <1>2 DEF ReportCloses
  <1> QED
    BY <1>1, <1>3 DEF HeatInv

\* The invariant holds in every state.
LEMMA HeatInvariance == HeatSpec => []HeatInv
  <1>1. HeatInv /\ [HeatNext]_heatVars => HeatInv'
    <2> SUFFICES ASSUME HeatInv, [HeatNext]_heatVars PROVE HeatInv'
      OBVIOUS
    <2>1. CASE UNCHANGED heatVars
      <3>1. UNCHANGED <<heatMinutes, heatClock, heatHours, balance>>
        BY <2>1 DEF heatVars
      <3>2. MinutesStored' /\ HoursStored'
        BY <3>1 DEF HeatInv, MinutesStored, HoursStored
      <3>3. \A r \in balance' : ReportCloses(r)'
        BY <3>1 DEF HeatInv, ReportCloses
      <3> QED
        BY <3>2, <3>3 DEF HeatInv
    <2>2. CASE HeatNext
      BY <2>2, HeatMinuteKept, HeatHoursKept, HeatReportKept DEF HeatNext
    <2> QED
      BY <2>1, <2>2
  <1> QED
    BY <1>1, HeatStarts, PTL DEF HeatSpec

\* No draw is told that the readings around do not show, and sorting the buffer's gains loses none, for any
\* history, any rows and any limits of the readings' distance (buffer_power_kw, heat_series, _buffer_balance).
THEOREM HeatBalanceCloses == HeatSpec => []BalanceCloses
  <1>1. HeatInv => BalanceCloses
    <2> SUFFICES ASSUME HeatInv PROVE BalanceCloses
      OBVIOUS
    <2>1. DrawIsMeasured
      <3> SUFFICES ASSUME NEW r \in balance, NEW t \in DOMAIN r.points, ~r.points[t].unknown
                   PROVE  \E a \in MeasuredAt(r.samples), b \in MeasuredAt(r.samples) :
                            /\ a <= t /\ t <= b /\ a < b /\ b - a <= GapLimit + BufferWindow
                            /\ (b - a) * (r.points[t].pump + r.points[t].water - r.points[t].loss - r.points[t].draw - r.points[t].residual)
                                  = Scale * (Max(r.samples[b].content) - Max(r.samples[a].content))
        BY DEF DrawIsMeasured
      <3>1. PowerOf(r.samples, t, ToBuffer(r.points[t]))
        BY DEF HeatInv, ReportCloses
      <3> DEFINE c == ToBuffer(r.points[t])
      <3>2. c = r.points[t].pump + r.points[t].water - r.points[t].loss - r.points[t].draw - r.points[t].residual
        BY DEF ToBuffer
      <3> HIDE DEF c
      <3>3. PICK a \in MeasuredAt(r.samples), b \in MeasuredAt(r.samples) :
              /\ a <= t /\ t <= b /\ a < b /\ b - a <= GapLimit + BufferWindow
              /\ (b - a) * c = Scale * (Max(r.samples[b].content) - Max(r.samples[a].content))
        BY <3>1 DEF PowerOf, c
      <3> QED
        BY <3>2, <3>3, Zenon
    <2>2. GainsClose
      BY DEF GainsClose, HeatInv, ReportCloses, GainsRight
    <2> QED
      BY <2>1, <2>2 DEF BalanceCloses
  <1> QED
    BY <1>1, HeatInvariance, PTL

----------------------------------------------------------------------------
(* The import *)

\* The file that is read: each row has its section and what a row of an export may have.
FileRow == [section : Nat, entity : Entities \cup {Unmapped}, at : 0..LastMinute0, value : ExportValues \cup {NotANumber}]
\* The inductive invariant.
ImportInv == export \in Seq(FileRow) /\ section \in Nat /\ LargerCounts

\* A point as a row gives it.
Point == [at : Nat, value : Int]
\* Finitely many points of a series have one that is sorted last.
LEMMA LastPoint ==
  ASSUME NEW P, IsFiniteSet(P), P \subseteq Point, P # {}
  PROVE  \E p \in P : \A q \in P : p = q \/ Sorted(q, p)
  <1> DEFINE Tops(T) == {p \in T : \A q \in T : p = q \/ Sorted(q, p)}
             Q == {T \in SUBSET P : T # {} => Tops(T) # {}}
  <1>0. \A p, q \in P : /\ p.at \in Nat /\ p.value \in Int /\ q.at \in Nat /\ q.value \in Int
                        /\ p = q \/ Sorted(p, q) \/ Sorted(q, p)
    BY DEF Point, Sorted
  <1>1. {} \in Q
    OBVIOUS
  <1>2. ASSUME NEW T \in SUBSET P, NEW x \in P, T \in Q, x \notin T PROVE T \cup {x} \in Q
    <2>1. CASE T = {}
      <3>1. x \in Tops(T \cup {x})
        BY <2>1
      <3> QED
        BY <3>1
    <2>2. CASE T # {}
      <3>1. PICK p \in T : \A q \in T : p = q \/ Sorted(q, p)
        BY <1>2, <2>2
      <3>2. CASE Sorted(p, x)
        <4>1. \A q \in T : Sorted(q, x)
          BY <1>0, <3>1, <3>2 DEF Sorted
        <4>2. x \in Tops(T \cup {x})
          BY <4>1
        <4> QED
          BY <4>2
      <3>3. CASE ~Sorted(p, x)
        <4>1. p = x \/ Sorted(x, p)
          BY <1>0, <3>3
        <4>2. p \in Tops(T \cup {x})
          BY <3>1, <4>1
        <4> QED
          BY <4>2
      <3> QED
        BY <3>2, <3>3
    <2> QED
      BY <2>1, <2>2
  <1>3. P \in Q
    <2> HIDE DEF Q
    <2> QED
      BY <1>1, <1>2, SetsByInduction
  <1> QED
    BY <1>3

\* The rows of the file that have a number.
LEMMA RowsRead ==
  ASSUME export \in Seq(FileRow)
  PROVE  /\ Usable \subseteq 1..Len(export) /\ Usable \subseteq Nat /\ Len(export) \in Nat /\ IsFiniteSet(Usable)
         /\ \A i \in Usable : /\ export[i] \in FileRow /\ export[i].at \in Nat /\ export[i].value \in Int
                              /\ export[i].entity \in Entities
  <1>1. DOMAIN export = 1..Len(export) /\ Len(export) \in Nat
    OBVIOUS
  <1>2. Usable \subseteq 1..Len(export) /\ Usable \subseteq Nat
    BY <1>1 DEF Usable
  <1>3. IsFiniteSet(Usable)
    <2>1. IsFiniteSet(1..Len(export))
      BY <1>1, FS_Interval
    <2> QED
      BY <1>2, <2>1, FS_Subset
  <1>4. ASSUME NEW i \in Usable
        PROVE  /\ export[i] \in FileRow /\ export[i].at \in Nat /\ export[i].value \in Int
               /\ export[i].entity \in Entities
    <2>1. export[i] \in FileRow
      BY <1>1, <1>2
    <2>2. export[i].at \in 0..LastMinute0
      BY <2>1 DEF FileRow
    <2>3. export[i].entity \in Entities \cup {Unmapped} /\ export[i].entity # Unmapped
      BY <2>1 DEF FileRow, Usable
    <2>4. export[i].value \in ExportValues \cup {NotANumber} /\ export[i].value # NotANumber
      BY <2>1 DEF FileRow, Usable
    <2>5. export[i].at \in Nat /\ export[i].value \in Int
      <3>1. LastMinute0 \in Nat /\ ExportValues \subseteq Int
        BY ImportAssumption
      <3>2. export[i].value \in ExportValues
        BY <2>4
      <3>3. export[i].at \in Nat
        BY <2>2, <3>1
      <3>4. export[i].value \in Int
        BY <3>1, <3>2
      <3> QED
        BY <3>3, <3>4
    <2> QED
      BY <2>1, <2>3, <2>5
  <1> QED
    BY <1>1, <1>2, <1>3, <1>4

\* A series has finitely many points.
LEMMA PointsKnown ==
  ASSUME export \in Seq(FileRow), NEW e
  PROVE  PointsOf(e) \subseteq Point /\ IsFiniteSet(PointsOf(e))
  <1> DEFINE S == {j \in Usable : SeriesAt(j) = e}
             f == [i \in S |-> [at |-> export[i].at, value |-> export[i].value]]
  <1>1. PointsOf(e) \subseteq Point
    BY RowsRead DEF PointsOf, Point
  <1>2. IsFiniteSet(S)
    BY RowsRead, FS_Subset
  <1>3. f \in Surjection(S, PointsOf(e))
    BY DEF PointsOf, Surjection
  <1> HIDE DEF S, f
  <1> QED
    BY <1>1, <1>2, <1>3, FS_Surjection

\* The minutes a series writes.
Mine(e) == UNION {HoldsFor(e, p) : p \in PointsOf(e)}
\* Each of them gets a number.
LEMMA ValueKnown ==
  ASSUME export \in Seq(FileRow), NEW e, NEW t
  PROVE  /\ t \in Mine(e) <=> RowsCovering(e, t) # {}
         /\ t \in Mine(e) => ValueOf(e, t) \in Int
  <1>1. t \in Mine(e) <=> RowsCovering(e, t) # {}
    BY DEF Mine, RowsCovering
  <1>2. ASSUME t \in Mine(e) PROVE ValueOf(e, t) \in Int
    <2> DEFINE P == RowsCovering(e, t)
    <2>1. P \subseteq Point /\ IsFiniteSet(P) /\ P # {}
      BY <1>1, <1>2, PointsKnown, FS_Subset DEF RowsCovering
    <2>2. \E p \in P : \A q \in P : p = q \/ Sorted(q, p)
      <3> HIDE DEF P
      <3> QED
        BY <2>1, LastPoint
    <2> DEFINE top == CHOOSE p \in P : \A q \in P : p = q \/ Sorted(q, p)
    <2>3. top \in P
      <3> HIDE DEF P
      <3> QED
        BY <2>2
    <2>4. ValueOf(e, t) = top.value
      BY DEF ValueOf
    <2> HIDE DEF top, P
    <2> QED
      BY <2>1, <2>3, <2>4 DEF Point
  <1> QED
    BY <1>1, <1>2

\* Each row with a number belongs to a series that has a first row.
LEMMA FirstRowOf ==
  ASSUME export \in Seq(FileRow), NEW i \in Usable
  PROVE  \E j \in FirstRows : SeriesAt(j) = SeriesAt(i)
  <1> DEFINE S == {j \in Usable : SeriesAt(j) = SeriesAt(i)}
  <1>1. S \in SUBSET Nat /\ S # {}
    BY RowsRead
  <1>2. PICK j \in S : \A k \in S : j <= k
    <2> HIDE DEF S
    <2> QED
      BY <1>1, FirstOne
  <1>3. j \in FirstRows
    BY <1>2 DEF FirstRows
  <1> QED
    BY <1>2, <1>3

\* Of the fold that writes the series of some rows: its values part by part.
Writes(F, S) ==
  F = [s \in SUBSET S |-> IF s = {} THEN NoMinutes ELSE WriteSeries(SeriesAt(Max(s)), F[s \ {Max(s)}])]

\* Such a function exists.
LEMMA WritesExists ==
  ASSUME NEW S \in SUBSET Nat, IsFiniteSet(S), NEW top \in Nat, \A i \in S : i <= top
  PROVE  \E F : Writes(F, S)
  <1> DEFINE Small(n) == {s \in SUBSET S : Cardinality(s) <= n}
             WritesTo(F, n) ==
               /\ F = [s \in Small(n) |-> F[s]]
               /\ \A s \in Small(n) : F[s] = IF s = {} THEN NoMinutes ELSE WriteSeries(SeriesAt(Max(s)), F[s \ {Max(s)}])
             P == {n \in Nat : \E F : WritesTo(F, n)}
  <1>0. \A s \in SUBSET S : IsFiniteSet(s) /\ Cardinality(s) \in Nat
    BY FS_Subset, FS_CardinalityType
  <1>1. 0 \in P
    <2>1. \A s \in Small(0) : s = {}
      BY <1>0, FS_EmptySet
    <2>2. WritesTo([s \in Small(0) |-> NoMinutes], 0)
      BY <2>1
    <2> QED
      BY <2>2
  <1>2. ASSUME NEW n \in Nat, n \in P PROVE n + 1 \in P
    <2>1. PICK F : WritesTo(F, n)
      BY <1>2
    <2> DEFINE G == [s \in Small(n + 1) |-> IF s = {} THEN NoMinutes ELSE WriteSeries(SeriesAt(Max(s)), F[s \ {Max(s)}])]
    <2>2. ASSUME NEW s \in Small(n) PROVE s \in Small(n + 1) /\ G[s] = F[s]
      <3>1. s \in Small(n + 1)
        BY <1>0
      <3>2. F[s] = IF s = {} THEN NoMinutes ELSE WriteSeries(SeriesAt(Max(s)), F[s \ {Max(s)}])
        BY <2>1
      <3> QED
        BY <3>1, <3>2
    <2>3. ASSUME NEW s \in Small(n + 1), s # {} PROVE s \ {Max(s)} \in Small(n)
      <3>1. Max(s) \in s
        BY <2>3, MaxIs
      <3> DEFINE r == s \ {Max(s)}
      <3>2. Cardinality(r) = Cardinality(s) - 1
        BY <1>0, <3>1, FS_RemoveElement
      <3>3. r \in SUBSET S
        OBVIOUS
      <3>4. Cardinality(s) \in Nat /\ Cardinality(s) <= n + 1
        BY <1>0
      <3> HIDE DEF r
      <3>5. Cardinality(r) <= n
        BY <3>2, <3>4
      <3>6. r \in Small(n)
        BY <3>3, <3>5
      <3> QED
        BY <3>6 DEF r
    <2>4. ASSUME NEW s \in Small(n + 1)
          PROVE  G[s] = IF s = {} THEN NoMinutes ELSE WriteSeries(SeriesAt(Max(s)), G[s \ {Max(s)}])
      <3>1. CASE s = {}
        BY <3>1
      <3>2. CASE s # {}
        BY <2>2, <2>3, <3>2
      <3> QED
        BY <3>1, <3>2
    <2>5. G = [s \in Small(n + 1) |-> G[s]]
      OBVIOUS
    <2> HIDE DEF G
    <2>6. WritesTo(G, n + 1)
      BY <2>4, <2>5
    <2> HIDE DEF WritesTo
    <2> QED
      BY <2>6
  <1>3. \A n \in Nat : n \in P
    <2> HIDE DEF P
    <2> QED
      BY <1>1, <1>2, NatsByInduction
  <1>4. Cardinality(S) \in Nat /\ \A s \in SUBSET S : Cardinality(s) <= Cardinality(S)
    BY FS_Subset, FS_CardinalityType
  <1>5. Small(Cardinality(S)) = SUBSET S
    BY <1>4
  <1>6. PICK F : WritesTo(F, Cardinality(S))
    BY <1>3, <1>4
  <1>7. F = [s \in SUBSET S |-> IF s = {} THEN NoMinutes ELSE WriteSeries(SeriesAt(Max(s)), F[s \ {Max(s)}])]
    <2>1. F = [s \in SUBSET S |-> F[s]]
      BY <1>5, <1>6
    <2>2. \A s \in SUBSET S : F[s] = IF s = {} THEN NoMinutes ELSE WriteSeries(SeriesAt(Max(s)), F[s \ {Max(s)}])
      BY <1>5, <1>6
    <2> QED
      BY <2>1, <2>2
  <1> QED
    BY <1>7 DEF Writes

\* Minutes hold whole numbers.
Whole(minutes) == \A t \in DOMAIN minutes : minutes[t] \in Int
\* Minutes hold at least what a series has.
AtLeast(minutes, e) == \A t \in Mine(e) : t \in DOMAIN minutes /\ ValueOf(e, t) <= minutes[t]

\* Where the larger value counts, a series that is written takes nothing down.
LEMMA WriteRaises ==
  ASSUME export \in Seq(FileRow), NEW e, KeyOf(e) \in CombineMax, NEW minutes, Whole(minutes)
  PROVE  /\ Whole(WriteSeries(e, minutes)) /\ AtLeast(WriteSeries(e, minutes), e)
         /\ \A t \in DOMAIN minutes : t \in DOMAIN WriteSeries(e, minutes) /\ minutes[t] <= WriteSeries(e, minutes)[t]
  <1> DEFINE after == WriteSeries(e, minutes)
  <1>1. after = [t \in Mine(e) \cup DOMAIN minutes |->
                   IF t \notin Mine(e) THEN minutes[t]
                   ELSE IF KeyOf(e) \in CombineMax /\ t \in DOMAIN minutes THEN Max({minutes[t], ValueOf(e, t)})
                   ELSE ValueOf(e, t)]
    BY DEF WriteSeries, Mine
  <1> HIDE DEF after
  <1>2. \A t \in DOMAIN minutes : minutes[t] \in Int
    BY DEF Whole
  <1>3. \A t \in Mine(e) : ValueOf(e, t) \in Int
    BY ValueKnown
  <1>4. ASSUME NEW t \in DOMAIN minutes, t \in Mine(e)
        PROVE  after[t] \in Int /\ after[t] >= minutes[t] /\ after[t] >= ValueOf(e, t)
    <2>1. after[t] = Max({minutes[t], ValueOf(e, t)})
      BY <1>1, <1>4
    <2> QED
      BY <1>2, <1>3, <1>4, <2>1, MaxBoth
  <1>5. ASSUME NEW t \in DOMAIN minutes, t \notin Mine(e) PROVE after[t] = minutes[t]
    BY <1>1, <1>5
  <1>6. ASSUME NEW t \in Mine(e), t \notin DOMAIN minutes PROVE after[t] = ValueOf(e, t)
    BY <1>1, <1>6
  <1>7. DOMAIN after = Mine(e) \cup DOMAIN minutes
    BY <1>1
  <1>8. Whole(after)
    BY <1>2, <1>3, <1>4, <1>5, <1>6, <1>7 DEF Whole
  <1>9. AtLeast(after, e)
    BY <1>3, <1>4, <1>6, <1>7 DEF AtLeast
  <1>10. \A t \in DOMAIN minutes : t \in DOMAIN after /\ minutes[t] <= after[t]
    BY <1>2, <1>4, <1>5, <1>7
  <1> QED
    BY <1>8, <1>9, <1>10 DEF after

\* What is written for a quantity of which the larger value counts.
LEMMA WrittenLargest ==
  ASSUME export \in Seq(FileRow), NEW key \in CombineMax
  PROVE  \A i \in Usable : KeyOf(SeriesAt(i)) = key => AtLeast(MinutesWritten(key), SeriesAt(i))
  <1> DEFINE S == {i \in FirstRows : KeyOf(SeriesAt(i)) = key}
             Sums(F) == F = [s \in SUBSET S |-> IF s = {} THEN NoMinutes ELSE WriteSeries(SeriesAt(Max(s)), F[s \ {Max(s)}])]
  <1>1. ASSUME NEW F PROVE Sums(F) <=> Writes(F, S)
    BY DEF Writes
  <1>2. MinutesWritten(key) = (CHOOSE F : Sums(F))[S]
    BY DEF MinutesWritten, MapThenFoldSet
  <1>3. S \in SUBSET Nat /\ IsFiniteSet(S) /\ \A i \in S : i \in Usable /\ i <= Len(export)
    <2>1. S \subseteq Usable
      BY DEF FirstRows
    <2>2. S \in SUBSET Nat /\ IsFiniteSet(S)
      BY <2>1, RowsRead, FS_Subset
    <2>3. \A i \in Usable : i <= Len(export)
      BY RowsRead
    <2> QED
      BY <2>1, <2>2, <2>3
  <1>4. \A i \in S : KeyOf(SeriesAt(i)) = key
    OBVIOUS
  <1>5. \A i \in Usable : KeyOf(SeriesAt(i)) = key => \E j \in S : SeriesAt(j) = SeriesAt(i)
    BY FirstRowOf
  <1> HIDE DEF Sums
  <1>6. (CHOOSE F : Sums(F)) = (CHOOSE F : Writes(F, S))
    BY <1>1
  <1> DEFINE F == CHOOSE H : Writes(H, S)
  <1>7. MinutesWritten(key) = F[S]
    BY <1>2, <1>6
  <1> HIDE DEF S
  <1>8. Len(export) \in Nat
    BY RowsRead
  <1>9. \E H : Writes(H, S)
    BY <1>3, <1>8, WritesExists
  <1>10. Writes(F, S)
    BY <1>9
  <1> HIDE DEF F
  <1>11. \A s \in SUBSET S : F[s] = IF s = {} THEN NoMinutes ELSE WriteSeries(SeriesAt(Max(s)), F[s \ {Max(s)}])
    BY <1>10 DEF Writes
  <1> DEFINE P == {s \in SUBSET S : Whole(F[s]) /\ \A i \in s : AtLeast(F[s], SeriesAt(i))}
  <1>12. {} \in P
    <2>1. F[{}] = NoMinutes
      BY <1>11
    <2>2. Whole(NoMinutes)
      BY DEF Whole, NoMinutes
    <2> QED
      BY <2>1, <2>2
  <1>13. ASSUME NEW s \in SUBSET S, s # {}, \A x \in s : s \ {x} \in P PROVE s \in P
    <2> DEFINE x == Max(s)
               e == SeriesAt(x)
               r == s \ {x}
    <2>1. x \in s
      BY <1>3, <1>8, <1>13, MaxIs
    <2>2. r \in P
      BY <1>13, <2>1
    <2>3. F[s] = WriteSeries(e, F[r])
      BY <1>11, <1>13
    <2>4. KeyOf(e) \in CombineMax
      BY <1>4, <2>1
    <2>5. Whole(F[r]) /\ \A i \in r : AtLeast(F[r], SeriesAt(i))
      BY <2>2
    <2> HIDE DEF e
    <2>6. /\ Whole(F[s]) /\ AtLeast(F[s], e)
          /\ \A t \in DOMAIN F[r] : t \in DOMAIN F[s] /\ F[r][t] <= F[s][t]
      BY <2>3, <2>4, <2>5, WriteRaises
    <2>7. ASSUME NEW i \in r PROVE AtLeast(F[s], SeriesAt(i))
      <3> SUFFICES ASSUME NEW t \in Mine(SeriesAt(i)) PROVE t \in DOMAIN F[s] /\ ValueOf(SeriesAt(i), t) <= F[s][t]
        BY DEF AtLeast
      <3>1. t \in DOMAIN F[r] /\ ValueOf(SeriesAt(i), t) <= F[r][t]
        BY <2>5, <2>7 DEF AtLeast
      <3>2. ValueOf(SeriesAt(i), t) \in Int /\ F[r][t] \in Int /\ t \in DOMAIN F[s] /\ F[s][t] \in Int
        BY <2>5, <2>6, <3>1, ValueKnown DEF Whole
      <3> QED
        BY <2>6, <3>1, <3>2
    <2>8. \A i \in s : AtLeast(F[s], SeriesAt(i))
      BY <2>6, <2>7 DEF e
    <2> QED
      BY <2>6, <2>8
  <1>14. \A s \in SUBSET S : s \in P
    <2> HIDE DEF P
    <2> QED
      BY <1>3, <1>12, <1>13, PartsByAny
  <1>15. \A i \in S : AtLeast(F[S], SeriesAt(i))
    <2>1. S \in P
      BY <1>14
    <2> QED
      BY <2>1
  <1> QED
    BY <1>5, <1>7, <1>15

\* As long as the file is the same, so is what its series have.
LEMMA SameFile ==
  ASSUME export' = export
  PROVE  /\ Usable' = Usable
         /\ \A i : SeriesAt(i)' = SeriesAt(i)
         /\ \A e, t : RowsCovering(e, t)' = RowsCovering(e, t) /\ ValueOf(e, t)' = ValueOf(e, t)
  <1>1. Usable' = Usable
    BY DEF Usable
  <1>2. \A i : SeriesAt(i)' = SeriesAt(i)
    BY DEF SeriesAt
  <1>3. \A e : PointsOf(e)' = PointsOf(e)
    BY <1>1, <1>2 DEF PointsOf
  <1>4. \A e, p : NextOf(e, p)' = NextOf(e, p)
    BY <1>3 DEF NextOf
  <1>5. \A e, p : FollowedBy(e, p)' = FollowedBy(e, p)
    BY <1>4 DEF FollowedBy
  <1>6. \A e : Distances(e)' = Distances(e)
    BY <1>3, <1>4, <1>5 DEF Distances
  <1>7. \A e : OneStep(e)' = OneStep(e)
    BY <1>6 DEF OneStep
  <1>8. \A e, p : FillSpan(e, p)' = FillSpan(e, p)
    BY <1>7 DEF FillSpan
  <1>9. \A e, p : HoldsFor(e, p)' = HoldsFor(e, p)
    BY <1>4, <1>5, <1>7, <1>8 DEF HoldsFor
  <1>10. \A e, t : RowsCovering(e, t)' = RowsCovering(e, t)
    BY <1>3, <1>9 DEF RowsCovering
  <1>11. \A e, t : ValueOf(e, t)' = ValueOf(e, t)
    BY <1>10 DEF ValueOf
  <1> QED
    BY <1>1, <1>2, <1>10, <1>11

\* The file is known and what it makes of itself is right in every reachable state.
LEMMA ImportInvariance == ASSUME ExportKind = "statistics" PROVE ImportSpec => []ImportInv
  <1>1. ImportInit => ImportInv
    BY DEF ImportInit, ImportInv, LargerCounts
  <1>2. ImportInv /\ [ImportNext]_importVars => ImportInv'
    <2> SUFFICES ASSUME ImportInv, [ImportNext]_importVars PROVE ImportInv'
      OBVIOUS
    <2> USE DEF ImportInv
    <2>1. ASSUME NEW row \in ExportRow, ReadRow(row) PROVE ImportInv'
      <3>1. [section |-> section, entity |-> row.entity, at |-> row.at, value |-> row.value] \in FileRow
        BY DEF FileRow, ExportRow
      <3> QED
        BY <2>1, <3>1 DEF ReadRow, LargerCounts
    <2>2. CASE NextSection
      BY <2>2 DEF NextSection, LargerCounts
    <2>3. CASE Parse
      <3>1. export' = export /\ section' = section /\ minutesOf' = [k \in Keys |-> MinutesWritten(k)]
        BY <2>3 DEF Parse
      <3>2. ASSUME NEW i \in Usable, NEW t, KeyOf(SeriesAt(i)) = "pv", RowsCovering(SeriesAt(i), t) # {}
            PROVE  ValueOf(SeriesAt(i), t) <= minutesOf'["pv"][t]
        <4>1. "pv" \in CombineMax
          BY DEF CombineMax
        <4>2. "pv" \in Keys
          BY <3>2, RowsRead DEF Keys, KeyOf, SeriesAt
        <4>3. AtLeast(MinutesWritten("pv"), SeriesAt(i))
          BY <3>2, <4>1, WrittenLargest
        <4>4. t \in Mine(SeriesAt(i))
          BY <3>2, ValueKnown
        <4> QED
          BY <3>1, <4>2, <4>3, <4>4 DEF AtLeast
      <3>3. LargerCounts'
        <4> SUFFICES ASSUME NEW t \in DOMAIN minutesOf'["pv"], NEW e \in {SeriesAt(i)' : i \in Usable'},
                            KeyOf(e) = "pv", RowsCovering(e, t)' # {}
                     PROVE  ValueOf(e, t)' <= minutesOf'["pv"][t]
          BY DEF LargerCounts
        <4>1. PICK i \in Usable : e = SeriesAt(i)
          BY <3>1, SameFile
        <4>2. RowsCovering(e, t) # {} /\ ValueOf(e, t)' = ValueOf(e, t)
          BY <3>1, SameFile
        <4> QED
          BY <3>2, <4>1, <4>2
      <3> QED
        BY <3>1, <3>3
    <2>4. CASE NoPrices
      BY <2>4 DEF NoPrices, LargerCounts
    <2>5. ASSUME NEW price \in ExportValues, ApplyPrices(price) PROVE ImportInv'
      BY <2>5 DEF ApplyPrices, LargerCounts
    <2>6. CASE UNCHANGED importVars
      <3>1. export' = export /\ section' = section /\ minutesOf' = minutesOf /\ importStep' = importStep
        BY <2>6 DEF importVars
      <3> QED
        BY <3>1, SameFile DEF LargerCounts
    <2> QED
      BY <2>1, <2>2, <2>3, <2>4, <2>5, <2>6 DEF ImportNext
  <1> QED
    BY <1>1, <1>2, PTL DEF ImportSpec

\* Of several series of one quantity the larger value counts in every minute, whatever the order of
\* the rows, for any number of sections, entities and rows (_parse_statistics, COMBINE_MAX).
THEOREM LargerValueCounts == ExportKind = "statistics" => (ImportSpec => []LargerCounts)
  <1>1. ImportInv => LargerCounts
    BY DEF ImportInv
  <1> SUFFICES ASSUME ExportKind = "statistics" PROVE ImportSpec => []LargerCounts
    OBVIOUS
  <1>2. ImportSpec => []ImportInv
    BY ImportInvariance
  <1> QED
    BY <1>1, <1>2, PTL

=============================================================================
