-------------------------- MODULE AutomaticProofs --------------------------
(***************************************************************************)
(* The two automatics that must know what they have sent: the one of a     *)
(* room, whose way back has to lead to what a person set, and the one of   *)
(* the battery.  What holds of the first, for every choice of temperatures *)
(* and periods, holds as long as no two ticks overlap, no command is       *)
(* carried out whose caller hears of a failure, no decision is taken on a  *)
(* setpoint that is no longer true and no restart comes while a shifted    *)
(* room is being set anew; of the second, as long as no two calls to the   *)
(* cloud overlap and none is carried out whose caller hears of a failure.  *)
(***************************************************************************)
EXTENDS RoomShift, BatteryControl, TLAPS

AtRest(t) == roomPc[t] \in {"idle", "asked"}
Shifted(c) == c # NoCard /\ c.offset # 0

Plans == [do : {"keep", "set", "stand down", "forget"}, to : Values \cup {NoValue},
          base : HandValues \cup {NoValue}, offset : Offsets \cup {0}]

\* A card tells where the room stands: on a value of a person if it shifts nothing,
\* and else there or on what was written.
GoodCard(c) ==
  IF Shifted(c) THEN c.written = c.base + c.offset /\ plant \in HandValues \cup {c.written}
                ELSE plant \in HandValues

\* What a tick has decided is still true while it is carried out.
GoodPlan(t) ==
  /\ plan[t].do = "stand down" =>
       Shifted(before[t]) /\ plant \in HandValues /\ before[t].age > Grace + seenAge
  /\ plan[t].do = "forget" => plant \in HandValues
  /\ plan[t].do = "set" =>
       /\ plan[t].base \in HandValues /\ plan[t].to = plan[t].base + plan[t].offset
       /\ plan[t].offset = 0 => Shifted(before[t])

\* What memory and database hold in each phase of a tick.
Phase(t) ==
  /\ plan[t].do # "keep" /\ GoodCard(before[t]) /\ GoodPlan(t)
  /\ roomPc[t] = "decided" => card = before[t] /\ row = before[t]
  /\ roomPc[t] = "saving"  => card = NewCard(t) /\ row = before[t]
  /\ roomPc[t] = "sent"    => plan[t].do = "set" /\ card = NewCard(t) /\ row = NewCard(t)
  /\ roomPc[t] = "undoing" => plan[t].do = "set" /\ card = before[t] /\ row = NewCard(t)

RoomTyped == RoomTypeOK /\ plan \in [RoomTickers -> Plans]
OneTick == \A t, u \in RoomTickers : t # u => AtRest(t) \/ AtRest(u)
PhasesRight == \A t \in RoomTickers : ~AtRest(t) => Phase(t)
RestRight == (\A t \in RoomTickers : AtRest(t)) => card = row /\ GoodCard(card)

RoomInv == RoomTyped /\ OneTick /\ PhasesRight /\ RestRight

\* After a stand-down the row in the database keeps the automatic off, or shows
\* it again what it stood down for.
Off(c) ==
  /\ c # NoCard
  /\ c.pause >= quiet \/ (c.offset # 0 /\ plant \in HandValues /\ c.age > Grace + seenAge)
QuietKept ==
  quiet > 0 =>
    /\ \A t \in RoomTickers : ~AtRest(t) => plan[t].do = "stand down"
    /\ Off(row)

LeavesInv == RoomInv /\ QuietKept

\* Nobody else has moved the room: it stands on what a person set last, or was shifted
\* from there.
BaseRight(c) == Shifted(c) => c.base = hand \/ (plant = hand /\ c.age > Grace + Stale)
HandStands ==
  /\ plant \in HandValues => plant = hand
  /\ \A t \in RoomTickers : ~AtRest(t) =>
       BaseRight(before[t]) /\ (plan[t].do = "set" => plan[t].base = hand)
  /\ (\A t \in RoomTickers : AtRest(t)) => BaseRight(card)

WayInv == RoomInv /\ HandStands
----------------------------------------------------------------------------
(* Types.                                                                     *)

\* What the assumption says of a card that is good: a value of a person is none of
\* the automatic.
LEMMA CardFacts ==
  /\ Offsets \subseteq Int /\ HandValues \subseteq Nat /\ HandValues \subseteq Values /\ 0 \notin Offsets
  /\ Grace \in Nat /\ Spacing \in Nat /\ Pause \in Nat /\ Stale \in Nat /\ MaxRestarts \in Nat
  /\ Forever \in Nat /\ Forever > Grace + Stale /\ 0 \in 0..Forever
  /\ NoCard \notin Cards /\ NoValue \notin HandValues
  /\ \A h, g \in HandValues, o \in Offsets : g # h + o
  /\ \A h \in HandValues, o \in Offsets \cup {0} : h + o \in Values
<1>1. /\ Offsets \subseteq Int /\ HandValues \subseteq Nat /\ HandValues \subseteq Values /\ 0 \notin Offsets
      /\ Grace \in Nat /\ Spacing \in Nat /\ Pause \in Nat /\ Stale \in Nat /\ MaxRestarts \in Nat
      /\ \A h, g \in HandValues, o \in Offsets : g # h + o
  <2>1. Offsets \subseteq Int /\ HandValues \subseteq Nat /\ 0 \notin Offsets
    BY RoomAssumption DEF RoomAssumption
  <2>2. Grace \in Nat /\ Spacing \in Nat /\ Pause \in Nat /\ Stale \in Nat /\ MaxRestarts \in Nat
    BY RoomAssumption DEF RoomAssumption
  <2>3. \A h, g \in HandValues, o \in Offsets : g # h + o
    BY RoomAssumption DEF RoomAssumption
  <2>4. HandValues \subseteq Values
    BY DEF Values
  <2> QED BY <2>1, <2>2, <2>3, <2>4
<1>2. Forever \in Nat /\ Forever > Grace + Stale /\ 0 \in 0..Forever
  BY <1>1 DEF Forever
<1>3. NoValue \notin HandValues
  BY <1>1 DEF NoValue
<1>4. NoCard \notin Cards
  BY <1>3 DEF NoCard, Cards
<1>5. ASSUME NEW h \in HandValues, NEW o \in Offsets \cup {0} PROVE h + o \in Values
  <2>1. CASE o = 0  BY <2>1, <1>1
  <2>2. CASE o \in Offsets  BY <2>2 DEF Values
  <2> QED BY <2>1, <2>2
<1> QED BY <1>1, <1>2, <1>3, <1>4, <1>5

\* The fields of a card, and the card a plan leads to.
LEMMA CardFields ==
  ASSUME NEW c \in Cards
  PROVE  /\ c.base \in HandValues /\ c.offset \in Offsets \cup {0} /\ c.written \in Values
         /\ c.age \in 0..Forever /\ c.pause \in 0..Pause /\ c # NoCard
BY CardFacts DEF Cards

LEMMA NewCardTyped ==
  ASSUME RoomTyped, NEW t \in RoomTickers, plan[t].do # "keep", GoodPlan(t)
  PROVE  NewCard(t) \in Cards \cup {NoCard}
<1>1. before[t] \in Cards \cup {NoCard} /\ plan[t] \in Plans
  BY DEF RoomTyped, RoomTypeOK
<1>2. before[t] \in Cards => before[t].pause \in 0..Pause
  BY CardFields
<1>3. before[t].pause \in 0..Pause
  BY <1>1, <1>2, CardFacts DEF NoCard
<1>4. CASE plan[t].do = "set"
  <2>1. plan[t].base \in HandValues /\ plan[t].offset \in Offsets \cup {0} /\ plan[t].to \in Values
    BY <1>1, <1>4, CardFacts DEF GoodPlan, Plans
  <2> QED BY <2>1, <1>3, <1>4, CardFacts DEF NewCard, Cards
<1>5. CASE plan[t].do = "forget"
  BY <1>5 DEF NewCard
<1>6. CASE plan[t].do = "stand down"
  <2>1. before[t] \in Cards
    BY <1>1, <1>6 DEF GoodPlan, Shifted
  <2>2. NewCard(t) = [base |-> before[t].base, offset |-> 0, written |-> before[t].written,
                     age |-> before[t].age, pause |-> Pause]
    BY <2>1, <1>6 DEF NewCard, Cards
  <2>3. Pause \in 0..Pause
    BY CardFacts
  <2> QED BY <2>1, <2>2, <2>3, CardFields DEF Cards
<1> QED BY <1>1, <1>4, <1>5, <1>6 DEF Plans

\* An older card is a card that shifts as much.
LEMMA OlderCard ==
  ASSUME NEW c \in Cards \cup {NoCard}
  PROVE  /\ Older(c) \in Cards \cup {NoCard} /\ (Older(c) = NoCard <=> c = NoCard)
         /\ Older(c).base = c.base /\ Older(c).offset = c.offset /\ Older(c).written = c.written
         /\ c \in Cards => /\ Older(c).age = IF c.age < Forever THEN c.age + 1 ELSE c.age
                           /\ Older(c).pause = IF c.pause > 0 THEN c.pause - 1 ELSE 0
<1>1. CASE c = NoCard
  BY <1>1, CardFacts DEF Older
<1>2. CASE c \in Cards
  <2>1. c # NoCard /\ c.age \in 0..Forever /\ c.pause \in 0..Pause
    BY <1>2, CardFields
  <2>2. Older(c) = [base |-> c.base, offset |-> c.offset, written |-> c.written,
                    age |-> IF c.age < Forever THEN c.age + 1 ELSE c.age,
                    pause |-> IF c.pause > 0 THEN c.pause - 1 ELSE 0]
    BY <1>2, <2>1 DEF Older, Cards
  <2>3. (IF c.age < Forever THEN c.age + 1 ELSE c.age) \in 0..Forever
        /\ (IF c.pause > 0 THEN c.pause - 1 ELSE 0) \in 0..Pause
    BY <2>1, CardFacts
  <2>4. c.base \in HandValues /\ c.offset \in Offsets \cup {0} /\ c.written \in Values
    BY <1>2, CardFields
  <2>5. Older(c) \in Cards
    BY <2>2, <2>3, <2>4 DEF Cards
  <2>6. Older(c) # NoCard
    BY <2>5, CardFacts
  <2>7. /\ Older(c).base = c.base /\ Older(c).offset = c.offset /\ Older(c).written = c.written
        /\ Older(c).age = IF c.age < Forever THEN c.age + 1 ELSE c.age
        /\ Older(c).pause = IF c.pause > 0 THEN c.pause - 1 ELSE 0
    BY <2>2
  <2>8. Older(c) \in Cards \cup {NoCard} /\ (Older(c) = NoCard <=> c = NoCard)
    BY <2>1, <2>5, <2>6
  <2> QED BY <2>7, <2>8
<1> QED BY <1>1, <1>2

LEMMA ValuesAreNumbers == Values \subseteq Int /\ NoValue \in Int
<1>1. \A h \in HandValues, o \in Offsets : h \in Int /\ h + o \in Int
  BY CardFacts
<1>2. ASSUME NEW v \in Values PROVE v \in Int
  <2>1. CASE v \in HandValues
    BY <2>1, CardFacts
  <2>2. CASE v \notin HandValues
    <3>1. PICK h \in HandValues, o \in Offsets : v = h + o
      BY <2>2 DEF Values
    <3> QED BY <3>1, <1>1
  <2> QED BY <2>1, <2>2
<1>3. NoValue \in Int
  BY DEF NoValue
<1> QED BY <1>2, <1>3

----------------------------------------------------------------------------
(* What is decided is true of the room.                                       *)

\* The hypothesis of the theorems but one: nothing goes wrong except that people
\* set the room while the automatic does.
NobodyElse == Mishaps \subseteq {"early hand"}

\* A decision of a tick that finds the card in memory good, and its report true.
LEMMA DecisionFacts ==
  ASSUME RoomTyped, GoodCard(card), seen \in {plant, NoValue},
         NEW wish \in Offsets \cup {0}, NEW d, d = Decision(wish), d # Keep
  PROVE  /\ d \in Plans /\ d.do # "keep" /\ seen = plant /\ ~Resting
         /\ d.do = "stand down" => Shifted(card) /\ plant \in HandValues /\ card.age > Grace + seenAge
         /\ d.do = "forget" => plant \in HandValues
         /\ d.do = "set" => /\ d.base = Base /\ d.base \in HandValues /\ d.to = d.base + d.offset
                            /\ d.offset \in Offsets \cup {0}
                            /\ d.offset = 0 => Shifted(card)
                            /\ ~Touched
         /\ d.do = "forget" => Base = plant /\ ~Touched
<1> USE CardFacts, ValuesAreNumbers
<1>1. ~Resting /\ seen # NoValue /\ seen = plant
  BY DEF Decision
<1>2. /\ card \in Cards \cup {NoCard} /\ seenAge \in 0..Stale
      /\ card \in Cards => card.age \in 0..Forever /\ card.base \in HandValues
  BY CardFields DEF RoomTyped, RoomTypeOK
<1>3. Applied <=> Shifted(card)
  BY DEF Applied, Shifted
<1>4. Base \in HandValues
  <2>1. CASE Applied
    BY <2>1, <1>2, <1>3 DEF Base, Shifted
  <2>2. CASE ~Applied
    BY <2>2, <1>1, <1>3 DEF Base, GoodCard
  <2> QED BY <2>1, <2>2
<1>5. CASE Touched
  <2>1. d = [do |-> "stand down", to |-> NoValue, base |-> NoValue, offset |-> 0]
    BY <1>1, <1>5 DEF Decision, Keep
  <2>2. Shifted(card) /\ plant # card.written /\ card.age > Grace + seenAge
    BY <1>1, <1>2, <1>3, <1>5 DEF Touched, FreshReport, Shifted
  <2>3. plant \in HandValues
    BY <2>2 DEF GoodCard
  <2>4. [do |-> "stand down", to |-> NoValue, base |-> NoValue, offset |-> 0] \in Plans
    BY Zenon DEF Plans
  <2>5. d \in Plans
    BY <2>1, <2>4
  <2>6. d.do = "stand down"
    BY <1>1, <1>5 DEF Decision, Keep
  <2> QED BY <2>2, <2>3, <2>5, <2>6, <1>1
<1>6. CASE ~Touched
  <2>1. CASE Base + wish = seen
    <3>1. wish = 0 /\ card # NoCard /\ d = [do |-> "forget", to |-> NoValue, base |-> NoValue, offset |-> 0]
      BY <1>1, <1>6, <2>1 DEF Decision, Keep
    <3>2. plant = Base
      BY <2>1, <3>1, <1>1, <1>4
    <3>3. [do |-> "forget", to |-> NoValue, base |-> NoValue, offset |-> 0] \in Plans
      BY Zenon DEF Plans
    <3>4. d \in Plans
      BY <3>1, <3>3
    <3>5. d.do = "forget"
      BY <3>1
    <3> QED BY <3>2, <3>4, <3>5, <1>1, <1>4, <1>6
  <2>2. CASE Base + wish # seen
    <3>1. d = [do |-> "set", to |-> Base + wish, base |-> Base, offset |-> wish]
      BY <1>1, <1>6, <2>2 DEF Decision
    <3>2. wish = 0 => Shifted(card)
      <4>1. ASSUME wish = 0, ~Applied PROVE FALSE
        <5>1. Base = seen /\ Base \in Int
          BY <4>1, <1>4 DEF Base
        <5> QED BY <5>1, <4>1, <2>2
      <4> QED BY <4>1, <1>3
    <3>3. Base + wish \in Values
      BY <1>4
    <3> QED BY <3>1, <3>2, <3>3, <1>1, <1>4, <1>6 DEF Plans
  <2> QED BY <2>1, <2>2
<1> QED BY <1>5, <1>6

\* The fields of the card a plan leads to.
LEMMA NewCardFields ==
  ASSUME RoomTyped, NEW t \in RoomTickers, GoodPlan(t)
  PROVE  /\ plan[t].do = "set" =>
              /\ NewCard(t).base = plan[t].base /\ NewCard(t).offset = plan[t].offset
              /\ NewCard(t).written = plan[t].to /\ NewCard(t) # NoCard
         /\ plan[t].do = "forget" => NewCard(t) = NoCard
         /\ plan[t].do = "stand down" =>
              NewCard(t).offset = 0 /\ NewCard(t).pause = Pause /\ NewCard(t) # NoCard
<1> USE CardFacts
<1>1. before[t] \in Cards \cup {NoCard}
  BY DEF RoomTyped, RoomTypeOK
<1>2. CASE plan[t].do = "set"
  <2>1. NewCard(t) \in Cards \cup {NoCard} /\ NewCard(t).base = plan[t].base
    BY <1>2, NewCardTyped DEF NewCard
  <2>2. NewCard(t).base # NoValue
    BY <1>2, <2>1 DEF GoodPlan
  <2> QED BY <1>2, <2>2 DEF NewCard, NoCard
<1>3. CASE plan[t].do = "stand down"
  <2>1. before[t] \in Cards
    BY <1>1, <1>3 DEF GoodPlan, Shifted
  <2>2. NewCard(t) = [base |-> before[t].base, offset |-> 0, written |-> before[t].written,
                     age |-> before[t].age, pause |-> Pause]
    BY <2>1, <1>3 DEF NewCard, Cards
  <2>3. NewCard(t) # NoCard
    BY <2>1, <2>2, CardFields DEF NoCard
  <2>4. NewCard(t).offset = 0 /\ NewCard(t).pause = Pause
    BY <2>2
  <2> QED BY <1>3, <2>3, <2>4
<1>4. CASE plan[t].do = "forget"
  BY <1>4 DEF NewCard
<1> QED BY <1>2, <1>3, <1>4

----------------------------------------------------------------------------
(* What the steps have in common.                                             *)

\* A plan that is carried out goes on being true while people set the room and the
\* room is read.
LEMMA PhaseKept ==
  ASSUME RoomTyped, NEW t \in RoomTickers, Phase(t),
         roomPc'[t] = roomPc[t], plan'[t] = plan[t], before'[t] = before[t], card' = card, row' = row,
         plant' = plant \/ plant' \in HandValues, seenAge' = seenAge \/ seenAge' = 0
  PROVE  Phase(t)'
<1> USE CardFacts
<1>1. before[t] \in Cards \cup {NoCard} /\ seenAge \in 0..Stale
  BY DEF RoomTyped, RoomTypeOK
<1>2. before[t] \in Cards => before[t].age \in 0..Forever
  BY CardFields
<1>3. GoodCard(before[t])'
  BY DEF Phase, GoodCard
<1>4. GoodPlan(t)'
  <2>1. CASE plan[t].do = "stand down"
    <3>1. Shifted(before[t]) /\ plant \in HandValues /\ before[t].age > Grace + seenAge
      BY <2>1 DEF Phase, GoodPlan
    <3>2. before[t].age > Grace + seenAge'
      BY <3>1, <1>1, <1>2 DEF Shifted
    <3> QED BY <2>1, <3>1, <3>2 DEF GoodPlan
  <2>2. CASE plan[t].do # "stand down"
    BY <2>2 DEF Phase, GoodPlan
  <2> QED BY <2>1, <2>2
<1>5. NewCard(t)' = NewCard(t)
  BY DEF NewCard
<1> QED BY <1>3, <1>4, <1>5 DEF Phase

\* A step that touches nothing a tick depends on.
LEMMA RestKept ==
  ASSUME RoomInv, card' = card, row' = row,
         plant' = plant \/ plant' \in HandValues, seenAge' = seenAge \/ seenAge' = 0,
         \A t \in RoomTickers :
            \/ AtRest(t) /\ AtRest(t)'
            \/ roomPc'[t] = roomPc[t] /\ plan'[t] = plan[t] /\ before'[t] = before[t]
  PROVE  OneTick' /\ PhasesRight' /\ RestRight'
<1>1. \A t \in RoomTickers : AtRest(t)' <=> AtRest(t)
  BY DEF AtRest
<1>2. OneTick'
  BY <1>1 DEF RoomInv, OneTick
<1>3. ASSUME NEW t \in RoomTickers, ~AtRest(t)' PROVE Phase(t)'
  <2>1. ~AtRest(t) /\ Phase(t)
    BY <1>1, <1>3 DEF RoomInv, PhasesRight
  <2>2. roomPc'[t] = roomPc[t] /\ plan'[t] = plan[t] /\ before'[t] = before[t]
    BY <2>1
  <2> QED BY <2>1, <2>2, PhaseKept DEF RoomInv
<1>4. RestRight'
  BY <1>1 DEF RoomInv, RestRight, GoodCard
<1> QED BY <1>2, <1>3, <1>4 DEF PhasesRight

\* A tick that is over.
LEMMA OverRests ==
  ASSUME RoomTyped, NEW t \in RoomTickers, Over(t), \A u \in RoomTickers \ {t} : AtRest(u),
         card' = row', GoodCard(card)'
  PROVE  OneTick' /\ PhasesRight' /\ RestRight'
<1>1. \A u \in RoomTickers : AtRest(u)'
  BY DEF RoomTyped, RoomTypeOK, Over, AtRest
<1> QED BY <1>1 DEF OneTick, PhasesRight, RestRight

\* A tick that goes on.
LEMMA GoesOn ==
  ASSUME RoomTyped, NEW t \in RoomTickers, \A u \in RoomTickers \ {t} : AtRest(u),
         NEW pc \in {"decided", "saving", "sent", "undoing"},
         roomPc' = [roomPc EXCEPT ![t] = pc], Phase(t)'
  PROVE  OneTick' /\ PhasesRight' /\ RestRight'
<1>1. ~AtRest(t)' /\ \A u \in RoomTickers \ {t} : AtRest(u)'
  BY DEF RoomTyped, RoomTypeOK, AtRest
<1> QED BY <1>1 DEF OneTick, PhasesRight, RestRight

\* While one tick is at work the other is not.
LEMMA OthersRest ==
  ASSUME RoomInv, NEW t \in RoomTickers, ~AtRest(t)
  PROVE  Phase(t) /\ \A u \in RoomTickers \ {t} : AtRest(u)
BY DEF RoomInv, OneTick, PhasesRight

LEMMA OverTyped ==
  ASSUME RoomTyped, NEW t \in RoomTickers, Over(t)
  PROVE  /\ roomPc' \in [RoomTickers -> {"idle", "asked", "decided", "saving", "sent", "undoing"}]
         /\ before' \in [RoomTickers -> Cards \cup {NoCard}] /\ plan' \in [RoomTickers -> Plans]
<1>1. Keep \in Plans
  BY DEF Keep, Plans
<1> QED BY <1>1 DEF RoomTyped, RoomTypeOK, Over

----------------------------------------------------------------------------
(* The invariant, step by step.                                               *)

LEMMA RoomStarts == RoomInit => RoomInv
<1> SUFFICES ASSUME RoomInit PROVE RoomInv
  OBVIOUS
<1> USE CardFacts
<1>1. Keep \in Plans
  BY DEF Keep, Plans
<1>2. RoomTyped
  <2>1. enabled \in BOOLEAN /\ hand \in HandValues /\ plant \in Values
    BY DEF RoomInit
  <2>2. seen \in Values \cup {NoValue} /\ seenAge \in 0..Stale /\ card = NoCard /\ row = NoCard
    BY DEF RoomInit
  <2>3. /\ roomPc \in [RoomTickers -> {"idle", "asked", "decided", "saving", "sent", "undoing"}]
        /\ before \in [RoomTickers -> Cards \cup {NoCard}] /\ plan \in [RoomTickers -> Plans]
    BY <1>1 DEF RoomInit
  <2>4. ticks \in 0..1 /\ restarts \in 0..MaxRestarts /\ quiet \in 0..Pause
    BY DEF RoomInit
  <2> QED BY <2>1, <2>2, <2>3, <2>4 DEF RoomTyped, RoomTypeOK
<1>3. \A t \in RoomTickers : AtRest(t)
  BY DEF RoomInit, AtRest
<1> QED BY <1>2, <1>3 DEF RoomInit, RoomInv, OneTick, PhasesRight, RestRight, GoodCard, Shifted

LEMMA LookKeeps ==
  ASSUME RoomInv, NobodyElse, NEW t \in RoomTickers, Look(t)
  PROVE  RoomInv'
<1> USE CardFacts
<1>1. \A u \in RoomTickers : AtRest(u)
  BY DEF NobodyElse, Look, Alone, AtRest
<1>2. card = row /\ GoodCard(card) /\ RoomTyped
  BY <1>1 DEF RoomInv, RestRight
<1>3. /\ UNCHANGED <<enabled, house, seen, seenAge, card, row, restarts, quiet>> /\ ticks' \in 0..1
      /\ GoodCard(card)'
  <2>1. UNCHANGED <<enabled, house, seen, seenAge, card, row, restarts, quiet>>
    BY DEF Look
  <2>2. ticks \in 0..1
    BY <1>2 DEF RoomTyped, RoomTypeOK
  <2>3. ticks' \in 0..1
    <3>1. ticks' = 1 \/ ticks' = ticks
      BY Zenon DEF Look
    <3> QED BY <2>2, <3>1
  <2>4. plant' = plant /\ card' = card
    BY <2>1 DEF house
  <2> QED BY <1>2, <2>1, <2>3, <2>4 DEF GoodCard
<1>4. CASE Over(t)
  <2>1. RoomTyped'
    BY <1>2, <1>3, <1>4, OverTyped DEF RoomTyped, RoomTypeOK, house
  <2> QED BY <1>1, <1>2, <1>3, <1>4, <2>1, OverRests DEF RoomInv
<1>5. CASE ~Over(t)
  <2>1. PICK wish \in Wishes :
          /\ Decision(wish) # Keep /\ plan' = [plan EXCEPT ![t] = Decision(wish)]
          /\ before' = [before EXCEPT ![t] = card] /\ roomPc' = [roomPc EXCEPT ![t] = "decided"]
    BY <1>5 DEF Look
  <2>2. wish \in Offsets \cup {0} /\ seen \in {plant, NoValue}
    BY DEF Wishes, Look, NobodyElse
  <2> DEFINE d == Decision(wish)
  <2>3. /\ d \in Plans /\ d.do # "keep"
        /\ d.do = "stand down" => Shifted(card) /\ plant \in HandValues /\ card.age > Grace + seenAge
        /\ d.do = "forget" => plant \in HandValues
        /\ d.do = "set" => /\ d.base \in HandValues /\ d.to = d.base + d.offset
                           /\ d.offset = 0 => Shifted(card)
    <3> HIDE DEF d
    <3>1. d = Decision(wish)
      BY DEF d
    <3> QED BY <3>1, <1>2, <2>1, <2>2, DecisionFacts
  <2>4. RoomTyped'
    <3>1. plan' \in [RoomTickers -> Plans]
      BY <1>2, <2>1, <2>3 DEF RoomTyped
    <3>2. /\ before' \in [RoomTickers -> Cards \cup {NoCard}]
          /\ roomPc' \in [RoomTickers -> {"idle", "asked", "decided", "saving", "sent", "undoing"}]
      BY <1>2, <2>1 DEF RoomTyped, RoomTypeOK
    <3> QED BY <1>2, <1>3, <3>1, <3>2 DEF RoomTyped, RoomTypeOK, house
  <2>5. plan'[t] = d /\ before'[t] = card /\ roomPc'[t] = "decided" /\ plant' = plant /\ seenAge' = seenAge
        /\ card' = card /\ row' = card
    BY <1>2, <1>3, <2>1 DEF RoomTyped, RoomTypeOK, house
  <2>6. Phase(t)'
    <3> HIDE DEF d
    <3>1. GoodCard(before[t])'
      BY <1>3, <2>5
    <3>2. GoodPlan(t)'
      BY <2>3, <2>5 DEF GoodPlan
    <3> QED BY <2>3, <2>5, <3>1, <3>2 DEF Phase
  <2> QED BY <1>1, <1>2, <2>1, <2>4, <2>6, GoesOn DEF RoomInv
<1> QED BY <1>4, <1>5

LEMMA PassesByKeeps ==
  ASSUME RoomInv, NEW t \in RoomTickers, PassesBy(t)
  PROVE  RoomInv'
<1>1. RoomTyped /\ roomPc[t] = "asked" /\ Over(t)
      /\ UNCHANGED <<enabled, plant, hand, seen, seenAge, card, row, ticks, restarts, quiet>>
  BY DEF RoomInv, PassesBy, house
<1>2. RoomTyped'
  BY <1>1, OverTyped DEF RoomTyped, RoomTypeOK
<1>3. ASSUME NEW u \in RoomTickers
      PROVE  \/ AtRest(u) /\ AtRest(u)'
             \/ roomPc'[u] = roomPc[u] /\ plan'[u] = plan[u] /\ before'[u] = before[u]
  <2>1. CASE u = t
    BY <1>1, <2>1 DEF AtRest, Over, RoomTyped, RoomTypeOK
  <2>2. CASE u # t
    BY <1>1, <2>2 DEF Over, RoomTyped, RoomTypeOK
  <2> QED BY <2>1, <2>2
<1> QED BY <1>1, <1>2, <1>3, RestKept DEF RoomInv

LEMMA RememberKeeps ==
  ASSUME RoomInv, NEW t \in RoomTickers, Remember(t)
  PROVE  RoomInv'
<1> USE CardFacts
<1>1. /\ RoomTyped /\ roomPc[t] = "decided" /\ ~AtRest(t)
      /\ roomPc' = [roomPc EXCEPT ![t] = "saving"] /\ before' = before /\ plan' = plan
      /\ card' = NewCard(t) /\ UNCHANGED <<enabled, plant, hand, seen, seenAge, row, ticks, restarts>>
  BY DEF RoomInv, Remember, GoOn, house, AtRest
<1>2. Phase(t) /\ \A u \in RoomTickers \ {t} : AtRest(u)
  BY <1>1, OthersRest
<1>3. NewCard(t) \in Cards \cup {NoCard}
  BY <1>1, <1>2, NewCardTyped DEF Phase
<1>4. quiet' \in 0..Pause
  <2>1. quiet \in 0..Pause /\ Pause \in 0..Pause
    BY <1>1 DEF RoomTyped, RoomTypeOK
  <2> QED BY <2>1 DEF Remember
<1>5. RoomTyped'
  BY <1>1, <1>3, <1>4 DEF RoomTyped, RoomTypeOK
<1>6. roomPc'[t] = "saving" /\ NewCard(t)' = NewCard(t)
  BY <1>1 DEF RoomTyped, RoomTypeOK, NewCard
<1>7. Phase(t)'
  BY <1>1, <1>2, <1>6 DEF Phase, GoodCard, GoodPlan
<1> QED BY <1>1, <1>2, <1>5, <1>7, GoesOn DEF RoomInv

LEMMA SavedKeeps ==
  ASSUME RoomInv, NEW t \in RoomTickers, Saved(t)
  PROVE  RoomInv'
<1> USE CardFacts
<1>1. /\ RoomTyped /\ roomPc[t] = "saving" /\ ~AtRest(t) /\ row' = NewCard(t)
      /\ UNCHANGED <<enabled, plant, hand, seen, seenAge, card, ticks, restarts, quiet>>
  BY DEF RoomInv, Saved, house, AtRest
<1>2. Phase(t) /\ \A u \in RoomTickers \ {t} : AtRest(u)
  BY <1>1, OthersRest
<1>3. card = NewCard(t) /\ NewCard(t) \in Cards \cup {NoCard} /\ GoodPlan(t)
  BY <1>1, <1>2, NewCardTyped DEF Phase
<1>4. CASE plan[t].do = "set"
  <2>1. roomPc' = [roomPc EXCEPT ![t] = "sent"] /\ before' = before /\ plan' = plan
    BY <1>4 DEF Saved, GoOn
  <2>2. RoomTyped'
    BY <1>1, <1>3, <2>1 DEF RoomTyped, RoomTypeOK
  <2>3. roomPc'[t] = "sent" /\ NewCard(t)' = NewCard(t)
    BY <1>1, <2>1 DEF RoomTyped, RoomTypeOK, NewCard
  <2>4. Phase(t)'
    BY <1>1, <1>2, <1>3, <1>4, <2>1, <2>3 DEF Phase, GoodCard, GoodPlan
  <2> QED BY <1>1, <1>2, <2>1, <2>2, <2>4, GoesOn DEF RoomInv
<1>5. CASE plan[t].do # "set"
  <2>1. Over(t)
    BY <1>5 DEF Saved
  <2>2. RoomTyped'
    BY <1>1, <1>3, <2>1, OverTyped DEF RoomTyped, RoomTypeOK
  <2>3. plant \in HandValues /\ ~Shifted(NewCard(t))
    <3>1. plan[t].do \in {"stand down", "forget"}
      BY <1>1, <1>2, <1>5 DEF Phase, RoomTyped, Plans
    <3> QED BY <1>1, <1>3, <3>1, NewCardFields DEF GoodPlan, Shifted
  <2>4. GoodCard(card)'
    BY <1>1, <1>3, <2>3 DEF GoodCard, Shifted
  <2> QED BY <1>1, <1>2, <1>3, <2>1, <2>2, <2>4, OverRests DEF RoomInv
<1> QED BY <1>4, <1>5

LEMMA AnsweredKeeps ==
  ASSUME RoomInv, NobodyElse, NEW t \in RoomTickers,
         NEW executed \in BOOLEAN, NEW ok \in BOOLEAN, Answered(t, executed, ok)
  PROVE  RoomInv'
<1> USE CardFacts
<1>1. /\ RoomTyped /\ roomPc[t] = "sent" /\ ~AtRest(t)
      /\ UNCHANGED <<enabled, hand, seen, seenAge, row, ticks, restarts, quiet>>
  BY DEF RoomInv, Answered, AtRest
<1>2. Phase(t) /\ \A u \in RoomTickers \ {t} : AtRest(u)
  BY <1>1, OthersRest
<1>3. /\ plan[t].do = "set" /\ card = NewCard(t) /\ row = NewCard(t) /\ GoodPlan(t)
      /\ plan[t].base \in HandValues /\ plan[t].to = plan[t].base + plan[t].offset
  BY <1>1, <1>2 DEF Phase, GoodPlan
<1>4. plan[t].to \in Values /\ plan[t].offset \in Offsets \cup {0}
  BY <1>1, <1>3 DEF RoomTyped, Plans
<1>5. CASE ok
  <2>1. plant' = plan[t].to /\ card' = card /\ Over(t)
    BY <1>5 DEF Answered
  <2>2. RoomTyped'
    BY <1>1, <1>4, <2>1, OverTyped DEF RoomTyped, RoomTypeOK
  <2>3. /\ NewCard(t).base = plan[t].base /\ NewCard(t).offset = plan[t].offset
        /\ NewCard(t).written = plan[t].to /\ NewCard(t) # NoCard
    BY <1>1, <1>3, NewCardFields
  <2>4. GoodCard(card)'
    <3>1. card' = NewCard(t) /\ plant' = plan[t].to
      BY <1>3, <2>1
    <3>2. CASE plan[t].offset = 0
      <4>1. plan[t].to = plan[t].base
        <5>1. plan[t].base \in Nat
          BY <1>3
        <5>2. plan[t].to = plan[t].base + 0
          BY <1>3, <3>2, Zenon
        <5> QED BY <5>1, <5>2
      <4> QED BY <1>3, <2>3, <3>1, <3>2, <4>1 DEF GoodCard, Shifted
    <3>3. CASE plan[t].offset # 0
      BY <1>3, <2>3, <3>1, <3>3 DEF GoodCard, Shifted
    <3> QED BY <3>2, <3>3
  <2> QED BY <1>1, <1>2, <1>3, <2>1, <2>2, <2>4, OverRests DEF RoomInv
<1>6. CASE ~ok
  <2>1. plant' = plant /\ card' = before[t]
        /\ roomPc' = [roomPc EXCEPT ![t] = "undoing"] /\ before' = before /\ plan' = plan
    BY <1>6 DEF Answered, GoOn, NobodyElse
  <2>2. RoomTyped'
    BY <1>1, <2>1 DEF RoomTyped, RoomTypeOK
  <2>3. roomPc'[t] = "undoing" /\ NewCard(t)' = NewCard(t)
    BY <1>1, <2>1 DEF RoomTyped, RoomTypeOK, NewCard
  <2>4. Phase(t)'
    BY <1>1, <1>2, <1>3, <2>1, <2>3 DEF Phase, GoodCard, GoodPlan
  <2> QED BY <1>1, <1>2, <2>1, <2>2, <2>4, GoesOn DEF RoomInv
<1> QED BY <1>5, <1>6

LEMMA UndoneKeeps ==
  ASSUME RoomInv, NEW t \in RoomTickers, Undone(t)
  PROVE  RoomInv'
<1>1. /\ RoomTyped /\ roomPc[t] = "undoing" /\ ~AtRest(t) /\ row' = before[t] /\ Over(t)
      /\ UNCHANGED <<enabled, plant, hand, seen, seenAge, card, ticks, restarts, quiet>>
  BY DEF RoomInv, Undone, house, AtRest
<1>2. Phase(t) /\ \A u \in RoomTickers \ {t} : AtRest(u)
  BY <1>1, OthersRest
<1>3. card = before[t] /\ before[t] \in Cards \cup {NoCard} /\ GoodCard(before[t])
  BY <1>1, <1>2 DEF Phase, RoomTyped, RoomTypeOK
<1>4. RoomTyped'
  BY <1>1, <1>3, OverTyped DEF RoomTyped, RoomTypeOK
<1>5. GoodCard(card)'
  BY <1>1, <1>3 DEF GoodCard
<1> QED BY <1>1, <1>2, <1>3, <1>4, <1>5, OverRests DEF RoomInv

\* A restart: whatever the tick was about, the row is a good card for the room, as
\* long as the room was not shifted when it was set anew.
LEMMA RestartKeeps ==
  ASSUME RoomInv, NobodyElse, RestartRooms
  PROVE  RoomInv'
<1> USE CardFacts
<1>1. /\ RoomTyped /\ card' = row /\ row' = row /\ seen' = NoValue /\ seenAge' = 0
      /\ UNCHANGED <<enabled, hand, ticks, quiet>> /\ restarts' \in 0..MaxRestarts
      /\ roomPc' = [t \in RoomTickers |-> "idle"]
      /\ before' = [t \in RoomTickers |-> NoCard] /\ plan' = [t \in RoomTickers |-> Keep]
  <2>1. /\ UNCHANGED <<enabled, hand, row, ticks, quiet>> /\ card' = row /\ seen' = NoValue /\ seenAge' = 0
        /\ roomPc' = [t \in RoomTickers |-> "idle"]
        /\ before' = [t \in RoomTickers |-> NoCard] /\ plan' = [t \in RoomTickers |-> Keep]
    BY DEF RestartRooms
  <2>2. RoomTyped /\ restarts \in 0..MaxRestarts
    BY DEF RoomInv, RoomTyped, RoomTypeOK
  <2>3. restarts' \in 0..MaxRestarts
    <3>1. restarts < MaxRestarts /\ restarts' = restarts + 1
      BY DEF RestartRooms
    <3> QED BY <2>2, <3>1
  <2> QED BY <2>1, <2>2, <2>3
<1>2. \A t \in RoomTickers : plan[t].do = "set" => before[t].offset = 0
  BY DEF RestartRooms, NobodyElse
<1>3. plant' = plant \/ \E t \in RoomTickers : roomPc[t] = "sent" /\ plant' = plan[t].to
  BY DEF RestartRooms
<1>4. \A t \in RoomTickers : AtRest(t)'
  BY <1>1 DEF AtRest
<1>5. ASSUME NEW t \in RoomTickers, ~AtRest(t) PROVE GoodCard(row)' /\ plant' \in Values
  <2>1. Phase(t) /\ \A u \in RoomTickers \ {t} : AtRest(u)
    BY <1>5, OthersRest
  <2>2. plant \in Values /\ plan[t] \in Plans
        /\ roomPc[t] \in {"decided", "saving", "sent", "undoing"}
    BY <1>1, <1>5 DEF RoomTyped, RoomTypeOK, AtRest
  <2>3. plant' = plant \/ (roomPc[t] = "sent" /\ plant' = plan[t].to)
    BY <1>3, <2>1 DEF AtRest
  <2>4. CASE roomPc[t] \in {"decided", "saving"}
    BY <1>1, <2>1, <2>2, <2>3, <2>4 DEF Phase, GoodCard
  <2>5. CASE roomPc[t] \in {"sent", "undoing"}
    <3>1. plan[t].do = "set" /\ row = NewCard(t) /\ GoodCard(before[t]) /\ GoodPlan(t)
      BY <2>1, <2>5 DEF Phase
    <3>2. ~Shifted(before[t]) /\ plant \in HandValues
      BY <1>2, <3>1 DEF Shifted, GoodCard
    <3>3. /\ plan[t].offset # 0 /\ plan[t].to = plan[t].base + plan[t].offset
          /\ plan[t].base \in HandValues /\ plan[t].offset \in Offsets \cup {0}
      BY <2>2, <3>1, <3>2 DEF GoodPlan, Plans
    <3>4. /\ row.base = plan[t].base /\ row.offset = plan[t].offset
          /\ row.written = plan[t].to /\ row # NoCard
      BY <1>1, <3>1, NewCardFields
    <3>5. plan[t].to \in Values
      BY <3>3
    <3> QED BY <1>1, <2>2, <2>3, <3>2, <3>3, <3>4, <3>5 DEF GoodCard, Shifted
  <2> QED BY <2>2, <2>4, <2>5
<1>6. GoodCard(row)' /\ plant' \in Values
  <2>1. CASE \A t \in RoomTickers : AtRest(t)
    <3>1. plant' = plant /\ GoodCard(row)
      BY <1>3, <2>1 DEF AtRest, RoomInv, RestRight
    <3> QED BY <1>1, <3>1 DEF GoodCard, RoomTyped, RoomTypeOK
  <2> QED BY <2>1, <1>5
<1>7. RoomTyped'
  <2>1. Keep \in Plans /\ 0 \in 0..Stale
    BY DEF Keep, Plans
  <2> QED BY <1>1, <1>6, <2>1 DEF RoomTyped, RoomTypeOK
<1> QED BY <1>1, <1>4, <1>6, <1>7 DEF RoomInv, OneTick, PhasesRight, RestRight, GoodCard

LEMMA SetAutomatikKeeps ==
  ASSUME RoomInv, SetAutomatik
  PROVE  RoomInv'
<1>1. /\ RoomTyped /\ roomPc["user"] = "idle" /\ enabled' = ~enabled
      /\ roomPc' = [roomPc EXCEPT !["user"] = "asked"]
      /\ UNCHANGED <<plant, hand, seen, seenAge, card, row, before, plan, ticks, restarts, quiet>>
  BY DEF RoomInv, SetAutomatik, house
<1>2. RoomTyped'
  BY <1>1 DEF RoomTyped, RoomTypeOK
<1>3. ASSUME NEW u \in RoomTickers
      PROVE  \/ AtRest(u) /\ AtRest(u)'
             \/ roomPc'[u] = roomPc[u] /\ plan'[u] = plan[u] /\ before'[u] = before[u]
  BY <1>1 DEF AtRest, RoomTyped, RoomTypeOK
<1> QED BY <1>1, <1>2, <1>3, RestKept DEF RoomInv

LEMMA HandSetsKeeps ==
  ASSUME RoomInv, NEW v \in HandValues, HandSets(v)
  PROVE  RoomInv'
<1>1. /\ RoomTyped /\ plant' = v /\ hand' = v
      /\ UNCHANGED <<enabled, seen, seenAge, card, row, roomPc, before, plan, ticks, restarts, quiet>>
  BY DEF RoomInv, HandSets, tickVars
<1>2. RoomTyped'
  BY <1>1, CardFacts DEF RoomTyped, RoomTypeOK
<1> QED BY <1>1, <1>2, RestKept DEF RoomInv

LEMMA ReportKeeps ==
  ASSUME RoomInv, ReportSetpoint
  PROVE  RoomInv'
<1>1. /\ RoomTyped /\ seen' = plant /\ seenAge' = 0
      /\ UNCHANGED <<enabled, plant, hand, card, row, roomPc, before, plan, ticks, restarts, quiet>>
  BY DEF RoomInv, ReportSetpoint, tickVars, house
<1>2. RoomTyped'
  BY <1>1, CardFacts DEF RoomTyped, RoomTypeOK
<1> QED BY <1>1, <1>2, RestKept DEF RoomInv

LEMMA TimeKeeps ==
  ASSUME RoomInv, RoomTime
  PROVE  RoomInv'
<1> USE CardFacts
<1>1. /\ RoomTyped /\ card' = Older(card) /\ row' = Older(row) /\ ticks' = 0
      /\ UNCHANGED <<enabled, plant, hand, roomPc, before, plan, restarts>>
      /\ \A t \in RoomTickers : roomPc[t] = "idle"
  BY DEF RoomInv, RoomTime, house, tickVars
<1>2. \A t \in RoomTickers : AtRest(t) /\ AtRest(t)'
  BY <1>1 DEF AtRest
<1>3. card = row /\ GoodCard(card) /\ card \in Cards \cup {NoCard}
  BY <1>1, <1>2 DEF RoomInv, RestRight, RoomTyped, RoomTypeOK
<1>4. /\ Older(card) \in Cards \cup {NoCard} /\ (Older(card) = NoCard <=> card = NoCard)
      /\ Older(card).base = card.base /\ Older(card).offset = card.offset
      /\ Older(card).written = card.written
  BY <1>3, OlderCard
<1>5. seen' \in Values \cup {NoValue} /\ seenAge' \in 0..Stale
  <2>1. seen \in Values \cup {NoValue} /\ seenAge \in 0..Stale
    BY <1>1 DEF RoomTyped, RoomTypeOK
  <2>2. CASE seen = NoValue \/ seenAge = Stale
    BY <2>2 DEF RoomTime
  <2>3. CASE ~(seen = NoValue \/ seenAge = Stale)
    BY <2>1, <2>3 DEF RoomTime
  <2> QED BY <2>2, <2>3
<1>6. quiet' \in 0..Pause
  <2>1. quiet \in 0..Pause
    BY <1>1 DEF RoomTyped, RoomTypeOK
  <2>2. quiet' = IF quiet > 0 THEN quiet - 1 ELSE 0
    BY DEF RoomTime
  <2> QED BY <2>1, <2>2
<1>7. RoomTyped'
  BY <1>1, <1>3, <1>4, <1>5, <1>6 DEF RoomTyped, RoomTypeOK
<1>8. GoodCard(card)'
  BY <1>1, <1>3, <1>4 DEF GoodCard, Shifted
<1> QED BY <1>1, <1>2, <1>3, <1>7, <1>8 DEF RoomInv, OneTick, PhasesRight, RestRight

LEMMA RoomStep ==
  ASSUME RoomInv, NobodyElse, [RoomNext]_roomVars
  PROVE  RoomInv'
<1>1. CASE UNCHANGED roomVars
  <2>1. \A t \in RoomTickers : (AtRest(t)' <=> AtRest(t)) /\ (Phase(t)' <=> Phase(t))
    BY <1>1 DEF roomVars, AtRest, Phase, GoodPlan, GoodCard, NewCard
  <2> QED BY <1>1, <2>1 DEF roomVars, RoomInv, RoomTyped, RoomTypeOK, OneTick, PhasesRight, RestRight,
                            GoodCard
<1>2. ASSUME NEW t \in RoomTickers,
             \/ Look(t) \/ PassesBy(t) \/ Remember(t) \/ Saved(t) \/ Undone(t)
             \/ \E executed, ok \in BOOLEAN : Answered(t, executed, ok)
      PROVE  RoomInv'
  BY <1>2, LookKeeps, PassesByKeeps, RememberKeeps, SavedKeeps, UndoneKeeps, AnsweredKeeps
<1>3. CASE SetAutomatik \/ RestartRooms \/ ReportSetpoint \/ RoomTime
  BY <1>3, SetAutomatikKeeps, RestartKeeps, ReportKeeps, TimeKeeps
<1>4. CASE \E v \in HandValues : HandSets(v)
  BY <1>4, HandSetsKeeps
<1> QED BY <1>1, <1>2, <1>3, <1>4 DEF RoomNext

\* The types of the automatic of a room, whatever people set and when.
THEOREM RoomTypes == NobodyElse => (RoomSpec => []RoomTypeOK)
<1> SUFFICES ASSUME NobodyElse PROVE RoomSpec => []RoomTypeOK
  OBVIOUS
<1>1. RoomInit => RoomInv
  BY RoomStarts
<1>2. RoomInv /\ [RoomNext]_roomVars => RoomInv'
  BY RoomStep
<1>3. RoomInv => RoomTypeOK
  BY DEF RoomInv, RoomTyped
<1> QED BY <1>1, <1>2, <1>3, PTL DEF RoomSpec

----------------------------------------------------------------------------
(* The pause after a person has set the room.                                 *)

\* Of a tick at work in the pause: it stands down, and sends nothing.
LEMMA QuietTicks ==
  ASSUME LeavesInv, quiet > 0, NEW t \in RoomTickers
  PROVE  AtRest(t) \/ (plan[t].do = "stand down" /\ roomPc[t] \in {"decided", "saving"})
<1>1. CASE ~AtRest(t)
  <2>1. Phase(t) /\ plan[t].do = "stand down"
    BY <1>1 DEF LeavesInv, RoomInv, PhasesRight, QuietKept
  <2>2. roomPc[t] \in {"decided", "saving", "sent", "undoing"}
    BY <1>1 DEF LeavesInv, RoomInv, RoomTyped, RoomTypeOK, AtRest
  <2> QED BY <2>1, <2>2 DEF Phase
<1> QED BY <1>1

\* A card that keeps the automatic off goes on doing so.
LEMMA OffStays ==
  ASSUME RoomTyped, Off(row), row' = row, quiet' = quiet, plant' = plant \/ plant' \in HandValues,
         seenAge' = seenAge \/ seenAge' = 0
  PROVE  Off(row)'
<1> USE CardFacts
<1>1. row \in Cards /\ seenAge \in 0..Stale
  BY DEF RoomTyped, RoomTypeOK, Off
<1>2. row.age \in 0..Forever
  BY <1>1, CardFields
<1> QED BY <1>1, <1>2 DEF Off

LEMMA QuietLook ==
  ASSUME LeavesInv, NobodyElse, NEW t \in RoomTickers, Look(t), quiet > 0
  PROVE  \A u \in RoomTickers : AtRest(u)' \/ plan'[u].do = "stand down"
<1> USE CardFacts
<1>0. RoomTyped /\ Off(row)
  BY DEF LeavesInv, RoomInv, QuietKept
<1>1. \A u \in RoomTickers : AtRest(u)
  BY DEF NobodyElse, Look, Alone, AtRest
<1>2. card = row /\ GoodCard(card)
  BY <1>1 DEF LeavesInv, RoomInv, RestRight
<1>3. CASE Over(t)
  BY <1>0, <1>1, <1>3 DEF Over, AtRest, RoomTyped, RoomTypeOK
<1>4. CASE ~Over(t)
  <2>1. PICK wish \in Wishes :
          /\ Decision(wish) # Keep /\ plan' = [plan EXCEPT ![t] = Decision(wish)]
          /\ roomPc' = [roomPc EXCEPT ![t] = "decided"]
    BY <1>4 DEF Look
  <2>2. wish \in Offsets \cup {0} /\ seen \in {plant, NoValue}
    BY DEF Wishes, Look, NobodyElse
  <2> DEFINE d == Decision(wish)
  <2>3. /\ d \in Plans /\ d.do # "keep" /\ seen = plant /\ ~Resting
        /\ d.do = "set" => ~Touched
        /\ d.do = "forget" => ~Touched
    <3> HIDE DEF d
    <3>1. d = Decision(wish)
      BY DEF d
    <3>2. d # Keep
      BY <2>1 DEF d
    <3>3. d \in Plans /\ d.do # "keep"
      BY <3>1, <3>2, <1>0, <1>2, <2>2, DecisionFacts
    <3>5. seen = plant
      BY <2>1, <2>2 DEF Decision
    <3>6. ~Resting
      BY <2>1 DEF Decision
    <3>4. (d.do = "set" => ~Touched) /\ (d.do = "forget" => ~Touched)
      BY <3>1, <3>2, <1>0, <1>2, <2>2, DecisionFacts
    <3> QED BY <3>3, <3>4, <3>5, <3>6
  <2>4. Touched
    <3>1. card \in Cards /\ seenAge \in 0..Stale /\ quiet \in 0..Pause
      BY <1>0, <1>2 DEF RoomTyped, RoomTypeOK, Off
    <3>2. card.age \in 0..Forever /\ card.pause \in 0..Pause /\ card.base \in HandValues
          /\ card.offset \in Offsets \cup {0} /\ card # NoCard
      BY <3>1, CardFields
    <3>3. card.pause = 0
      BY <3>2, <2>3 DEF Resting
    <3>4. card.offset # 0 /\ plant \in HandValues /\ card.age > Grace + seenAge
      BY <1>0, <1>2, <3>1, <3>2, <3>3 DEF Off
    <3>5. plant # card.written
      BY <1>2, <3>2, <3>4 DEF GoodCard, Shifted
    <3> QED BY <2>3, <3>1, <3>2, <3>4, <3>5 DEF Touched, Applied, FreshReport
  <2>5. d.do = "stand down"
    <3> HIDE DEF d
    <3> QED BY <2>3, <2>4 DEF Plans
  <2> QED BY <1>0, <1>1, <2>1, <2>5 DEF AtRest, RoomTyped, RoomTypeOK
<1> QED BY <1>3, <1>4

LEMMA QuietTime ==
  ASSUME LeavesInv, RoomTime, quiet' > 0
  PROVE  Off(row)'
<1> USE CardFacts
<1>1. RoomTyped /\ seenAge \in 0..Stale /\ quiet \in 0..Pause /\ quiet' = IF quiet > 0 THEN quiet - 1 ELSE 0
  BY DEF LeavesInv, RoomInv, RoomTyped, RoomTypeOK, RoomTime
<1>2. quiet > 0 /\ quiet' = quiet - 1
  BY <1>1
<1>3. Off(row) /\ row \in Cards
  BY <1>1, <1>2 DEF LeavesInv, QuietKept, Off, RoomTyped, RoomTypeOK
<1>4. row.age \in 0..Forever /\ row.pause \in 0..Pause
  BY <1>3, CardFields
<1>5. row' = Older(row) /\ plant' = plant
  BY DEF RoomTime, house
<1>6. /\ row' # NoCard /\ row'.offset = row.offset
      /\ row'.age = IF row.age < Forever THEN row.age + 1 ELSE row.age
      /\ row'.pause = IF row.pause > 0 THEN row.pause - 1 ELSE 0
  BY <1>3, <1>5, OlderCard DEF Off
<1>7. seenAge' = 0 \/ (seenAge' = seenAge + 1 /\ seenAge # Stale)
  BY DEF RoomTime
<1>8. CASE row.pause >= quiet
  BY <1>1, <1>2, <1>4, <1>6, <1>8 DEF Off
<1>9. CASE row.offset # 0 /\ plant \in HandValues /\ row.age > Grace + seenAge
  <2>1. seenAge' \in 0..Stale /\ seenAge' <= seenAge + 1
    BY <1>1, <1>7
  <2>2. row'.age > Grace + seenAge'
    BY <1>1, <1>4, <1>6, <1>9, <2>1
  <2> QED BY <1>5, <1>6, <1>9, <2>2 DEF Off
<1> QED BY <1>3, <1>8, <1>9 DEF Off

LEMMA QuietStep ==
  ASSUME LeavesInv, NobodyElse, [RoomNext]_roomVars
  PROVE  QuietKept'
<1> USE CardFacts
<1>0. RoomTyped
  BY DEF LeavesInv, RoomInv
<1> SUFFICES ASSUME quiet' > 0 PROVE (\A u \in RoomTickers : AtRest(u)' \/ plan'[u].do = "stand down") /\ Off(row)'
  BY DEF QuietKept
<1>1. CASE UNCHANGED roomVars
  BY <1>1 DEF roomVars, LeavesInv, QuietKept, AtRest, Off
<1>2. ASSUME quiet > 0
      PROVE  /\ \A u \in RoomTickers : AtRest(u) \/ plan[u].do = "stand down"
             /\ Off(row)
  BY <1>2 DEF LeavesInv, QuietKept
<1>3. ASSUME NEW t \in RoomTickers, Look(t) PROVE QuietKept'
  <2>1. quiet' = quiet /\ row' = row /\ plant' = plant /\ seenAge' = seenAge
    BY <1>3 DEF Look, house
  <2>2. quiet > 0
    BY <2>1
  <2> QED BY <1>0, <1>2, <1>3, <2>1, <2>2, QuietLook, OffStays DEF QuietKept
<1>4. ASSUME NEW t \in RoomTickers, PassesBy(t) PROVE QuietKept'
  <2>1. quiet' = quiet /\ row' = row /\ plant' = plant /\ seenAge' = seenAge
    BY <1>4 DEF PassesBy, house
  <2>2. quiet > 0
    BY <2>1
  <2>3. ASSUME NEW u \in RoomTickers PROVE AtRest(u)' \/ plan'[u].do = "stand down"
    <3>1. CASE u = t
      BY <1>0, <1>4, <3>1 DEF PassesBy, Over, AtRest, RoomTyped, RoomTypeOK
    <3>2. CASE u # t
      <4>1. roomPc'[u] = roomPc[u] /\ plan'[u] = plan[u]
        BY <1>0, <1>4, <3>2 DEF PassesBy, Over, RoomTyped, RoomTypeOK
      <4> QED BY <4>1, <1>2, <2>2 DEF AtRest
    <3> QED BY <3>1, <3>2
  <2> QED BY <1>0, <1>2, <2>1, <2>2, <2>3, OffStays DEF QuietKept
<1>5. ASSUME NEW t \in RoomTickers, Remember(t) PROVE QuietKept'
  <2>1. /\ roomPc[t] = "decided" /\ ~AtRest(t) /\ plan' = plan /\ row' = row /\ plant' = plant
        /\ seenAge' = seenAge /\ roomPc' = [roomPc EXCEPT ![t] = "saving"]
        /\ quiet' = IF plan[t].do = "stand down" THEN Pause ELSE quiet
    BY <1>5 DEF Remember, GoOn, house, AtRest
  <2>2. Phase(t) /\ \A u \in RoomTickers \ {t} : AtRest(u)
    BY <2>1, OthersRest DEF LeavesInv
  <2>3. plan[t].do = "stand down"
    BY <1>2, <2>1
  <2>4. row = before[t] /\ Shifted(row) /\ plant \in HandValues /\ row.age > Grace + seenAge
    BY <2>1, <2>2, <2>3 DEF Phase, GoodPlan
  <2>5. Off(row)'
    BY <2>1, <2>4 DEF Off, Shifted
  <2>6. \A u \in RoomTickers : AtRest(u)' \/ plan'[u].do = "stand down"
    BY <1>0, <2>1, <2>2, <2>3 DEF AtRest, RoomTyped, RoomTypeOK
  <2> QED BY <2>5, <2>6 DEF QuietKept
<1>6. ASSUME NEW t \in RoomTickers, Saved(t) PROVE QuietKept'
  <2>1. roomPc[t] = "saving" /\ ~AtRest(t) /\ row' = NewCard(t) /\ quiet' = quiet
    BY <1>6 DEF Saved, AtRest
  <2>2. Phase(t) /\ \A u \in RoomTickers \ {t} : AtRest(u)
    BY <2>1, OthersRest DEF LeavesInv
  <2>3. plan[t].do = "stand down"
    BY <1>2, <2>1
  <2>4. Over(t) /\ quiet \in 0..Pause
    BY <1>0, <1>6, <2>3 DEF Saved, RoomTyped, RoomTypeOK
  <2>5. NewCard(t).pause = Pause /\ NewCard(t) # NoCard
    BY <1>0, <2>2, <2>3, NewCardFields DEF Phase
  <2>6. \A u \in RoomTickers : AtRest(u)'
    BY <1>0, <2>2, <2>4 DEF Over, AtRest, RoomTyped, RoomTypeOK
  <2>7. Off(row)'
    BY <2>1, <2>4, <2>5 DEF Off
  <2> QED BY <2>6, <2>7 DEF QuietKept
<1>7. ASSUME NEW t \in RoomTickers, Undone(t) \/ \E executed, ok \in BOOLEAN : Answered(t, executed, ok)
      PROVE  FALSE
  <2>1. quiet' = quiet /\ roomPc[t] \in {"sent", "undoing"}
    BY <1>7 DEF Undone, Answered
  <2> QED BY <2>1, QuietTicks DEF AtRest
<1>8. CASE SetAutomatik
  <2>1. /\ quiet' = quiet /\ row' = row /\ plant' = plant /\ seenAge' = seenAge /\ plan' = plan
        /\ roomPc["user"] = "idle" /\ roomPc' = [roomPc EXCEPT !["user"] = "asked"]
    BY <1>8 DEF SetAutomatik, house
  <2>2. ASSUME NEW u \in RoomTickers PROVE AtRest(u)' \/ plan'[u].do = "stand down"
    <3>1. AtRest(u) => AtRest(u)'
      BY <1>0, <2>1 DEF AtRest, RoomTyped, RoomTypeOK
    <3> QED BY <3>1, <2>1, <1>2
  <2> QED BY <1>0, <1>2, <2>1, <2>2, OffStays DEF QuietKept
<1>9. CASE RestartRooms
  <2>1. /\ quiet' = quiet /\ row' = row /\ seenAge' = 0 /\ roomPc' = [t \in RoomTickers |-> "idle"]
        /\ plant' = plant \/ \E t \in RoomTickers : roomPc[t] = "sent" /\ plant' = plan[t].to
    BY <1>9 DEF RestartRooms
  <2>2. \A t \in RoomTickers : roomPc[t] # "sent"
    BY <2>1, QuietTicks DEF AtRest
  <2>3. \A u \in RoomTickers : AtRest(u)'
    BY <2>1 DEF AtRest
  <2> QED BY <1>0, <1>2, <2>1, <2>2, <2>3, OffStays DEF QuietKept
<1>10. CASE (\E v \in HandValues : HandSets(v)) \/ ReportSetpoint
  <2>1. /\ quiet' = quiet /\ row' = row /\ roomPc' = roomPc /\ plan' = plan
        /\ plant' = plant \/ plant' \in HandValues
        /\ seenAge' = seenAge \/ seenAge' = 0
    BY <1>10 DEF HandSets, ReportSetpoint, tickVars, house
  <2> QED BY <1>0, <1>2, <2>1, OffStays DEF QuietKept, AtRest
<1>11. CASE RoomTime
  <2>1. \A u \in RoomTickers : AtRest(u)'
    BY <1>11 DEF RoomTime, tickVars, AtRest
  <2> QED BY <1>11, <2>1, QuietTime
<1> QED BY <1>1, <1>3, <1>4, <1>5, <1>6, <1>7, <1>8, <1>9, <1>10, <1>11 DEF RoomNext, QuietKept

\* After somebody has set the room by hand the automatic sends it nothing for the
\* whole pause (RUHE_NACH_EINGRIFF_H), however long it is and however often the API
\* restarts, before the stand-down is in the database or after.
THEOREM RoomLeftAlone == NobodyElse => (RoomSpec => LeavesAlone)
<1> SUFFICES ASSUME NobodyElse PROVE RoomSpec => LeavesAlone
  OBVIOUS
<1>1. RoomInit => LeavesInv
  BY RoomStarts DEF LeavesInv, QuietKept, RoomInit
<1>2. LeavesInv /\ [RoomNext]_roomVars => LeavesInv'
  BY RoomStep, QuietStep DEF LeavesInv
<1>3. LeavesInv /\ [RoomNext]_roomVars
        => [\A t \in RoomTickers : quiet > 0 => roomPc'[t] # "sent"]_roomVars
  <2> SUFFICES ASSUME LeavesInv, RoomNext, quiet > 0, NEW t \in RoomTickers, roomPc'[t] = "sent"
               PROVE  FALSE
    OBVIOUS
  <2>0. RoomTyped
    BY DEF LeavesInv, RoomInv
  <2>1. roomPc[t] # "sent"
    BY QuietTicks DEF AtRest
  <2>2. ASSUME NEW u \in RoomTickers, Look(u) \/ PassesBy(u) \/ Remember(u) \/ Undone(u)
                 \/ \E executed, ok \in BOOLEAN : Answered(u, executed, ok)
        PROVE  FALSE
    <3>1. \E pc \in {"idle", "decided", "saving", "undoing"} : roomPc' = [roomPc EXCEPT ![u] = pc]
      BY <2>2 DEF Look, PassesBy, Remember, Undone, Answered, Over, GoOn
    <3> QED BY <2>0, <2>1, <3>1 DEF RoomTyped, RoomTypeOK
  <2>3. ASSUME NEW u \in RoomTickers, Saved(u) PROVE FALSE
    <3>1. ~AtRest(u)
      BY <2>3 DEF Saved, AtRest
    <3>2. plan[u].do = "stand down"
      BY <3>1, QuietTicks
    <3>3. roomPc' = [roomPc EXCEPT ![u] = "idle"]
      BY <2>3, <3>2 DEF Saved, Over
    <3> QED BY <2>0, <2>1, <3>3 DEF RoomTyped, RoomTypeOK
  <2>4. CASE SetAutomatik \/ RestartRooms \/ ReportSetpoint \/ RoomTime \/ \E v \in HandValues : HandSets(v)
    BY <2>0, <2>1, <2>4 DEF SetAutomatik, RestartRooms, ReportSetpoint, RoomTime, HandSets, tickVars,
                            RoomTyped, RoomTypeOK
  <2> QED BY <2>2, <2>3, <2>4 DEF RoomNext
<1> QED BY <1>1, <1>2, <1>3, PTL DEF RoomSpec, LeavesAlone

----------------------------------------------------------------------------
(* The way back.                                                              *)

\* The hypothesis of the last theorem: nobody sets the room while the automatic does.
NothingElse == Mishaps = {}

\* A tick that sets the room counts from what a person set.
LEMMA SetsFromHand ==
  ASSUME WayInv, NothingElse, NEW t \in RoomTickers, Look(t), ~AtRest(t)'
  PROVE  /\ before'[t] = card /\ BaseRight(card)
         /\ plan'[t].do = "set" => plan'[t].base = hand
<1> USE CardFacts
<1>0. RoomTyped /\ NobodyElse
  BY DEF WayInv, RoomInv, NobodyElse, NothingElse
<1>1. \A u \in RoomTickers : AtRest(u)
  BY DEF NothingElse, Look, Alone, AtRest
<1>2. card = row /\ GoodCard(card) /\ BaseRight(card)
  BY <1>1 DEF WayInv, RoomInv, RestRight, HandStands
<1>3. ~Over(t)
  BY <1>0 DEF Over, AtRest, RoomTyped, RoomTypeOK
<1>4. PICK wish \in Wishes :
        /\ Decision(wish) # Keep /\ plan' = [plan EXCEPT ![t] = Decision(wish)]
        /\ before' = [before EXCEPT ![t] = card]
  BY <1>3 DEF Look
<1>5. wish \in Offsets \cup {0} /\ seen \in {plant, NoValue}
  BY DEF Wishes, Look, NothingElse
<1> DEFINE d == Decision(wish)
<1>6. plan'[t] = d /\ before'[t] = card
  BY <1>0, <1>4 DEF RoomTyped, RoomTypeOK
<1>7. ASSUME d.do = "set" PROVE d.base = hand
  <2>1. seen = plant
    BY <1>4, <1>5 DEF Decision
  <2>2. d.base = Base /\ d.base \in HandValues /\ ~Touched
    <3> HIDE DEF d
    <3>1. d = Decision(wish)
      BY DEF d
    <3>2. d # Keep
      BY <1>4 DEF d
    <3> QED BY <3>1, <3>2, <1>0, <1>2, <1>5, <1>7, DecisionFacts
  <2> HIDE DEF d
  <2>3. CASE ~Applied
    <3>1. plant \in HandValues /\ d.base = plant
      BY <2>1, <2>2, <2>3 DEF Base
    <3> QED BY <3>1 DEF WayInv, HandStands
  <2>4. CASE Applied
    <3>1. d.base = card.base /\ Shifted(card)
      BY <2>2, <2>4 DEF Base, Applied, Shifted
    <3>2. CASE card.base # hand
      <4>1. plant = hand /\ card.age > Grace + Stale
        BY <1>2, <3>1, <3>2 DEF BaseRight
      <4>2. card \in Cards /\ seenAge \in 0..Stale /\ hand \in HandValues
        BY <1>0, <3>1 DEF RoomTyped, RoomTypeOK, Shifted
      <4>3. card.age \in 0..Forever /\ card.base \in HandValues /\ card.offset \in Offsets
        BY <3>1, <4>2, CardFields DEF Shifted
      <4>4. FreshReport
        BY <4>1, <4>2, <4>3 DEF FreshReport
      <4>5. seen # card.written
        BY <1>2, <2>1, <3>1, <4>1, <4>2, <4>3 DEF GoodCard
      <4> QED BY <2>2, <2>4, <4>4, <4>5 DEF Touched
    <3> QED BY <3>1, <3>2
  <2> QED BY <2>3, <2>4
<1> QED BY <1>2, <1>6, <1>7

\* A step that moves neither the room nor the cards.
LEMMA HandKept ==
  ASSUME WayInv, plant' = plant, hand' = hand, card' = card,
         \A t \in RoomTickers :
            \/ AtRest(t) /\ AtRest(t)'
            \/ roomPc'[t] = roomPc[t] /\ plan'[t] = plan[t] /\ before'[t] = before[t]
  PROVE  HandStands'
<1>1. \A t \in RoomTickers : AtRest(t)' <=> AtRest(t)
  BY DEF AtRest
<1>2. ASSUME NEW t \in RoomTickers, ~AtRest(t)'
      PROVE  (BaseRight(before[t]) /\ (plan[t].do = "set" => plan[t].base = hand))'
  <2>1. ~AtRest(t) /\ roomPc'[t] = roomPc[t] /\ plan'[t] = plan[t] /\ before'[t] = before[t]
    BY <1>1, <1>2
  <2> QED BY <2>1 DEF WayInv, HandStands, BaseRight
<1> QED BY <1>1, <1>2 DEF WayInv, HandStands, BaseRight

\* A tick that goes on, its plan and what it had read unchanged.
LEMMA HandGoesOn ==
  ASSUME WayInv, NEW t \in RoomTickers, ~AtRest(t), plant' = plant, hand' = hand,
         NEW pc \in {"decided", "saving", "sent", "undoing"},
         roomPc' = [roomPc EXCEPT ![t] = pc], plan' = plan, before' = before
  PROVE  HandStands'
<1>1. ~AtRest(t)' /\ \A u \in RoomTickers \ {t} : AtRest(u)'
  BY OthersRest DEF WayInv, RoomInv, RoomTyped, RoomTypeOK, AtRest
<1>2. BaseRight(before[t]) /\ (plan[t].do = "set" => plan[t].base = hand)
  BY DEF WayInv, HandStands
<1> QED BY <1>1, <1>2 DEF WayInv, HandStands, BaseRight

\* A tick that is over.
LEMMA HandOver ==
  ASSUME WayInv, NEW t \in RoomTickers, ~AtRest(t), Over(t),
         (plant \in HandValues)' => plant' = hand', BaseRight(card)'
  PROVE  HandStands'
<1>1. \A u \in RoomTickers : AtRest(u)'
  BY OthersRest DEF WayInv, RoomInv, RoomTyped, RoomTypeOK, AtRest, Over
<1> QED BY <1>1 DEF HandStands

LEMMA HandLook ==
  ASSUME WayInv, NothingElse, NEW t \in RoomTickers, Look(t)
  PROVE  HandStands'
<1>0. RoomTyped /\ plant' = plant /\ hand' = hand /\ card' = card
  BY DEF WayInv, RoomInv, Look, house
<1>1. \A u \in RoomTickers : AtRest(u)
  BY DEF NothingElse, Look, Alone, AtRest
<1>2. BaseRight(card) /\ (plant \in HandValues => plant = hand)
  BY <1>1 DEF WayInv, HandStands
<1>3. \E pc \in {"idle", "decided"} : roomPc' = [roomPc EXCEPT ![t] = pc]
  BY DEF Look, Over
<1>4. \A u \in RoomTickers \ {t} : AtRest(u)'
  BY <1>0, <1>1, <1>3 DEF AtRest, RoomTyped, RoomTypeOK
<1>5. CASE AtRest(t)'
  BY <1>0, <1>2, <1>4, <1>5 DEF HandStands, BaseRight
<1>6. CASE ~AtRest(t)'
  <2>1. BaseRight(before[t])' /\ (plan'[t].do = "set" => plan'[t].base = hand')
    BY <1>0, <1>6, SetsFromHand DEF BaseRight
  <2> QED BY <1>0, <1>2, <1>4, <1>6, <2>1 DEF HandStands
<1> QED BY <1>5, <1>6

LEMMA HandSaved ==
  ASSUME WayInv, NEW t \in RoomTickers, Saved(t)
  PROVE  HandStands'
<1>1. /\ RoomTyped /\ RoomInv /\ roomPc[t] = "saving" /\ ~AtRest(t)
      /\ plant' = plant /\ hand' = hand /\ card' = card
  BY DEF WayInv, RoomInv, Saved, house, AtRest
<1>2. Phase(t)
  BY <1>1, OthersRest
<1>3. CASE plan[t].do = "set"
  BY <1>1, <1>3, HandGoesOn DEF Saved, GoOn
<1>4. CASE plan[t].do # "set"
  <2>1. plan[t].do \in {"stand down", "forget"}
    BY <1>1, <1>2, <1>4 DEF Phase, RoomTyped, Plans
  <2>2. card = NewCard(t) /\ GoodPlan(t)
    BY <1>1, <1>2 DEF Phase
  <2>3. ~Shifted(card)
    BY <1>1, <2>1, <2>2, NewCardFields DEF Shifted
  <2>4. BaseRight(card)'
    BY <1>1, <2>3 DEF BaseRight, Shifted
  <2>5. Over(t)
    BY <1>4 DEF Saved
  <2> QED BY <1>1, <2>4, <2>5, HandOver DEF WayInv, HandStands
<1> QED BY <1>3, <1>4

\* Where the automatic has set the room to is a value of a person only if it is the
\* way back.
LEMMA SetTo ==
  ASSUME WayInv, NEW t \in RoomTickers, roomPc[t] \in {"sent", "undoing"}
  PROVE  /\ plan[t].do = "set" /\ plan[t].base = hand /\ hand \in HandValues
         /\ row = NewCard(t) /\ row.base = hand /\ row # NoCard
         /\ plan[t].to \in HandValues => plan[t].to = hand
<1> USE CardFacts
<1>1. RoomTyped /\ RoomInv /\ ~AtRest(t)
  BY DEF WayInv, RoomInv, AtRest
<1>2. Phase(t)
  BY <1>1, OthersRest
<1>3. plan[t].do = "set" /\ row = NewCard(t) /\ GoodPlan(t)
  BY <1>2 DEF Phase
<1>4. plan[t].base = hand /\ hand \in HandValues
  BY <1>1, <1>3 DEF WayInv, HandStands, RoomTyped, RoomTypeOK
<1>5. plan[t].to = hand + plan[t].offset /\ plan[t].offset \in Offsets \cup {0}
  BY <1>1, <1>3, <1>4 DEF GoodPlan, RoomTyped, Plans
<1>6. plan[t].to \in HandValues => plan[t].to = hand
  <2>1. CASE plan[t].offset = 0
    BY <1>4, <1>5, <2>1
  <2>2. CASE plan[t].offset # 0
    BY <1>4, <1>5, <2>2
  <2> QED BY <2>1, <2>2
<1>7. row.base = hand /\ row # NoCard
  BY <1>1, <1>3, <1>4, NewCardFields
<1> QED BY <1>3, <1>4, <1>6, <1>7

LEMMA HandAnswered ==
  ASSUME WayInv, NothingElse, NEW t \in RoomTickers,
         NEW executed \in BOOLEAN, NEW ok \in BOOLEAN, Answered(t, executed, ok)
  PROVE  HandStands'
<1>1. RoomTyped /\ RoomInv /\ roomPc[t] = "sent" /\ ~AtRest(t) /\ hand' = hand
  BY DEF WayInv, RoomInv, Answered, AtRest
<1>2. /\ plan[t].do = "set" /\ plan[t].base = hand /\ row = NewCard(t) /\ row.base = hand
      /\ plan[t].to \in HandValues => plan[t].to = hand
  BY <1>1, SetTo
<1>3. CASE ok
  <2>1. plant' = plan[t].to /\ card' = card /\ Over(t)
    BY <1>3 DEF Answered
  <2>2. card = row
    BY <1>1, <1>2, OthersRest DEF Phase
  <2>3. BaseRight(card)'
    BY <1>1, <1>2, <2>1, <2>2 DEF BaseRight
  <2> QED BY <1>1, <1>2, <2>1, <2>3, HandOver
<1>4. CASE ~ok
  BY <1>1, <1>4, HandGoesOn DEF Answered, GoOn, NothingElse
<1> QED BY <1>3, <1>4

LEMMA HandRestart ==
  ASSUME WayInv, NothingElse, RestartRooms
  PROVE  HandStands'
<1>1. RoomTyped /\ RoomInv /\ card' = row /\ row' = row /\ hand' = hand /\ roomPc' = [t \in RoomTickers |-> "idle"]
  BY DEF WayInv, RoomInv, RestartRooms
<1>2. plant' = plant \/ \E t \in RoomTickers : roomPc[t] = "sent" /\ plant' = plan[t].to
  BY DEF RestartRooms
<1>3. \A t \in RoomTickers : AtRest(t)'
  BY <1>1 DEF AtRest
<1>4. plant' \in HandValues => plant' = hand
  BY <1>2, SetTo DEF WayInv, HandStands
<1>5. BaseRight(row)'
  <2>1. CASE \A t \in RoomTickers : AtRest(t)
    <3>1. BaseRight(card) /\ card = row /\ plant' = plant
      BY <1>2, <2>1 DEF WayInv, RoomInv, RestRight, HandStands, AtRest
    <3> QED BY <1>1, <3>1 DEF BaseRight, RestartRooms
  <2>2. ASSUME NEW t \in RoomTickers, roomPc[t] \in {"sent", "undoing"} PROVE BaseRight(row)'
    BY <1>1, <2>2, SetTo DEF BaseRight, RestartRooms
  <2>3. ASSUME NEW t \in RoomTickers, roomPc[t] \in {"decided", "saving"} PROVE BaseRight(row)'
    <3>1. ~AtRest(t)
      BY <2>3 DEF AtRest
    <3>2. row = before[t] /\ BaseRight(before[t]) /\ \A u \in RoomTickers \ {t} : AtRest(u)
      BY <1>1, <2>3, <3>1, OthersRest DEF Phase, WayInv, HandStands
    <3>3. plant' = plant
      BY <1>2, <2>3, <3>2 DEF AtRest
    <3> QED BY <1>1, <3>2, <3>3 DEF BaseRight, RestartRooms
  <2> QED BY <1>1, <2>1, <2>2, <2>3 DEF AtRest, RoomTyped, RoomTypeOK
<1> QED BY <1>1, <1>3, <1>4, <1>5 DEF HandStands, BaseRight

LEMMA HandTime ==
  ASSUME WayInv, RoomTime
  PROVE  HandStands'
<1> USE CardFacts
<1>1. /\ RoomTyped /\ plant' = plant /\ hand' = hand /\ card' = Older(card) /\ roomPc' = roomPc
      /\ \A t \in RoomTickers : AtRest(t) /\ AtRest(t)'
  BY DEF WayInv, RoomInv, RoomTime, house, tickVars, AtRest
<1>2. BaseRight(card) /\ card \in Cards \cup {NoCard}
  BY <1>1 DEF WayInv, HandStands, RoomTyped, RoomTypeOK
<1>3. BaseRight(card)'
  <2>1. CASE card = NoCard
    BY <1>1, <2>1 DEF Older, BaseRight, Shifted
  <2>2. CASE card \in Cards
    <3>1. card.age \in 0..Forever
      BY <2>2, CardFields
    <3>2. /\ (Older(card) = NoCard <=> card = NoCard)
          /\ Older(card).base = card.base /\ Older(card).offset = card.offset
          /\ Older(card).age = IF card.age < Forever THEN card.age + 1 ELSE card.age
      BY <2>2, OlderCard
    <3>3. card.age > Grace + Stale => Older(card).age > Grace + Stale
      BY <3>1, <3>2
    <3> QED BY <1>1, <1>2, <3>2, <3>3 DEF BaseRight, Shifted
  <2> QED BY <1>2, <2>1, <2>2
<1> QED BY <1>1, <1>3 DEF WayInv, HandStands, BaseRight

LEMMA HandStep ==
  ASSUME WayInv, NothingElse, [RoomNext]_roomVars
  PROVE  HandStands'
<1>0. RoomTyped /\ RoomInv
  BY DEF WayInv, RoomInv
<1>1. CASE UNCHANGED roomVars
  BY <1>1, HandKept DEF roomVars
<1>2. ASSUME NEW t \in RoomTickers, PassesBy(t) PROVE HandStands'
  <2>1. ASSUME NEW u \in RoomTickers
        PROVE  \/ AtRest(u) /\ AtRest(u)'
               \/ roomPc'[u] = roomPc[u] /\ plan'[u] = plan[u] /\ before'[u] = before[u]
    <3>1. CASE u = t
      BY <1>0, <1>2, <3>1 DEF PassesBy, AtRest, Over, RoomTyped, RoomTypeOK
    <3>2. CASE u # t
      BY <1>0, <1>2, <3>2 DEF PassesBy, Over, RoomTyped, RoomTypeOK
    <3> QED BY <3>1, <3>2
  <2> QED BY <1>2, <2>1, HandKept DEF PassesBy, house
<1>3. ASSUME NEW t \in RoomTickers, Remember(t) PROVE HandStands'
  BY <1>3, HandGoesOn DEF Remember, GoOn, house, AtRest
<1>4. ASSUME NEW t \in RoomTickers, Undone(t) PROVE HandStands'
  <2>1. ~AtRest(t) /\ roomPc[t] = "undoing" /\ plant' = plant /\ hand' = hand /\ card' = card /\ Over(t)
    BY <1>4 DEF Undone, house, AtRest
  <2>2. card = before[t] /\ BaseRight(before[t])
    BY <1>0, <2>1, OthersRest DEF Phase, WayInv, HandStands
  <2>3. BaseRight(card)'
    BY <2>1, <2>2 DEF BaseRight
  <2> QED BY <2>1, <2>3, HandOver DEF WayInv, HandStands
<1>5. CASE SetAutomatik
  <2>1. ASSUME NEW u \in RoomTickers
        PROVE  \/ AtRest(u) /\ AtRest(u)'
               \/ roomPc'[u] = roomPc[u] /\ plan'[u] = plan[u] /\ before'[u] = before[u]
    BY <1>0, <1>5 DEF SetAutomatik, AtRest, RoomTyped, RoomTypeOK
  <2> QED BY <1>5, <2>1, HandKept DEF SetAutomatik, house
<1>6. ASSUME NEW v \in HandValues, HandSets(v) PROVE HandStands'
  <2>1. Calm /\ plant' = v /\ hand' = v /\ card' = card /\ roomPc' = roomPc
    BY <1>6 DEF HandSets, NothingElse, tickVars
  <2>2. \A t \in RoomTickers : AtRest(t)'
    BY <2>1 DEF Calm, AtRest
  <2>3. BaseRight(card)'
    BY <2>1 DEF Calm, BaseRight, Applied, Shifted
  <2> QED BY <2>1, <2>2, <2>3 DEF HandStands
<1>7. CASE ReportSetpoint
  BY <1>7, HandKept DEF ReportSetpoint, house, tickVars
<1> QED BY <1>1, <1>2, <1>3, <1>4, <1>5, <1>6, <1>7, HandLook, HandSaved, HandAnswered, HandRestart, HandTime
        DEF RoomNext

\* A room that does not stand where a person set it has the way back in the
\* database, whatever fails and whenever the API restarts: _room_shift_eins saves
\* before it sends and takes back what failed.
THEOREM RoomWayBack == NothingElse => (RoomSpec => []WayBack)
<1> SUFFICES ASSUME NothingElse PROVE RoomSpec => []WayBack
  OBVIOUS
<1>0. NobodyElse
  BY DEF NobodyElse, NothingElse
<1>1. RoomInit => WayInv
  <2> SUFFICES ASSUME RoomInit PROVE HandStands
    BY RoomStarts DEF WayInv
  <2>1. \A t \in RoomTickers : AtRest(t)
    BY DEF RoomInit, AtRest
  <2> QED BY <2>1 DEF RoomInit, HandStands, BaseRight, Shifted
<1>2. WayInv /\ [RoomNext]_roomVars => WayInv'
  BY <1>0, RoomStep, HandStep DEF WayInv
<1>3. WayInv => WayBack
  <2> SUFFICES ASSUME WayInv, plant # hand
               PROVE  /\ row # NoCard /\ row.base = hand
                      /\ (\A t \in RoomTickers : AtRest(t)) => card = row
    BY DEF WayBack, AtRest
  <2>0. RoomInv /\ RoomTyped /\ plant \notin HandValues
    BY DEF WayInv, RoomInv, HandStands
  <2>1. (\A t \in RoomTickers : AtRest(t)) => card = row
    BY <2>0 DEF RoomInv, RestRight
  <2>2. CASE \A t \in RoomTickers : AtRest(t)
    BY <2>0, <2>1, <2>2 DEF WayInv, RoomInv, RestRight, HandStands, BaseRight, GoodCard, Shifted
  <2>3. ASSUME NEW t \in RoomTickers, roomPc[t] \in {"sent", "undoing"} PROVE row # NoCard /\ row.base = hand
    BY <2>3, SetTo
  <2>4. ASSUME NEW t \in RoomTickers, roomPc[t] \in {"decided", "saving"} PROVE row # NoCard /\ row.base = hand
    <3>1. ~AtRest(t)
      BY <2>4 DEF AtRest
    <3>2. row = before[t] /\ GoodCard(before[t]) /\ BaseRight(before[t])
      BY <2>0, <2>4, <3>1, OthersRest DEF Phase, WayInv, HandStands
    <3> QED BY <2>0, <3>2 DEF BaseRight, GoodCard, Shifted
  <2> QED BY <2>0, <2>1, <2>2, <2>3, <2>4 DEF AtRest, RoomTyped, RoomTypeOK
<1> QED BY <1>1, <1>2, <1>3, PTL DEF RoomSpec

----------------------------------------------------------------------------
(* The battery.                                                               *)

\* No two calls at a time, and a failure means that nothing was done.
CallsAreClear == BatteryMishaps = {}

OneCall == \A s, r \in Senders : s # r => Idle(s) \/ Idle(r)
\* A call the cloud has carried out is what the battery does; before that the battery
\* does what was sent last.
CallKnown ==
  /\ \A s \in Senders : Idle(s) => ~carried[s]
  /\ \A s \in Senders : carried[s] => libbi = call[s]
  /\ (\A s \in Senders : ~carried[s]) /\ sent # "none" => libbi = sent

\* BatteryTypeOK, conjunct by conjunct.
BatteryTyped ==
  /\ call \in [Senders -> Commands \cup {"none"}] /\ carried \in [Senders -> BOOLEAN]
  /\ libbi \in Commands /\ sent \in Commands \cup {"none"} /\ noted \in Commands \cup {"none"}
  /\ soc \in {"below", "edge", "above", "unknown"} /\ batteryMode \in {"auto", "normal", "hold", "off"}
  /\ sun \in BOOLEAN /\ known \in BOOLEAN
  /\ holdLeft \in 0..HoldFor /\ notedAgo \in 0..ReportGap

BatteryInv == BatteryTyped /\ OneCall /\ CallKnown

\* What the battery is told is a command.
LEMMA WantedTyped ==
  ASSUME NEW mode \in {"auto", "normal", "hold", "off"}
  PROVE  Wanted(mode) \in Commands \cup {"none"}
<1>1. Reserve \in Commands
  BY DEF Reserve, Commands
<1>2. CASE mode = "auto"  BY <1>1, <1>2 DEF Wanted
<1>3. CASE mode = "normal"  BY <1>3 DEF Wanted, Commands
<1>4. CASE mode = "hold"  BY <1>4 DEF Wanted, Commands
<1>5. CASE mode = "off"  BY <1>5 DEF Wanted
<1> QED BY <1>2, <1>3, <1>4, <1>5

LEMMA BatteryTypes == BatteryTyped => BatteryTypeOK
<1> SUFFICES ASSUME BatteryTyped PROVE BatteryTypeOK
  OBVIOUS
<1>1. {libbi} \cup {call[s] : s \in Senders} \cup {sent, noted} \subseteq Commands \cup {"none"}
  BY DEF BatteryTyped
<1> QED BY <1>1 DEF BatteryTyped, BatteryTypeOK

LEMMA BatteryStarts == BatteryInit => BatteryInv
<1> SUFFICES ASSUME BatteryInit PROVE BatteryInv
  OBVIOUS
<1>1. \A s \in Senders : Idle(s) /\ ~carried[s]
  BY DEF BatteryInit, Idle
<1>2. /\ call \in [Senders -> Commands \cup {"none"}] /\ carried \in [Senders -> BOOLEAN]
      /\ libbi \in Commands /\ sent \in Commands \cup {"none"} /\ noted \in Commands \cup {"none"}
  BY DEF BatteryInit
<1>3. soc \in {"below", "edge", "above", "unknown"} /\ batteryMode \in {"auto", "normal", "hold", "off"}
  BY DEF BatteryInit
<1>4. sun \in BOOLEAN /\ known \in BOOLEAN
  BY DEF BatteryInit
<1>5. holdLeft \in 0..HoldFor /\ notedAgo \in 0..ReportGap
  <2>1. HoldFor \in Nat /\ ReportGap \in Nat
    BY BatteryAssumption DEF BatteryAssumption
  <2>2. holdLeft = 0 /\ notedAgo = ReportGap
    BY DEF BatteryInit
  <2> QED BY <2>1, <2>2
<1>6. sent = "none"
  BY DEF BatteryInit
<1> QED BY <1>1, <1>2, <1>3, <1>4, <1>5, <1>6 DEF BatteryInv, BatteryTyped, OneCall, CallKnown

\* A step that touches neither the calls nor what the battery does.
LEMMA CallsKept ==
  ASSUME BatteryInv, UNCHANGED <<call, carried, libbi, sent>>
  PROVE  OneCall' /\ CallKnown'
BY DEF BatteryInv, OneCall, CallKnown, Idle

\* _apply_battery up to the await.
LEMMA ApplyKeeps ==
  ASSUME BatteryInv, CallsAreClear, NEW s \in Senders, NEW mode \in {"auto", "normal", "hold", "off"},
         Free(s), Apply(s, mode), libbi' = libbi, sent' = sent
  PROVE  /\ call' \in [Senders -> Commands \cup {"none"}] /\ carried' \in [Senders -> BOOLEAN]
         /\ OneCall' /\ CallKnown'
<1>1. BatteryTyped /\ Wanted(mode) \in Commands \cup {"none"}
  BY WantedTyped DEF BatteryInv
<1>2. \A r \in Senders : Idle(r)
  BY DEF Free, CallsAreClear
<1>3. CASE UNCHANGED <<call, carried>>
  BY <1>1, <1>3, CallsKept DEF BatteryTyped
<1>4. CASE call' = [call EXCEPT ![s] = Wanted(mode)] /\ carried' = [carried EXCEPT ![s] = FALSE]
  <2>1. \A r \in Senders : ~carried[r]
    BY <1>2 DEF BatteryInv, CallKnown
  <2>2. \A r \in Senders : ~carried'[r]
    BY <1>1, <1>4, <2>1 DEF BatteryTyped
  <2>3. call' \in [Senders -> Commands \cup {"none"}]
    BY <1>1, <1>4 DEF BatteryTyped
  <2>4. carried' \in [Senders -> BOOLEAN]
    BY <1>1, <1>4 DEF BatteryTyped
  <2>5. OneCall'
    BY <1>1, <1>2, <1>4 DEF OneCall, Idle, BatteryTyped
  <2>6. CallKnown'
    BY <2>1, <2>2 DEF BatteryInv, CallKnown
  <2> QED BY <2>3, <2>4, <2>5, <2>6
<1> QED BY <1>3, <1>4 DEF Apply

LEMMA BatteryStep ==
  ASSUME BatteryInv, CallsAreClear, [BatteryNext]_batteryVars
  PROVE  BatteryInv'
<1>0. BatteryTyped /\ ReportGap \in Nat /\ HoldFor \in Nat \ {0}
  BY BatteryAssumption DEF BatteryInv, BatteryAssumption
<1>1. CASE UNCHANGED batteryVars
  BY <1>0, <1>1, CallsKept DEF batteryVars, BatteryInv, BatteryTyped
<1>2. CASE BatteryLoop
  <2>1. /\ Free("loop") /\ Apply("loop", batteryMode)
        /\ UNCHANGED <<libbi, soc, sun, batteryMode, holdLeft, sent, known, noted, notedAgo>>
    BY <1>2 DEF BatteryLoop, pollVars
  <2>2. batteryMode \in {"auto", "normal", "hold", "off"} /\ "loop" \in Senders
    BY <1>0 DEF BatteryTyped, Senders
  <2> QED BY <1>0, <2>1, <2>2, ApplyKeeps DEF BatteryInv, BatteryTyped
<1>3. ASSUME NEW m \in {"auto", "normal", "hold", "off"}, SetBatteryMode(m) PROVE BatteryInv'
  <2>1. /\ Free("request") /\ Apply("request", m) /\ batteryMode' = m
        /\ UNCHANGED <<libbi, soc, sun, sent, known, noted, notedAgo>> /\ "request" \in Senders
    BY <1>3 DEF SetBatteryMode, pollVars, Senders
  <2>2. holdLeft' \in 0..HoldFor
    BY <1>0, <1>3 DEF SetBatteryMode
  <2> QED BY <1>0, <2>1, <2>2, ApplyKeeps DEF BatteryInv, BatteryTyped
<1>4. ASSUME NEW s \in Senders, CarriesOut(s) PROVE BatteryInv'
  <2>1. /\ ~Idle(s) /\ ~carried[s] /\ carried' = [carried EXCEPT ![s] = TRUE] /\ libbi' = call[s]
        /\ UNCHANGED <<soc, sun, batteryMode, holdLeft, sent, call, known, noted, notedAgo>>
    BY <1>4 DEF CarriesOut, pollVars
  <2>2. call[s] \in Commands
    BY <1>0, <2>1 DEF BatteryTyped, Idle
  <2>3. \A r \in Senders : r # s => Idle(r) /\ ~carried[r]
    BY <2>1 DEF BatteryInv, OneCall, CallKnown
  <2>4. OneCall'
    BY <2>1 DEF BatteryInv, OneCall, Idle
  <2>5. carried'[s] /\ \A r \in Senders : r # s => ~carried'[r]
    BY <1>0, <2>1, <2>3 DEF BatteryTyped
  <2>6. CallKnown'
    BY <2>1, <2>3, <2>5 DEF CallKnown, Idle
  <2>7. carried' \in [Senders -> BOOLEAN]
    BY <1>0, <2>1 DEF BatteryTyped
  <2>8. BatteryTyped'
    BY <1>0, <2>1, <2>2, <2>7 DEF BatteryTyped
  <2> QED BY <2>4, <2>6, <2>8 DEF BatteryInv
<1>5. ASSUME NEW s \in Senders, NEW ok \in BOOLEAN, CloudAnswers(s, ok) PROVE BatteryInv'
  <2>1. /\ ~Idle(s) /\ (ok => carried[s]) /\ (carried[s] => ok)
        /\ sent' = IF ok THEN call[s] ELSE sent
        /\ call' = [call EXCEPT ![s] = "none"] /\ carried' = [carried EXCEPT ![s] = FALSE]
        /\ UNCHANGED <<libbi, soc, sun, batteryMode, holdLeft, known, noted, notedAgo>>
    BY <1>5 DEF CloudAnswers, SentAfter, pollVars, CallsAreClear
  <2>2. sent' \in Commands \cup {"none"}
    BY <1>0, <2>1 DEF BatteryTyped
  <2>3. \A r \in Senders : r # s => Idle(r) /\ ~carried[r]
    BY <2>1 DEF BatteryInv, OneCall, CallKnown
  <2>4. \A r \in Senders : ~carried'[r] /\ call'[r] = "none"
    BY <1>0, <2>1, <2>3 DEF BatteryTyped, Idle
  <2>5. OneCall'
    BY <2>4 DEF OneCall, Idle
  <2>6. sent' # "none" => libbi' = sent'
    <3>1. CASE ok
      BY <2>1, <3>1 DEF BatteryInv, CallKnown
    <3>2. CASE ~ok
      <4>1. \A r \in Senders : ~carried[r]
        BY <2>1, <2>3, <3>2
      <4> QED BY <2>1, <3>2, <4>1 DEF BatteryInv, CallKnown
    <3> QED BY <3>1, <3>2
  <2>7. CallKnown'
    BY <2>4, <2>6 DEF CallKnown
  <2>8. carried' \in [Senders -> BOOLEAN] /\ call' \in [Senders -> Commands \cup {"none"}]
    BY <1>0, <2>1 DEF BatteryTyped
  <2>9. BatteryTyped'
    BY <1>0, <2>1, <2>2, <2>8 DEF BatteryTyped
  <2> QED BY <2>5, <2>7, <2>9 DEF BatteryInv
<1>6. CASE PollBattery
  <2>1. UNCHANGED <<libbi, soc, sun, batteryMode, holdLeft, sent, call, carried>> /\ known' = TRUE
    BY <1>6 DEF PollBattery, callVars
  <2>2. noted' \in Commands \cup {"none"} /\ notedAgo' \in 0..ReportGap
    BY <1>0, <1>6 DEF PollBattery, BatteryTyped
  <2>3. known' \in BOOLEAN
    BY <2>1
  <2> QED BY <1>0, <2>1, <2>2, <2>3, CallsKept DEF BatteryInv, BatteryTyped
<1>7. CASE BatteryTime
  <2>1. /\ UNCHANGED <<libbi, sent, call, carried, known, noted>> /\ sun' \in BOOLEAN
        /\ soc' \in {"below", "edge", "above", "unknown"}
        /\ holdLeft' = IF holdLeft > 0 THEN holdLeft - 1 ELSE 0
        /\ batteryMode' = IF holdLeft = 1 THEN "off" ELSE batteryMode
        /\ notedAgo' = IF notedAgo < ReportGap THEN notedAgo + 1 ELSE notedAgo
    BY <1>7 DEF BatteryTime, callVars
  <2>2. holdLeft' \in 0..HoldFor /\ notedAgo' \in 0..ReportGap
    BY <1>0, <2>1 DEF BatteryTyped
  <2>3. batteryMode' \in {"auto", "normal", "hold", "off"}
    BY <1>0, <2>1 DEF BatteryTyped
  <2> QED BY <1>0, <2>1, <2>2, <2>3, CallsKept DEF BatteryInv, BatteryTyped
<1> QED BY <1>1, <1>2, <1>3, <1>4, <1>5, <1>6, <1>7 DEF BatteryNext

\* What DCH takes for sent is what the battery does, whenever no call is on its way:
\* _apply_battery records a command only when the cloud has carried it out, and the
\* next round sends again what failed.
THEOREM BatterySentIsTrue == CallsAreClear => (BatterySpec => [](BatteryTypeOK /\ SentIsTrue))
<1> SUFFICES ASSUME CallsAreClear PROVE BatterySpec => [](BatteryTypeOK /\ SentIsTrue)
  OBVIOUS
<1>1. BatteryInit => BatteryInv
  BY BatteryStarts
<1>2. BatteryInv /\ [BatteryNext]_batteryVars => BatteryInv'
  BY BatteryStep
<1>3. BatteryInv => BatteryTypeOK /\ SentIsTrue
  BY BatteryTypes DEF BatteryInv, CallKnown, SentIsTrue
<1> QED BY <1>1, <1>2, <1>3, PTL DEF BatterySpec
=============================================================================
