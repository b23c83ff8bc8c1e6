----------------------------- MODULE RoomShift -----------------------------
(***************************************************************************)
(* The automatic that shifts the setpoint of a room by price, for one      *)
(* room: entscheide decides, LiveRuntime._room_shift_eins carries it out   *)
(* (way back into the database, then the command, then perhaps the way     *)
(* back undone), ContromeRooms sets and reports.  People set the room too. *)
(* A temperature is an integer, a tolerance of 0.05 K is equality.  The    *)
(* unit of time is the period of the automatic, in which a command is      *)
(* executed or lost for good.                                              *)
(***************************************************************************)
EXTENDS Integers

CONSTANTS
  HandValues,    \* what people set
  Offsets,       \* what the prices ask for, besides nothing: delta_k, -draw_k
  Grace,         \* GNADENFRIST_MIN
  Spacing,       \* SCHONFRIST_MIN
  Pause,         \* RUHE_NACH_EINGRIFF_H
  Stale,         \* STALE_S
  MaxRestarts,   \* restarts of the API in a behaviour
  Mishaps        \* what may go wrong besides, see below

\* "overlap": a request ticks while the loop is inside its tick;
\* "lost answer": a command is executed though its caller hears of a failure;
\* "late report": a decision is taken on a setpoint that is no longer true;
\* "early hand": somebody sets the room right after the automatic did;
\* "restart while shifted": the API restarts while it sets a shifted room anew.
ASSUME RoomAssumption ==
  /\ HandValues \subseteq Nat /\ Offsets \subseteq Int \ {0}
  /\ {Grace, Spacing, Pause, Stale, MaxRestarts} \subseteq Nat
  /\ Mishaps \subseteq {"overlap", "lost answer", "late report", "early hand", "restart while shifted"}
  \* Setting exactly what the automatic wrote cannot be told from not setting.
  /\ \A h, g \in HandValues, o \in Offsets : g # h + o
  /\ \A h, g \in HandValues, o, p \in Offsets : h # g => g + p # h + o

VARIABLES
  enabled,    \* the automatic is on and the room takes part
  plant,      \* the setpoint at the mini server
  hand,       \* history: what a person set last
  seen,       \* the reported setpoint, NoValue if none or too old
  seenAge,    \* since it was observed
  card,       \* _shift_states: the way back, NoCard if none
  row,        \* the same in the database
  roomPc,     \* where each tick is
  before,     \* vorher of each tick
  plan,       \* the aktion of each tick
  ticks,      \* the loop has ticked in this unit of time
  restarts,
  quiet       \* history: how long the automatic has to leave the room alone

roomVars == <<enabled, plant, hand, seen, seenAge, card, row, roomPc, before, plan, ticks, restarts, quiet>>
tickVars == <<roomPc, before, plan>>
house == <<plant, hand>>

RoomTickers == {"loop", "user"}
NoValue == -100
Forever == Grace + Spacing + Stale + 1   \* ages are exact below this
NoCard == [base |-> NoValue, offset |-> 0, written |-> NoValue, age |-> Forever, pause |-> 0]
Values == HandValues \cup {h + o : h \in HandValues, o \in Offsets}
Cards == [base : HandValues, offset : Offsets \cup {0}, written : Values, age : 0..Forever, pause : 0..Pause]
Keep == [do |-> "keep", to |-> NoValue, base |-> NoValue, offset |-> 0]

RoomInit ==
  /\ enabled = FALSE
  /\ plant \in HandValues /\ hand = plant
  /\ seen = NoValue /\ seenAge = 0
  /\ card = NoCard /\ row = NoCard
  /\ roomPc = [t \in RoomTickers |-> "idle"]
  /\ before = [t \in RoomTickers |-> NoCard] /\ plan = [t \in RoomTickers |-> Keep]
  /\ ticks = 0 /\ restarts = 0 /\ quiet = 0

----------------------------------------------------------------------------
(* entscheide *)

Applied == card # NoCard /\ card.offset # 0
FreshReport == seenAge + Grace < card.age

\* Somebody else has set the room since the automatic did.
Touched == Applied /\ FreshReport /\ seen # card.written

Base == IF Applied THEN card.base ELSE seen

\* The spacing holds back shifting, not the way back.
TooSoon(wish) == card # NoCard /\ wish # 0 /\ card.age < Spacing

RestingNever == FALSE
Resting == card # NoCard /\ card.pause > 0

Decision(wish) ==
  CASE Resting \/ seen = NoValue -> Keep
    [] ~Resting /\ seen # NoValue /\ Touched -> [Keep EXCEPT !.do = "stand down"]
    [] OTHER ->
         IF Base + wish = seen
         THEN IF wish = 0 /\ card # NoCard THEN [Keep EXCEPT !.do = "forget"] ELSE Keep
         ELSE IF TooSoon(wish) THEN Keep
              ELSE [do |-> "set", to |-> Base + wish, base |-> Base, offset |-> wish]

----------------------------------------------------------------------------
(* _room_shift_tick and _room_shift_eins *)

\* Switched off, the rooms that have a way back still take their turn.
ConcernedEnabled == enabled
Concerned == enabled \/ card # NoCard

Wishes == IF enabled THEN Offsets \cup {0} ELSE {0}   \* an open window asks for nothing

\* The tick goes on to pc, or is over and forgets what it had read.
GoOn(t, pc) == roomPc' = [roomPc EXCEPT ![t] = pc] /\ UNCHANGED <<before, plan>>
Over(t) ==
  /\ roomPc' = [roomPc EXCEPT ![t] = "idle"]
  /\ before' = [before EXCEPT ![t] = NoCard] /\ plan' = [plan EXCEPT ![t] = Keep]

Alone(t) == \A u \in RoomTickers \ {t} : roomPc[u] \in {"idle", "asked"}

\* The tick up to the first await: the reported setpoint and the way back are read.
Look(t) ==
  /\ IF t = "loop" THEN roomPc[t] = "idle" /\ ticks = 0 /\ ticks' = 1
                   ELSE roomPc[t] = "asked" /\ UNCHANGED ticks
  /\ Alone(t) \/ "overlap" \in Mishaps
  /\ seen \in {plant, NoValue} \/ "late report" \in Mishaps
  /\ Concerned
  /\ \E wish \in Wishes :
       IF Decision(wish) = Keep THEN Over(t)
       ELSE /\ plan' = [plan EXCEPT ![t] = Decision(wish)]
            /\ before' = [before EXCEPT ![t] = card]
            /\ roomPc' = [roomPc EXCEPT ![t] = "decided"]
  /\ UNCHANGED <<enabled, house, seen, seenAge, card, row, restarts, quiet>>

\* Nothing is decided while the bridge is away, or no room concerned.
PassesBy(t) ==
  /\ roomPc[t] = "asked" /\ Over(t)
  /\ UNCHANGED <<enabled, house, seen, seenAge, card, row, ticks, restarts, quiet>>

\* What the tick is about to remember.
NewCard(t) ==
  CASE plan[t].do = "stand down" -> [before[t] EXCEPT !.offset = 0, !.pause = Pause]
    [] plan[t].do = "forget" -> NoCard
    [] plan[t].do = "set" -> [base |-> plan[t].base, offset |-> plan[t].offset,
                              written |-> plan[t].to, age |-> 0, pause |-> before[t].pause]

\* _room_meta has answered: the dictionary first, the database after it.
Remember(t) ==
  /\ roomPc[t] = "decided"
  /\ GoOn(t, "saving")
  /\ card' = NewCard(t)
  /\ quiet' = IF plan[t].do = "stand down" THEN Pause ELSE quiet
  /\ UNCHANGED <<enabled, house, seen, seenAge, row, ticks, restarts>>

\* The way back is in the database; only then is a command sent.
Saved(t) ==
  /\ roomPc[t] = "saving"
  /\ row' = NewCard(t)
  /\ IF plan[t].do = "set" THEN GoOn(t, "sent") ELSE Over(t)
  /\ UNCHANGED <<enabled, house, seen, seenAge, card, ticks, restarts, quiet>>

\* send_command returns; a failure takes back what was remembered.
Answered(t, executed, ok) ==
  /\ roomPc[t] = "sent"
  /\ ok => executed
  /\ executed /\ ~ok => "lost answer" \in Mishaps
  /\ plant' = IF executed THEN plan[t].to ELSE plant
  /\ IF ok THEN Over(t) /\ UNCHANGED card
           ELSE GoOn(t, "undoing") /\ card' = before[t]
  /\ UNCHANGED <<enabled, hand, seen, seenAge, row, ticks, restarts, quiet>>

UndoneInMemory(t) ==
  /\ roomPc[t] = "undoing"
  /\ Over(t)
  /\ UNCHANGED <<enabled, house, seen, seenAge, card, row, ticks, restarts, quiet>>

Undone(t) ==
  /\ roomPc[t] = "undoing"
  /\ row' = before[t]
  /\ Over(t)
  /\ UNCHANGED <<enabled, house, seen, seenAge, card, ticks, restarts, quiet>>

\* set_rooms_automatik: stored, then a tick at once.
SetAutomatik ==
  /\ roomPc["user"] = "idle"
  /\ enabled' = ~enabled
  /\ roomPc' = [roomPc EXCEPT !["user"] = "asked"]
  /\ UNCHANGED <<house, seen, seenAge, card, row, before, plan, ticks, restarts, quiet>>

\* A command on its way may still arrive; _load_shift_state reads the rest.
RestartRooms ==
  /\ restarts < MaxRestarts
  /\ restarts' = restarts + 1
  /\ \/ "restart while shifted" \in Mishaps
     \/ \A t \in RoomTickers : plan[t].do = "set" => before[t].offset = 0
  /\ card' = row
  /\ plant' \in {plant} \cup {plan[t].to : t \in {u \in RoomTickers : roomPc[u] = "sent"}}
  /\ roomPc' = [t \in RoomTickers |-> "idle"]
  /\ before' = [t \in RoomTickers |-> NoCard] /\ plan' = [t \in RoomTickers |-> Keep]
  /\ seen' = NoValue /\ seenAge' = 0
  /\ UNCHANGED <<enabled, hand, row, ticks, quiet>>

----------------------------------------------------------------------------
(* The room. *)

\* No tick is at work and the last command is long known.
Calm ==
  /\ Applied => card.age > Grace + Stale
  /\ \A t \in RoomTickers : roomPc[t] \in {"idle", "asked"}

\* Somebody sets the room: at the wall, in Controme, or with set_room_setpoint.
HandSets(v) ==
  /\ v # plant
  /\ Calm \/ "early hand" \in Mishaps
  /\ plant' = v /\ hand' = v
  /\ UNCHANGED <<enabled, seen, seenAge, card, row, tickVars, ticks, restarts, quiet>>

\* ContromeRooms.run: a poll, in its time or woken by setze_soll.
ReportSetpoint ==
  /\ seen # plant \/ seenAge # 0
  /\ seen' = plant /\ seenAge' = 0
  /\ UNCHANGED <<enabled, house, card, row, tickVars, ticks, restarts, quiet>>

Older(c) == IF c = NoCard THEN c
            ELSE [c EXCEPT !.age = IF @ < Forever THEN @ + 1 ELSE @, !.pause = IF @ > 0 THEN @ - 1 ELSE 0]

RoomTime ==
  /\ \A t \in RoomTickers : roomPc[t] = "idle"
  /\ card' = Older(card) /\ row' = Older(row)
  /\ IF seen = NoValue \/ seenAge = Stale THEN seen' = NoValue /\ seenAge' = 0
     ELSE seenAge' = seenAge + 1 /\ UNCHANGED seen
  /\ quiet' = IF quiet > 0 THEN quiet - 1 ELSE 0
  /\ ticks' = 0
  /\ UNCHANGED <<enabled, house, tickVars, restarts>>

RoomNext ==
  \/ \E t \in RoomTickers :
       \/ Look(t) \/ PassesBy(t) \/ Remember(t) \/ Saved(t) \/ Undone(t)
       \/ \E executed, ok \in BOOLEAN : Answered(t, executed, ok)
  \/ SetAutomatik \/ RestartRooms
  \/ \E v \in HandValues : HandSets(v)
  \/ ReportSetpoint \/ RoomTime

RoomSpec == RoomInit /\ [][RoomNext]_roomVars

\* The loop goes on, it finds the room read again and again, and a command that is
\* repeated gets through in the end.
RoomFairness ==
  /\ WF_roomVars(RoomTime) /\ SF_roomVars(ReportSetpoint) /\ SF_roomVars(seen # NoValue /\ Look("loop"))
  /\ \A t \in RoomTickers :
       /\ WF_roomVars(Remember(t)) /\ WF_roomVars(Saved(t)) /\ WF_roomVars(Undone(t)) /\ WF_roomVars(PassesBy(t))
       /\ SF_roomVars(Answered(t, TRUE, TRUE))

FairRoomSpec == RoomSpec /\ RoomFairness

----------------------------------------------------------------------------
RoomTypeOK ==
  /\ enabled \in BOOLEAN /\ hand \in HandValues /\ plant \in Values
  /\ seen \in Values \cup {NoValue} /\ seenAge \in 0..Stale
  /\ card \in Cards \cup {NoCard} /\ row \in Cards \cup {NoCard}
  /\ roomPc \in [RoomTickers -> {"idle", "asked", "decided", "saving", "sent", "undoing"}]
  /\ before \in [RoomTickers -> Cards \cup {NoCard}]
  /\ ticks \in 0..1 /\ restarts \in 0..MaxRestarts /\ quiet \in 0..Pause

\* The way back always leads to what a person set last: a room that does not
\* stand on that value has it on its card, in memory while nothing is being
\* undone and in the database throughout, whatever is interrupted.
WayBack ==
  plant # hand =>
    /\ row # NoCard /\ row.base = hand
    /\ (\A t \in RoomTickers : roomPc[t] \in {"idle", "asked"}) => card = row

\* After somebody has set the room by hand, the automatic sends it nothing
\* for RUHE_NACH_EINGRIFF_H, restarts included.
LeavesAlone ==
  [][\A t \in RoomTickers : quiet > 0 => roomPc'[t] # "sent"]_roomVars

\* Switched off means set back: a room that is shifted when the automatic is
\* switched off gets its value back.
OffMeansBack == ~enabled ~> (plant = hand \/ enabled)

=============================================================================
