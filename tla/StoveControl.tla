---------------------------- MODULE StoveControl ----------------------------
(***************************************************************************)
(* The pellet stove: a person sets it by hand (set_stove_mode) or leaves   *)
(* it to the planner (_apply_stove_plan with decide_switch).  Both send    *)
(* over the same line, on which commands are executed in order, and both   *)
(* see the stove only through what it reports.                             *)
(***************************************************************************)
EXTENDS Integers, Sequences, FiniteSets

CONSTANTS
  MinRuntime,     \* stove.min_runtime_min, in steps of the plan
  MinOfftime,     \* stove.min_offtime_min
  HandFor,        \* how long a setting by hand lasts
  StoveRestarts   \* restarts of the API in a behaviour

ASSUME StoveAssumption ==
  /\ {MinRuntime, MinOfftime, StoveRestarts} \subseteq Nat /\ HandFor \in Nat \ {0}

VARIABLES
  burning,      \* the stove runs
  maestro,      \* the bridge is connected to it
  stoveSeen,    \* the last report in the API: "on", "off", or "unknown"
  stoveMode, endsIn,   \* StoveController.mode, and how long it lasts, 0: no end
  switchedAgo,  \* since _stove_switched_at, Ages if never
  stovePlan,    \* what the plan says of this step: "on", "off", "none"
  orders,       \* commands sent and not yet answered, in order, with who gave them
  stoveRestarts,
  sinceSwitch,  \* history: since the last command that was carried out and not denied
  lastWord      \* history: who gave the command it carried out last

stoveVars == <<burning, maestro, stoveSeen, stoveMode, endsIn, switchedAgo, stovePlan, orders, stoveRestarts, sinceSwitch, lastWord>>
stoveHand == <<stoveMode, endsIn>>
stoveWorld == <<burning, maestro, sinceSwitch, lastWord>>

StoveAges == MinRuntime + MinOfftime + 1    \* ages are exact below this
OnOff == {"on", "off"}
State(b) == IF b THEN "on" ELSE "off"
Waits(who) == \E i \in DOMAIN orders : orders[i].by = who
Order(who, to) == [by |-> who, to |-> to, done |-> FALSE]
Senders == {"planner", "crossing", "person"}

StoveInit ==
  /\ burning = FALSE /\ maestro = TRUE /\ stoveSeen = "unknown"
  /\ stoveMode = "off" /\ endsIn = 0 /\ switchedAgo = StoveAges /\ stovePlan = "none"
  /\ orders = <<>> /\ stoveRestarts = 0 /\ sinceSwitch = StoveAges /\ lastWord = "nobody"

----------------------------------------------------------------------------
(* The planner. *)

\* plan_stove: no buffer, no prices, too short a horizon, no solver and no fuel are "none".
RefreshStovePlan ==
  /\ stovePlan' \in OnOff \cup {"none"}
  /\ UNCHANGED <<stoveWorld, stoveSeen, stoveHand, switchedAgo, orders, stoveRestarts>>

NoHold == TRUE
OverHold == switchedAgo >= IF stoveSeen = "on" THEN MinRuntime ELSE MinOfftime

PlannerAlways == stovePlan # "none" /\ stoveSeen # "unknown" /\ stoveSeen # stovePlan

\* decide_switch
PlannerSwitches ==
  /\ stoveMode = "auto"
  /\ stovePlan # "none" /\ stoveSeen # "unknown" /\ stoveSeen # stovePlan
  /\ OverHold

\* The hold begins with the attempt, whether or not it succeeds.  A decision that
\* crosses the command of a person on its way is told apart.
ApplyStovePlan ==
  /\ ~Waits("planner") /\ ~Waits("crossing") /\ PlannerSwitches
  /\ switchedAgo' = 0
  /\ orders' = Append(orders, Order(IF Waits("person") THEN "crossing" ELSE "planner", stovePlan))
  /\ UNCHANGED <<stoveWorld, stoveSeen, stoveHand, stovePlan, stoveRestarts>>

----------------------------------------------------------------------------
(* By hand. *)

SetStoveAuto ==
  /\ ~Waits("person")
  /\ stoveMode' = "auto" /\ endsIn' = 0
  /\ UNCHANGED <<stoveWorld, stoveSeen, switchedAgo, stovePlan, orders, stoveRestarts>>

SetStove(to) ==
  /\ ~Waits("person")
  /\ orders' = Append(orders, Order("person", to))
  /\ UNCHANGED <<stoveWorld, stoveSeen, stoveHand, switchedAgo, stovePlan, stoveRestarts>>

\* A setting by hand starts the hold of the planner as well.
HoldRestarts(by) == switchedAgo' = IF by = "person" THEN 0 ELSE switchedAgo

\* The answer to the oldest command; only a setting that was confirmed counts, also
\* when the command was carried out.
Reply(ok) ==
  /\ orders # <<>>
  /\ LET o == Head(orders) IN
     /\ ok => o.done
     /\ IF ok /\ o.by = "person" THEN stoveMode' = o.to /\ endsIn' = HandFor ELSE UNCHANGED stoveHand
     /\ IF ok THEN HoldRestarts(o.by) ELSE UNCHANGED switchedAgo
     /\ sinceSwitch' = IF o.by = "person" /\ ~ok THEN StoveAges ELSE sinceSwitch
  /\ orders' = Tail(orders)
  /\ UNCHANGED <<burning, maestro, lastWord, stoveSeen, stovePlan, stoveRestarts>>

\* effective_mode: a setting by hand lapses to the default, not to the planner.
Lapsed == endsIn = 1

RestartStove ==
  /\ stoveRestarts < StoveRestarts
  /\ stoveRestarts' = stoveRestarts + 1
  /\ stoveMode' = "off" /\ endsIn' = 0 /\ switchedAgo' = StoveAges /\ stovePlan' = "none" /\ stoveSeen' = "unknown"
  /\ orders' = <<>>
  /\ burning' \in {burning} \cup {o.to = "on" : o \in {orders[i] : i \in DOMAIN orders}}
  /\ UNCHANGED maestro
  /\ sinceSwitch' = StoveAges /\ lastWord' = "nobody"

----------------------------------------------------------------------------
(* MaestroStove and the stove. *)

\* switch: written to the stove, and for a while the bridge looks whether it obeys.
Obey ==
  /\ maestro
  /\ \E i \in DOMAIN orders :
       /\ ~orders[i].done /\ \A j \in 1..i-1 : orders[j].done
       /\ orders' = [orders EXCEPT ![i].done = TRUE]
       /\ burning' = (orders[i].to = "on")
       /\ lastWord' = orders[i].by
  /\ sinceSwitch' = 0
  /\ UNCHANGED <<maestro, stoveSeen, stoveHand, switchedAgo, stovePlan, stoveRestarts>>

\* An info frame; while it ignites or burns out the stove reports what it did before.
StoveReports ==
  /\ maestro /\ stoveSeen # State(burning)
  /\ stoveSeen' = State(burning)
  /\ UNCHANGED <<stoveWorld, stoveHand, switchedAgo, stovePlan, orders, stoveRestarts>>

\* _announce_offline, once for an outage.
MaestroLost ==
  /\ maestro /\ orders = <<>>
  /\ maestro' = FALSE /\ stoveSeen' = "unknown"
  /\ UNCHANGED <<burning, sinceSwitch, lastWord, stoveHand, switchedAgo, stovePlan, orders, stoveRestarts>>

MaestroBack ==
  /\ ~maestro
  /\ maestro' = TRUE
  /\ UNCHANGED <<burning, sinceSwitch, lastWord, stoveSeen, stoveHand, switchedAgo, stovePlan, orders, stoveRestarts>>

\* It is lit, or goes out, without DCH.
StoveByItself ==
  /\ burning' = ~burning /\ lastWord' = "nobody"
  /\ UNCHANGED <<maestro, sinceSwitch, stoveSeen, stoveHand, switchedAgo, stovePlan, orders, stoveRestarts>>

StoveAged(a) == IF a < StoveAges THEN a + 1 ELSE a

StoveTime ==
  /\ orders = <<>>
  /\ switchedAgo' = StoveAged(switchedAgo) /\ sinceSwitch' = StoveAged(sinceSwitch)
  /\ endsIn' = IF endsIn > 0 THEN endsIn - 1 ELSE 0
  /\ stoveMode' = IF Lapsed THEN "off" ELSE stoveMode
  /\ UNCHANGED <<burning, maestro, lastWord, stoveSeen, stovePlan, orders, stoveRestarts>>

StoveNext ==
  \/ RefreshStovePlan \/ ApplyStovePlan
  \/ SetStoveAuto \/ (\E to \in OnOff : SetStove(to)) \/ (\E ok \in BOOLEAN : Reply(ok))
  \/ RestartStove
  \/ Obey \/ StoveReports \/ MaestroLost \/ MaestroBack \/ StoveByItself \/ StoveTime

StoveSpec == StoveInit /\ [][StoveNext]_stoveVars

----------------------------------------------------------------------------
StoveTypeOK ==
  /\ {burning, maestro} \subseteq BOOLEAN /\ stoveSeen \in OnOff \cup {"unknown"}
  /\ stoveMode \in OnOff \cup {"auto"} /\ endsIn \in 0..HandFor /\ (stoveMode # "off" => (endsIn = 0 <=> stoveMode = "auto"))
  /\ switchedAgo \in 0..StoveAges /\ sinceSwitch \in 0..StoveAges
  /\ stovePlan \in OnOff \cup {"none"} /\ stoveRestarts \in 0..StoveRestarts
  /\ orders \in Seq([by : Senders, to : OnOff, done : BOOLEAN]) /\ Len(orders) <= 2

\* A command of the planner is carried out only when the last command the API has
\* not heard to have failed, of the planner or of a person, lies min_runtime_min or
\* min_offtime_min back - unless it was given while a person was switching.
PlannerRests ==
  [][burning' # burning /\ lastWord' = "planner" =>
       sinceSwitch >= IF burning THEN MinRuntime ELSE MinOfftime]_stoveVars

\* While a setting by hand lasts the stove has not been switched by the planner,
\* unless it decided while that setting was on its way.
HandHolds == endsIn > 0 => lastWord # "planner"

=============================================================================
