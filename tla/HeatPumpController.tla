------------------------- MODULE HeatPumpController -------------------------
(***************************************************************************)
(* The rule-based controller of the heat pump's release contact K1:        *)
(* HeatPumpController.tick, which LiveRuntime.control_tick calls every     *)
(* tick_s and once more whenever somebody changes the mode.  A tick updates *)
(* the tracker, reads the measurements and the effective mode, moves        *)
(*    IDLE -> ARMING -> RELEASED -> RUNNING_RELEASED -> COOLDOWN -> IDLE   *)
(* (OFF, MANUAL and FAILSAFE aside) and decides K1.  Between two ticks     *)
(* whoever asks for the state of the house updates the tracker as well.    *)
(*                                                                         *)
(* What the measurements amount to - a trigger, an unbroken hold           *)
(* condition, a full buffer - is chosen afresh at every tick.  The         *)
(* instants the controller remembers are ages, as in HeatPumpTracker.      *)
(***************************************************************************)
EXTENDS HeatPumpTracker, FiniteSets

CONSTANTS
  Gap,          \* bound: the longest time between two ticks
  OnDelay,      \* pv.on_delay_min
  OffDelay,     \* pv.off_delay_min
  MinRun,       \* min_runtime_min
  MinOff,       \* min_offtime_min
  StartTimeout, \* start_timeout_min
  SensorGrace,  \* sensor_grace_min
  OwnControl,   \* 300 s: a pump that runs on for longer runs on its own account
  StopConfirm,  \* 120 s: a pump that stands for longer has stopped by itself
  MaxToggles,   \* max_toggles_per_hour
  Hour,         \* one hour
  FailsafeHold  \* failsafe_hold_min

Limits == {OnDelay, OffDelay, MinRun, MinOff, 2 * StartTimeout, SensorGrace,
           OwnControl + 1, StopConfirm + 1, Hour + 1, FailsafeHold}

ASSUME ControllerAssumption ==
  /\ Gap \in Nat \ {0} /\ MaxToggles \in Nat /\ StartTimeout \in Nat
  /\ OwnControl \in Nat /\ StopConfirm \in Nat /\ Hour \in Nat
  /\ \A n \in Limits : n \in 0..Horizon
  /\ Hour <= FailsafeHold

VARIABLES
  state,     \* HeatPumpController.state
  k1,        \* last_decision.k1_release
  timer,     \* the instants the controller remembers
  changes,   \* _k1_changes
  pause      \* since the last tick

vars == <<trackerVars, state, k1, timer, changes, pause>>

States == {"IDLE", "ARMING", "RELEASED", "RUNNING_RELEASED", "COOLDOWN", "OFF", "MANUAL", "FAILSAFE"}
Modes  == {"AUTO", "OFF", "FORCE_RELEASE", "FORCE_OFF"}

\* arming_since, released_at, hold_broken_since, sensor_bad_since, cooldown_since; and
\* when not_responding_until and failsafe_until were set.
Timers == [arming : Ages, released : Ages, holdBroken : Ages, sensorBad : Ages,
           cooldown : Ages, notResponding : Ages, failsafe : Ages]

\* What a tick finds: the power of the pump, whether it is the first of its day, whether
\* every needed sensor delivers, a trigger (_triggers) with headroom in the buffer, an
\* unbroken hold condition (_hold), a full buffer (_buffer_full).  Trigger and hold
\* condition do not imply each other: the surplus counts the pump's own power, also where
\* the grid delivers it.  Except in AUTO only the power, the day and the buffer are read, the
\* trigger only before a release, the hold condition only after it.
Measured == {i \in [power : Powers, newDay : BOOLEAN, sensors : BOOLEAN, trigger : BOOLEAN,
                    hold : BOOLEAN, full : BOOLEAN] : i.power = "unknown" => ~i.sensors}
BeforeRelease == {i \in Measured : ~i.hold}
InRelease     == {i \in Measured : ~i.trigger}
NotAuto       == {i \in Measured : ~i.sensors /\ ~i.trigger /\ ~i.hold}

Findings(m) == IF m # "AUTO" THEN NotAuto
               ELSE IF state \in {"RELEASED", "RUNNING_RELEASED"} THEN InRelease ELSE BeforeRelease

Init ==
  /\ TrackerInit
  /\ state = "IDLE" /\ k1 = FALSE /\ changes = {}
  /\ timer = [arming |-> None, released |-> None, holdBroken |-> None, sensorBad |-> None,
              cooldown |-> None, notResponding |-> None, failsafe |-> None]
  /\ pause = 0

----------------------------------------------------------------------------
\* since := since or now
Since(age) == IF age = None THEN 0 ELSE age

Aged(dt) ==
  [arming        |-> Later(timer.arming, dt),
   released      |-> Later(timer.released, dt),
   holdBroken    |-> Later(timer.holdBroken, dt),
   sensorBad     |-> Later(timer.sensorBad, dt),
   cooldown      |-> Later(timer.cooldown, dt),
   notResponding |-> Later(timer.notResponding, dt),
   failsafe      |-> Later(timer.failsafe, dt)]
Older(ages, dt) == {a + dt : a \in ages}

\* The ages _record_k1 keeps; one more when this tick changes K1.
\* Mutant: changes are never forgotten.
RecentAll(dt, on) == Older(changes, dt) \cup (IF on # k1 THEN {0} ELSE {})
Recent(dt, on) == {a \in Older(changes, dt) : a <= Hour} \cup (IF on # k1 THEN {0} ELSE {})

\* The end of tick(): the toggle limit overrules the decision.
\* Mutant: the pause is not started.
FailsafeTimerUnset(t) == t
FailsafeTimer(t) == [t EXCEPT !.failsafe = 0]
Decide(dt, t, s, on) ==
  IF Cardinality(Recent(dt, on)) > MaxToggles
    THEN /\ state' = "FAILSAFE" /\ k1' = FALSE
         /\ changes' = {}
         /\ timer' = FailsafeTimer(t)
    ELSE /\ state' = s /\ k1' = on
         /\ changes' = Recent(dt, on)
         /\ timer' = t

\* start_blockers
Blocked(i, t) ==
  \/ ~i.sensors
  \/ i.full
  \/ ~running' /\ Within(stopAge', MinOff)
  \/ starts' >= MaxStarts
  \/ Within(t.notResponding, 2 * StartTimeout)

Ready(i, t) == i.trigger /\ ~Blocked(i, t)
SensorsGone(i, t) == ~i.sensors /\ Reached(t.sensorBad, SensorGrace)

----------------------------------------------------------------------------
\* The branches of tick(), t being what the controller remembers at this instant

\* arming_since is read in ARMING only, released_at in RELEASED only: they are kept there.
Idle(dt, i, t) ==
  IF Ready(i, t) THEN Decide(dt, [t EXCEPT !.arming = 0], "ARMING", FALSE)
                 ELSE Decide(dt, t, "IDLE", FALSE)

\* COOLDOWN ends when the pump has rested, or runs on its own account.
\* Mutant: a pump that runs on keeps it going.
CooldownOverRested(t) == ~running' /\ ~Within(stopAge', MinOff)
CooldownOver(t) ==
  \/ running' /\ t.cooldown > OwnControl
  \/ ~running' /\ ~Within(stopAge', MinOff)

Cooldown(dt, i, t) ==
  LET u == [t EXCEPT !.cooldown = Since(@)] IN
  IF CooldownOver(u) THEN Idle(dt, i, [u EXCEPT !.cooldown = None])
                     ELSE Decide(dt, u, "COOLDOWN", FALSE)

\* Mutant: blockers do not interrupt the delay.
StillReadyTrigger(i, t) == i.trigger
StillReady(i, t) == Ready(i, t)

Arming(dt, i, t) ==
  LET u == [t EXCEPT !.arming = None] IN
  \/ /\ StillReady(i, t) /\ t.arming >= OnDelay
     /\ Decide(dt, [u EXCEPT !.released = 0], "RELEASED", TRUE)
  \/ /\ StillReady(i, t) /\ t.arming < OnDelay
     /\ Decide(dt, t, "ARMING", FALSE)
  \/ /\ ~StillReady(i, t)
     /\ Decide(dt, u, "IDLE", FALSE)

Released(dt, i, t) ==
  LET u == [t EXCEPT !.released = None] IN
  IF i.full \/ SensorsGone(i, t) THEN Decide(dt, u, "IDLE", FALSE)
  ELSE IF running' THEN Decide(dt, u, "RUNNING_RELEASED", TRUE)
  ELSE IF t.released >= StartTimeout
         THEN Decide(dt, [u EXCEPT !.notResponding = 0], "IDLE", FALSE)
         ELSE Decide(dt, t, "RELEASED", TRUE)

\* Mutant: the minimum run time is counted from the release on, that is, not at all here.
RunLongEnoughAlways == TRUE
RunLongEnough == Reached(runAge', MinRun)

\* The hold condition is broken: the release outlasts it by off_delay, and the minimum run.
HoldBroken(dt, t) ==
  LET u == [t EXCEPT !.holdBroken = Since(@)] IN
  IF ~RunLongEnough \/ u.holdBroken < OffDelay
    THEN Decide(dt, u, "RUNNING_RELEASED", TRUE)
    ELSE Decide(dt, [u EXCEPT !.holdBroken = None], "COOLDOWN", FALSE)

RunningReleased(dt, i, t) ==
  IF \/ i.full
     \/ SensorsGone(i, t)
     \/ ~running' /\ Reached(stopAge', StopConfirm + 1)
  THEN Decide(dt, t, "COOLDOWN", FALSE)
  ELSE IF i.hold THEN Decide(dt, [t EXCEPT !.holdBroken = None], "RUNNING_RELEASED", TRUE)
                 ELSE HoldBroken(dt, t)

\* sensor_bad_since: since when a sensor or the freshness of the price is missing.
SensorBadSince(i, age) == IF i.sensors THEN None ELSE Since(age)

\* AUTO; leaving OFF or MANUAL starts over in IDLE.
AutoMode(dt, i, s, t) ==
  LET u == [t EXCEPT !.sensorBad = SensorBadSince(i, @)] IN
  \/ s \in {"OFF", "MANUAL"} /\ Idle(dt, i, [u EXCEPT !.holdBroken = None])
  \/ s = "IDLE" /\ Idle(dt, i, u)
  \/ s = "COOLDOWN" /\ Cooldown(dt, i, u)
  \/ s = "ARMING" /\ Arming(dt, i, u)
  \/ s = "RELEASED" /\ Released(dt, i, u)
  \/ s = "RUNNING_RELEASED" /\ RunningReleased(dt, i, u)

\* OFF and MANUAL drop what only the states they interrupt read.
Interrupted(t) == [t EXCEPT !.arming = None, !.released = None]

Failsafe(dt) ==
  /\ Within(Later(timer.failsafe, dt), FailsafeHold)
  /\ Decide(dt, Aged(dt), "FAILSAFE", FALSE)

\* FAILSAFE is over, or was not on: the mode decides.
ByMode(dt, i, m) ==
  LET s == IF state = "FAILSAFE" THEN "IDLE" ELSE state
      t == [Aged(dt) EXCEPT !.failsafe = None]
  IN
  /\ ~Within(Later(timer.failsafe, dt), FailsafeHold)
  /\ \/ m = "OFF" /\ Decide(dt, Interrupted(t), "OFF", FALSE)
     \/ m = "FORCE_OFF" /\ Decide(dt, Interrupted(t), "MANUAL", FALSE)
     \/ m = "FORCE_RELEASE" /\ Decide(dt, Interrupted(t), "MANUAL", ~i.full)
     \/ m = "AUTO" /\ AutoMode(dt, i, s, t)

Tick(dt, i, m) ==
  /\ Track(dt, i.power, i.newDay)
  /\ Failsafe(dt) \/ ByMode(dt, i, m)
  /\ pause' = 0

\* _states(), called for the state of the house or for the plan: only the tracker is told.
\* (_record_k1 would drop the changes beyond the hour at the next tick anyway.)
Look(dt, power, newDay) ==
  /\ Track(dt, power, newDay)
  /\ timer' = Aged(dt)
  /\ changes' = {a \in Older(changes, dt) : a <= Hour}
  /\ pause' = pause + dt
  /\ UNCHANGED <<state, k1>>

ControlTick == \E dt \in 1..(Gap - pause), m \in Modes : \E i \in Findings(m) :
                 /\ i.newDay => starts > 0
                 /\ Tick(dt, i, m)
Observe == \E dt \in 1..(Gap - pause - 1), power \in Powers, newDay \in BOOLEAN :
             /\ newDay => starts > 0
             /\ Look(dt, power, newDay)
Next == ControlTick \/ Observe

Spec == Init /\ [][Next]_vars

----------------------------------------------------------------------------
TypeOK ==
  /\ TrackerTypeOK
  /\ state \in States /\ k1 \in BOOLEAN
  /\ timer \in Timers
  /\ changes \subseteq 0..Hour /\ pause \in 0..(Gap - 1)

\* Nothing holds the controller in a state that waits for something.
NoStateIsATrap ==
  \A s \in {"ARMING", "RELEASED", "COOLDOWN", "FAILSAFE"} : state = s ~> state # s

=============================================================================
