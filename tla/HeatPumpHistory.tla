--------------------------- MODULE HeatPumpHistory ---------------------------
(***************************************************************************)
(* What HeatPumpController owes to what has happened: its behaviours with  *)
(* a record of how long something has been so at every tick.  The record   *)
(* is written from findings, states and K1, never from the instants the    *)
(* controller remembers itself.                                            *)
(***************************************************************************)
EXTENDS HeatPumpController

VARIABLES
  readyFor,  \* how long a trigger has been there, and no blocker, before a release
  badFor,    \* how long a needed sensor has been missing
  full,      \* whether this step was a tick that found the buffer full in a run
  brokenFor, \* how long the hold condition has been broken in this run
  switches   \* ages of the changes of K1 in the last hour

historyVars == <<readyFor, badFor, full, brokenFor, switches>>

HInit ==
  /\ Init
  /\ readyFor = None /\ badFor = None /\ full = FALSE /\ brokenFor = None /\ switches = {}

Lasting(condition, age, dt) == IF condition THEN Since(Later(age, dt)) ELSE None

HTick(dt, i, m) ==
  LET auto == m = "AUTO" /\ ~Within(Later(timer.failsafe, dt), FailsafeHold) IN
  /\ Tick(dt, i, m)
  /\ readyFor'  = Lasting(auto /\ Ready(i, Aged(dt)) /\ state' \in {"ARMING", "RELEASED"}, readyFor, dt)
  /\ badFor'    = Lasting(auto /\ ~i.sensors, badFor, dt)
  /\ full'      = (auto /\ i.full /\ state = "RUNNING_RELEASED")
  /\ brokenFor' = Lasting(auto /\ ~i.hold /\ state = "RUNNING_RELEASED", brokenFor, dt)
  /\ switches'  = {a \in Older(switches, dt) : a < Hour} \cup (IF k1' # k1 THEN {0} ELSE {})

HLook(dt, power, newDay) ==
  /\ Look(dt, power, newDay)
  /\ readyFor' = Later(readyFor, dt) /\ badFor' = Later(badFor, dt) /\ full' = FALSE
  /\ brokenFor' = Later(brokenFor, dt)
  /\ switches' = {a \in Older(switches, dt) : a < Hour}

HControlTick == \E dt \in 1..(Gap - pause), m \in Modes : \E i \in Findings(m) :
                  (i.newDay => starts > 0) /\ HTick(dt, i, m)
HObserve == \E dt \in 1..(Gap - pause - 1), power \in Powers, newDay \in BOOLEAN :
              (newDay => starts > 0) /\ HLook(dt, power, newDay)

HSpec == HInit /\ [][HControlTick \/ HObserve]_<<vars, historyVars>>

\* The control loop keeps ticking, Gap being the longest pause.  (A tick is possible in
\* every state and none leaves a state that waits for something unchanged, so this is what
\* fairness of HControlTick gives.)
HFairSpec == HSpec /\ []<><<TRUE>>_vars

----------------------------------------------------------------------------
HTypeOK ==
  /\ TypeOK
  /\ readyFor \in Ages /\ badFor \in Ages /\ brokenFor \in Ages
  /\ full \in BOOLEAN
  /\ switches \subseteq 0..Hour

\* A release is earned: a trigger has been there, and no blocker, at every tick of the
\* last on_delay - whatever states, modes and pauses came before.
EarnedRelease ==
  [][state' = "RELEASED" /\ state # "RELEASED" => Reached(readyFor', OnDelay)]_<<vars, historyVars>>

\* A running pump is not cut off early: in AUTO its release ends only because the buffer is
\* full, a sensor has been missing for the whole grace, the pump has stopped by itself, or
\* the hold condition is broken and the minimum run time is over (or for the toggle limit).
RunsItsMinimum ==
  [][state = "RUNNING_RELEASED" /\ ~k1' /\ state' \notin {"OFF", "MANUAL", "FAILSAFE"} =>
       \/ full'
       \/ Reached(badFor', SensorGrace)
       \/ ~running' /\ stopAge' > StopConfirm
       \/ brokenFor' # None /\ Reached(runAge', MinRun)]_<<vars, historyVars>>

\* K1 changes at most max_toggles_per_hour times in an hour, and once more to go off.
ToggleBound == Cardinality(switches) <= MaxToggles + (IF state = "FAILSAFE" THEN 1 ELSE 0)

=============================================================================
