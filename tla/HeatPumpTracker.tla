--------------------------- MODULE HeatPumpTracker ---------------------------
(***************************************************************************)
(* Whether the heat pump runs is not what its contacts say but what its    *)
(* power says, debounced: HeatPumpTracker.update.                          *)
(*                                                                         *)
(* Instants are kept as ages: the time since them, None before the first,  *)
(* exact up to Horizon, which exceeds every limit an age is compared with. *)
(***************************************************************************)
EXTENDS Integers

CONSTANTS
  Horizon,    \* bound: an age beyond it counts as Horizon
  Debounce,   \* running_debounce_s
  MaxStarts   \* max_starts_per_day; starts_today is counted up to it

ASSUME TrackerAssumption ==
  /\ Horizon \in Nat /\ Debounce \in 0..Horizon
  /\ MaxStarts \in Nat

VARIABLES
  running,    \* HeatPumpTracker.running
  runAge,     \* since running_since
  stopAge,    \* since stopped_since
  candidate,  \* since _candidate_since
  starts      \* starts_today

trackerVars == <<running, runAge, stopAge, candidate, starts>>

None == -1
Ages == -1..Horizon
Powers == {"high", "low", "unknown"}   \* against running_threshold_kw; unknown: not usable

Later(age, dt) == IF age = None THEN None
                  ELSE IF age + dt > Horizon THEN Horizon ELSE age + dt

\* `age >= limit` of an instant that may not exist yet
Reached(age, limit) == age # None /\ age >= limit
Within(age, limit)  == age # None /\ age < limit

TrackerInit ==
  /\ running = FALSE /\ runAge = None /\ stopAge = None
  /\ candidate = None /\ starts = 0

\* The power agrees with `running`, or says nothing.
Steady(dt, power, today) ==
  /\ power = "unknown" \/ (power = "high") = running
  /\ candidate' = IF power = "unknown" THEN Later(candidate, dt) ELSE None
  /\ running' = running
  /\ runAge' = Later(runAge, dt) /\ stopAge' = Later(stopAge, dt)
  /\ starts' = today

\* It contradicts `running`, but not for long enough yet.
Suspect(dt, power, today) ==
  /\ power # "unknown" /\ (power = "high") # running
  /\ ~Reached(Later(candidate, dt), Debounce)
  /\ candidate' = IF candidate = None THEN 0 ELSE Later(candidate, dt)
  /\ running' = running
  /\ runAge' = Later(runAge, dt) /\ stopAge' = Later(stopAge, dt)
  /\ starts' = today

Flip(dt, power, today) ==
  /\ power # "unknown" /\ (power = "high") # running
  /\ Reached(Later(candidate, dt), Debounce)
  /\ candidate' = None
  /\ running' = ~running
  /\ runAge'  = IF running THEN None ELSE 0
  /\ stopAge' = IF running THEN 0 ELSE None
  /\ starts'  = IF running \/ today = MaxStarts THEN today ELSE today + 1

\* update(): dt after the last one, across midnight if newDay.
Track(dt, power, newDay) ==
  LET today == IF newDay THEN 0 ELSE starts IN
  \/ Steady(dt, power, today) \/ Suspect(dt, power, today) \/ Flip(dt, power, today)

TrackerTypeOK ==
  /\ running \in BOOLEAN
  /\ runAge \in Ages /\ stopAge \in Ages /\ candidate \in Ages
  /\ starts \in 0..MaxStarts
=============================================================================
