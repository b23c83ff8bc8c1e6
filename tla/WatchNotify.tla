----------------------------- MODULE WatchNotify -----------------------------
(* The watch over one signal: LiveRuntime._watch_notify turns the silence    *)
(* hems_core.watch finds into a message on the telephone, once when it       *)
(* begins and once when it ends.  The last event of the rule in the database *)
(* stands for what was told last, and is read back after a start.            *)
EXTENDS Naturals

CONSTANTS
    SilenceMin,     \* minutes a signal may be silent (silence_min)
    ReportPause,    \* MELDE_PAUSE_MIN
    Remembered,     \* the last value survives a restart: measurements, not the bridge
    CalmFor,        \* bound: minutes the signal stays as it is, silent or not
    WatchRestarts   \* bound on restarts

ASSUME WatchAssumption ==
    /\ {SilenceMin, ReportPause, CalmFor, WatchRestarts} \subseteq Nat
    /\ Remembered \in BOOLEAN

Longest == SilenceMin + ReportPause + 1   \* no age above this one makes a difference

VARIABLES
    quiet,          \* minutes since the signal last came
    known,          \* the process knows when that was
    upFor,          \* minutes since the start of the process
    open,           \* _watch_state
    sentAgo,        \* minutes since _watch_sent; Longest when it is empty
    told,           \* what the last event and message of this rule said
    lost,           \* history: once one should have followed and did not
    calm,           \* minutes since the signal fell silent or came back
    looked,         \* _watch_notify has run in this minute
    watchRestarts
watchVars == <<quiet, known, upFor, open, sentAgo, told, lost, calm, looked, watchRestarts>>

WatchInit ==
    /\ quiet = 0 /\ known = TRUE /\ upFor = 0 /\ calm = 0
    /\ open = FALSE /\ sentAgo = Longest /\ told = "nothing" /\ lost = FALSE
    /\ looked = FALSE /\ watchRestarts = 0

WatchOlder(age) == IF age < Longest THEN age + 1 ELSE age
Silent(age) == age >= SilenceMin

\* findings: without a last time, the silence of an expected signal counts from
\* the start of the process.
Finding == Silent(IF known THEN quiet ELSE upFor)
Reported(active) == IF active THEN "alarm" ELSE "back"

----------------------------------------------------------------------------
\* A round of the control loop.  When add_event fails nothing is pushed, and the
\* state is carried on as if it had been.
WatchNotify ==
    /\ ~looked /\ looked' = TRUE
    /\ open' = Finding
    /\ IF Finding = open \/ sentAgo < ReportPause
       THEN UNCHANGED <<sentAgo, told, lost>>
       ELSE /\ sentAgo' = 0
            /\ \/ told' = Reported(Finding) /\ lost' = lost
               \/ told' = told /\ lost' = TRUE
    /\ UNCHANGED <<quiet, known, upFor, calm, watchRestarts>>

\* A value arrives; live.readings and hub.last_frame_at note the time.
SignalComes ==
    /\ Silent(quiet) => calm >= CalmFor
    /\ quiet' = 0 /\ known' = TRUE
    /\ calm' = IF Silent(quiet) THEN 0 ELSE calm
    /\ looked' = FALSE
    /\ UNCHANGED <<upFor, open, sentAgo, told, lost, watchRestarts>>

WatchMinute ==
    /\ looked /\ looked' = FALSE
    /\ Silent(quiet + 1) /\ ~Silent(quiet) => calm >= CalmFor
    /\ quiet' = WatchOlder(quiet) /\ upFor' = WatchOlder(upFor) /\ sentAgo' = WatchOlder(sentAgo)
    /\ calm' = IF Silent(quiet + 1) /\ ~Silent(quiet) THEN 0 ELSE WatchOlder(calm)
    /\ UNCHANGED <<known, open, told, lost, watchRestarts>>

\* Mutant of LoadWatchState: every signal is taken to be well at the start.
LoadNothing ==
    /\ watchRestarts < WatchRestarts /\ watchRestarts' = watchRestarts + 1
    /\ open' = FALSE /\ sentAgo' = Longest
    /\ known' = (known /\ Remembered) /\ upFor' = 0
    /\ looked' = FALSE
    /\ UNCHANGED <<quiet, told, lost, calm>>

\* _load_watch_state and live.apply(repos.latest()).
LoadWatchState ==
    /\ watchRestarts < WatchRestarts /\ watchRestarts' = watchRestarts + 1
    /\ open' = (told = "alarm") /\ sentAgo' = Longest
    /\ known' = (known /\ Remembered) /\ upFor' = 0
    /\ looked' = FALSE
    /\ UNCHANGED <<quiet, told, lost, calm>>

WatchNext == WatchNotify \/ SignalComes \/ WatchMinute \/ LoadWatchState
WatchSpec == WatchInit /\ [][WatchNext]_watchVars

----------------------------------------------------------------------------
WatchTypeOK ==
    /\ {quiet, upFor, sentAgo, calm} \subseteq 0..Longest
    /\ {known, open, looked, lost} \subseteq BOOLEAN
    /\ told \in {"nothing", "alarm", "back"}
    /\ watchRestarts \in 0..WatchRestarts

\* "Einmal, wenn er auftritt, und einmal, wenn er geht" (_watch_notify): after every
\* round the last message says how it is, unless one could not be stored.
MessageIsTrue == looked /\ ~lost => (told = "alarm") = Silent(quiet)

\* "damit ein Neustart nicht meldet" (_load_watch_state): what was told last is not
\* told again, whatever was restarted in between, unless one could not be stored.
NoEcho == [][sentAgo' < sentAgo => told' # told \/ lost']_watchVars

\* The telephone is told the truth, and is told it once.
ToldOnce == []MessageIsTrue /\ NoEcho

=============================================================================
