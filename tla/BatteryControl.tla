--------------------------- MODULE BatteryControl ---------------------------
(***************************************************************************)
(* The home battery: BatteryController says what it is to do, decide_      *)
(* reserve holds a reserve, _apply_battery sends a command to the cloud of *)
(* the maker when it differs from the one sent last, and MyenergiSource    *)
(* polls the same cloud.  The loop and a request of a person may both be   *)
(* in _apply_battery.                                                      *)
(***************************************************************************)
EXTENDS Integers

CONSTANTS
  HoldFor,         \* how long a setting by hand lasts
  ReportGap,       \* LIBBI_STATE_MIN_GAP_S
  BatteryMishaps   \* what may go wrong besides, see below

\* "overlap": a person's request sends while the loop's command is on its way;
\* "lost answer": the cloud carries a command out and the caller hears of a failure.
ASSUME BatteryAssumption ==
  /\ HoldFor \in Nat \ {0} /\ ReportGap \in Nat
  /\ BatteryMishaps \subseteq {"overlap", "lost answer"}

VARIABLES
  libbi,       \* the mode the battery is in
  soc,         \* its charge: below the reserve, just above, well above, or unknown
  sun,         \* a surplus of at least SURPLUS_RELEASE_KW
  batteryMode, holdLeft,  \* BatteryController.mode and how long it lasts, 0: no end
  sent,        \* BatteryController.sent
  call,        \* of each sender: the command whose answer it awaits, "none" if none
  carried,     \* of each sender: the cloud has carried it out
  known,       \* the serial number was in the last answer
  noted, notedAgo   \* the mode reported last, and since when

batteryVars == <<libbi, soc, sun, batteryMode, holdLeft, sent, call, carried, known, noted, notedAgo>>
callVars == <<sent, call, carried>>
pollVars == <<known, noted, notedAgo>>

Senders == {"loop", "request"}
Commands == {"normal", "stopped"}

BatteryInit ==
  /\ libbi \in Commands /\ soc = "unknown" /\ sun = FALSE
  /\ batteryMode = "off" /\ holdLeft = 0 /\ sent = "none"
  /\ call = [s \in Senders |-> "none"] /\ carried = [s \in Senders |-> FALSE]
  /\ known = FALSE /\ noted = "none" /\ notedAgo = ReportGap

----------------------------------------------------------------------------
\* decide_reserve: the sun goes before the reserve, and what holds goes on holding
\* until the charge is a margin above the reserve.
SunIgnored ==
  IF soc = "below" \/ (soc = "edge" /\ sent = "stopped") THEN "stopped" ELSE "normal"
Reserve ==
  IF ~sun /\ (soc = "below" \/ (soc = "edge" /\ sent = "stopped")) THEN "stopped" ELSE "normal"

\* BatteryController.wanted; "none": DCH has nothing to say.
Wanted(mode) ==
  CASE mode = "off" -> "none" [] mode = "normal" -> "normal"
    [] mode = "hold" -> "stopped" [] mode = "auto" -> Reserve

Idle(s) == call[s] = "none"
Free(s) == Idle(s) /\ (\/ \A r \in Senders : Idle(r)
                       \/ "overlap" \in BatteryMishaps)

\* _apply_battery up to the await; without a serial number the call fails at once.
Apply(s, mode) ==
  IF Wanted(mode) \notin {"none", sent} /\ known
  THEN call' = [call EXCEPT ![s] = Wanted(mode)] /\ carried' = [carried EXCEPT ![s] = FALSE]
  ELSE UNCHANGED <<call, carried>>

BatteryLoop ==
  /\ Free("loop") /\ Wanted(batteryMode) \notin {"none", sent} /\ known
  /\ Apply("loop", batteryMode)
  /\ UNCHANGED <<libbi, soc, sun, batteryMode, holdLeft, sent, pollVars>>

SetBatteryMode(mode) ==
  /\ Free("request")
  /\ batteryMode' = mode
  /\ holdLeft' = IF mode \in {"auto", "off"} THEN 0 ELSE HoldFor
  /\ Apply("request", mode)
  /\ UNCHANGED <<libbi, soc, sun, sent, pollVars>>

CarriesOut(s) ==
  /\ ~Idle(s) /\ ~carried[s]
  /\ carried' = [carried EXCEPT ![s] = TRUE]
  /\ libbi' = call[s]
  /\ UNCHANGED <<soc, sun, batteryMode, holdLeft, sent, call, pollVars>>

SentAlways(s, ok) == call[s]
\* A failure leaves sent as it was, and the next round tries again.
SentAfter(s, ok) == IF ok THEN call[s] ELSE sent

CloudAnswers(s, ok) ==
  /\ ~Idle(s) /\ (ok => carried[s]) /\ (carried[s] /\ ~ok => "lost answer" \in BatteryMishaps)
  /\ sent' = SentAfter(s, ok)
  /\ call' = [call EXCEPT ![s] = "none"]
  /\ carried' = [carried EXCEPT ![s] = FALSE]
  /\ UNCHANGED <<libbi, soc, sun, batteryMode, holdLeft, pollVars>>

----------------------------------------------------------------------------
\* MyenergiSource.poll_once with _note_libbi_state: a change that comes too soon
\* after the last one is noted by a later poll.
PollBattery ==
  /\ known' = TRUE
  /\ IF libbi # noted /\ notedAgo >= ReportGap THEN noted' = libbi /\ notedAgo' = 0
                                               ELSE UNCHANGED <<noted, notedAgo>>
  /\ UNCHANGED <<libbi, soc, sun, batteryMode, holdLeft, callVars>>

\* Time passes, a setting by hand lapses to "off", and charge and sun change.
BatteryTime ==
  /\ \A s \in Senders : Idle(s)
  /\ soc' \in {"below", "edge", "above", "unknown"} /\ sun' \in BOOLEAN
  /\ holdLeft' = IF holdLeft > 0 THEN holdLeft - 1 ELSE 0
  /\ batteryMode' = IF holdLeft = 1 THEN "off" ELSE batteryMode
  /\ notedAgo' = IF notedAgo < ReportGap THEN notedAgo + 1 ELSE notedAgo
  /\ UNCHANGED <<libbi, callVars, known, noted>>

BatteryNext ==
  \/ BatteryLoop \/ \E m \in {"auto", "normal", "hold", "off"} : SetBatteryMode(m)
  \/ \E s \in Senders : CarriesOut(s) \/ \E ok \in BOOLEAN : CloudAnswers(s, ok)
  \/ PollBattery \/ BatteryTime

\* The loop comes round, the cloud is polled, and a call that is repeated succeeds.
BatteryFairness ==
  /\ SF_batteryVars(BatteryLoop) /\ WF_batteryVars(PollBattery)
  /\ \A s \in Senders : SF_batteryVars(CarriesOut(s)) /\ SF_batteryVars(CloudAnswers(s, TRUE))

BatterySpec == BatteryInit /\ [][BatteryNext]_batteryVars /\ BatteryFairness

----------------------------------------------------------------------------
BatteryTypeOK ==
  /\ {libbi} \cup {call[s] : s \in Senders} \cup {sent, noted} \subseteq Commands \cup {"none"}
  /\ soc \in {"below", "edge", "above", "unknown"} /\ sun \in BOOLEAN /\ known \in BOOLEAN
  /\ batteryMode \in {"auto", "normal", "hold", "off"} /\ holdLeft \in 0..HoldFor
  /\ carried \in [Senders -> BOOLEAN] /\ notedAgo \in 0..ReportGap

\* What DCH believes it has sent is what the battery does: nothing is withheld
\* because a command that never took effect is taken for sent.
SentIsTrue == (\A s \in Senders : Idle(s)) /\ sent # "none" => libbi = sent

\* In automatic mode the sun is not shut out: with a surplus that lasts the
\* battery is released, whatever calls fail on the way.
SunGetsIn == batteryMode = "auto" /\ sun ~> libbi = "normal" \/ batteryMode # "auto" \/ ~sun

=============================================================================
