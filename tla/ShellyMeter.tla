----------------------------- MODULE ShellyMeter -----------------------------
(* A three-phase Shelly 3EM read over MQTT, with Home Assistant as the second *)
(* source of the same power: Shelly3EmState keeps the newest value of each    *)
(* phase, Em3Device.emit sends a complete measurement or, once, that there is *)
(* none, and Bridge._ingest lets Home Assistant's value through only while    *)
(* MqttHub.has_fresh says that the meter has nothing.  Time is counted in     *)
(* rounds of _emit_loop and of the refresh of Home Assistant's states.        *)
EXTENDS Naturals

CONSTANTS
    MeterPhases,    \* PHASES
    MeterStale      \* rounds after which a value is stale (mqtt_stale_s)

ASSUME MeterAssumption == MeterStale \in Nat

Gone == MeterStale + 1      \* older than this makes no difference
Covered == MeterStale + 2   \* rounds after which Home Assistant has taken over

VARIABLES
    phaseAge,       \* rounds since the last valid power of a phase
    messageAge,     \* rounds since last_message_at
    upRounds,       \* rounds since _started_at
    online,         \* Shelly3EmState.online
    news,           \* state.messages differs from _last_seen_messages
    unavailableSent,\* _unavailable_sent
    emitted,        \* emit_once has run in this round
    haRead,         \* the states of Home Assistant have been read in this round
    usableAge,      \* rounds since the cloud was sent a power; 2 * Gone at most
    deadFor         \* rounds since the meter fell silent; 0 while it is alive
meterVars == <<phaseAge, messageAge, upRounds, online, news, unavailableSent, emitted, haRead, usableAge,
               deadFor>>

MeterInit ==
    /\ phaseAge = [p \in MeterPhases |-> Gone] /\ messageAge = Gone /\ upRounds = 0
    /\ online = "unknown" /\ news = FALSE /\ unavailableSent = FALSE
    /\ emitted = FALSE /\ haRead = FALSE /\ usableAge = 0 /\ deadFor = 0

----------------------------------------------------------------------------
\* apply: a valid power of one phase, and the topic "online".  The broker says for a meter
\* that has just gone that it is offline.
PowerArrives(p) ==
    /\ deadFor = 0 /\ phaseAge' = [phaseAge EXCEPT ![p] = 0] /\ messageAge' = 0 /\ news' = TRUE
    /\ UNCHANGED <<upRounds, online, unavailableSent, emitted, haRead, usableAge, deadFor>>

OnlineArrives(flag) ==
    /\ deadFor <= 1 /\ (deadFor = 1 => flag = "no")
    /\ online # flag /\ online' = flag /\ messageAge' = 0 /\ news' = TRUE
    /\ UNCHANGED <<phaseAge, upRounds, unavailableSent, emitted, haRead, usableAge, deadFor>>

\* A message whose value is refused counts as a message all the same.
RefusedArrives ==
    /\ deadFor = 0 /\ ~news /\ news' = TRUE
    /\ UNCHANGED <<phaseAge, messageAge, upRounds, online, unavailableSent, emitted, haRead, usableAge, deadFor>>

\* snapshot: all phases have a fresh power.
Complete == \A p \in MeterPhases : phaseAge[p] <= MeterStale
MeterMeasured == online # "no" /\ Complete

\* is_stale
Stale == (IF messageAge = Gone THEN upRounds ELSE messageAge) > MeterStale
Offline == online = "no" \/ Stale

\* Em3Device.emit
EmitRound ==
    /\ ~emitted /\ emitted' = TRUE
    /\ IF MeterMeasured
       THEN IF news \/ unavailableSent
            THEN news' = FALSE /\ unavailableSent' = FALSE /\ usableAge' = 0
            ELSE UNCHANGED <<news, unavailableSent, usableAge>>
       ELSE /\ unavailableSent' = (unavailableSent \/ Offline)
            /\ UNCHANGED <<news, usableAge>>
    /\ UNCHANGED <<phaseAge, messageAge, upRounds, online, haRead, deadFor>>

\* Mutant of HasFresh: a meter that has ever sent something keeps Home Assistant out.
HasSpoken == phaseAge # [p \in MeterPhases |-> Gone] \/ messageAge < Gone \/ online # "unknown"
\* MqttHub.has_fresh, Em3Device.fresh
HasFresh == messageAge <= MeterStale

\* Bridge._ingest of what Home Assistant answers to the refresh.
HomeAssistantRead ==
    /\ ~haRead /\ haRead' = TRUE
    /\ usableAge' = IF HasFresh THEN usableAge ELSE 0
    /\ UNCHANGED <<phaseAge, messageAge, upRounds, online, news, unavailableSent, emitted, deadFor>>

\* The meter falls silent and comes back.
MeterStops ==
    /\ deadFor = 0 /\ deadFor' = 1
    /\ UNCHANGED <<phaseAge, messageAge, upRounds, online, news, unavailableSent, emitted, haRead, usableAge>>
MeterReturns ==
    /\ deadFor > 0 /\ deadFor' = 0
    /\ UNCHANGED <<phaseAge, messageAge, upRounds, online, news, unavailableSent, emitted, haRead, usableAge>>

Passed(age, most) == IF age < most THEN age + 1 ELSE age
NextRound ==
    /\ emitted /\ haRead /\ emitted' = FALSE /\ haRead' = FALSE
    /\ phaseAge' = [p \in MeterPhases |-> Passed(phaseAge[p], Gone)]
    /\ messageAge' = Passed(messageAge, Gone) /\ upRounds' = Passed(upRounds, Gone)
    /\ usableAge' = Passed(usableAge, 2 * Gone)
    /\ deadFor' = IF deadFor = 0 THEN 0 ELSE Passed(deadFor, Covered + 1)
    /\ UNCHANGED <<online, news, unavailableSent>>

MeterNext == (\E p \in MeterPhases : PowerArrives(p)) \/ (\E flag \in {"yes", "no"} : OnlineArrives(flag))
             \/ RefusedArrives \/ MeterStops \/ MeterReturns \/ EmitRound \/ HomeAssistantRead \/ NextRound
MeterSpec == MeterInit /\ [][MeterNext]_meterVars

----------------------------------------------------------------------------
MeterTypeOK ==
    /\ phaseAge \in [MeterPhases -> 0..Gone] /\ {messageAge, upRounds} \subseteq 0..Gone
    /\ usableAge \in 0..(2 * Gone) /\ online \in {"unknown", "yes", "no"}
    /\ deadFor \in 0..(Covered + 1)
    /\ {news, unavailableSent, emitted, haRead} \subseteq BOOLEAN

\* When the meter falls silent, whatever it sent last and although the notice that it is
\* offline counts as a sign of life, the cloud soon gets Home Assistant's value in every
\* round again.
SilenceCovered == deadFor > Covered /\ haRead => usableAge = 0

=============================================================================
