---------------------------- MODULE MCProgress ----------------------------
(* What must happen in the end, of five components that share no state - the   *)
(* telemetry uplink, the automatic of the rooms, the battery, a switched       *)
(* device and the stream of Home Assistant - in one run: a behaviour is one    *)
(* of the first, or of the second, and so on, and the others rest in their     *)
(* initial state, as no property relates two of them.                          *)
EXTENDS TelemetryUplink, RoomShift, BatteryControl, ShellySwitch, HomeAssistantStream

VARIABLE part
progressVars == <<part, vars, roomVars, batteryVars, switchVars, haVars>>

RoomOffsets == {-1, 1}

Uplink(A)  == part = "uplink"  /\ A /\ UNCHANGED <<part, roomVars, batteryVars, switchVars, haVars>>
Rooms(A)   == part = "rooms"   /\ A /\ UNCHANGED <<part, vars, batteryVars, switchVars, haVars>>
Battery(A) == part = "battery" /\ A /\ UNCHANGED <<part, vars, roomVars, switchVars, haVars>>
Switch(A)  == part = "switch"  /\ A /\ UNCHANGED <<part, vars, roomVars, batteryVars, haVars>>
Stream(A)  == part = "stream"  /\ A /\ UNCHANGED <<part, vars, roomVars, batteryVars, switchVars>>

ProgressInit ==
  /\ part \in {"uplink", "rooms", "battery", "switch", "stream"}
  /\ Init /\ RoomInit /\ BatteryInit /\ SwitchInit /\ HaInit
  /\ part # "rooms" => plant = 0                \* one way to rest is enough
  /\ part # "battery" => libbi = "normal"

ProgressNext ==
  Uplink(Next) \/ Rooms(RoomNext) \/ Battery(BatteryNext) \/ Switch(SwitchNext) \/ Stream(HaNext)

\* The fairness of the five.  As only one of them acts, the fairness of a disjunction
\* says of each what its own would, and TLC has fewer cases.
ProgressFairness ==
  /\ WF_progressVars(Uplink(Bridge) \/ Rooms(RoomTime) \/ Battery(PollBattery) \/ Switch(BrokerBack) \/ Stream(HaAnswers))
  /\ WF_progressVars(Uplink(Api(1)) \/ Rooms(Remember("loop")) \/ Switch(PollLoop) \/ Stream(HaConnects))
  /\ WF_progressVars(Uplink(Api(2)) \/ Rooms(Remember("user")) \/ Switch(MessageArrives) \/ Stream(ReadLoop))
  /\ WF_progressVars(Uplink(Api(3)) \/ Rooms(Saved("loop")) \/ Switch(EmitLoop) \/ Stream(HaCloses))
  /\ WF_progressVars(Rooms(Saved("user")) \/ Switch(SwitchRound) \/ Stream(RefreshLoop))
  /\ WF_progressVars(Rooms(Undone("loop")) \/ Stream(TelemetryLoop)) /\ WF_progressVars(Rooms(Undone("user")))
  /\ WF_progressVars(Rooms(PassesBy("loop"))) /\ WF_progressVars(Rooms(PassesBy("user")))
  /\ SF_progressVars(Rooms(ReportSetpoint) \/ Battery(CarriesOut("loop")))
  /\ SF_progressVars(Rooms(seen # NoValue /\ Look("loop")) \/ Battery(CloudAnswers("loop", TRUE)))
  /\ SF_progressVars(Rooms(Answered("loop", TRUE, TRUE)) \/ Battery(CarriesOut("request")))
  /\ SF_progressVars(Rooms(Answered("user", TRUE, TRUE)) \/ Battery(CloudAnswers("request", TRUE)))
  /\ SF_progressVars(Battery(BatteryLoop))

ProgressSpec == ProgressInit /\ [][ProgressNext]_progressVars /\ ProgressFairness

\* SwitchKnown, of a behaviour of the switch: one that rests has told nothing.
SwitchSettles == part = "switch" => SwitchKnown

=============================================================================
