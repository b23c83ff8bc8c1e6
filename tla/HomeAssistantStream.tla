------------------------- MODULE HomeAssistantStream -------------------------
(* One entity of Home Assistant on its way to the live state of the cloud:   *)
(* HaWsClient reads answers and events from one connection, Bridge._ha_loop  *)
(* takes a snapshot and subscribes, Bridge._refresh_loop reads the states    *)
(* again, _ingest keeps the last reading until _telemetry_loop publishes it, *)
(* and LiveState.apply keeps the one with the newest time.  A state of the   *)
(* entity is the number of changes before it.  Times are counted in half     *)
(* changes: change v happens at 2*v, a reading stamped "now" after it is     *)
(* 2*v + 1.  The transport between bridge and cloud is TelemetryUplink's.    *)
EXTENDS Naturals, Sequences

CONSTANTS
    HaChanges,      \* bound on changes of the entity
    HaMishaps       \* bound on lost connections, late answers and uplink outages

VARIABLES
    haValue,        \* the entity's state in Home Assistant
    subscribed,     \* Home Assistant sends state_changed on this connection
    toHa,           \* calls on their way
    toBridge,       \* answers and events on their way
    connected,      \* HaWsClient.connected: the reader is running
    haLoop,         \* where _ha_loop is
    refreshing,     \* _refresh_loop waits for its answer
    collected,      \* Bridge._pending of this key; NoReading when it is empty
    live,           \* LiveState.readings of this key
    haMishaps       \* mishaps so far
haVars == <<haValue, subscribed, toHa, toBridge, connected, haLoop, refreshing,
            collected, live, haMishaps>>
lineVars == <<subscribed, toHa, toBridge>>

Reading(value, at) == [value |-> value, at |-> at]
NoReading == Reading(0, 0)
Call(what, by) == [kind |-> what, by |-> by]
Answer(call) == [kind |-> call.kind, by |-> call.by, value |-> haValue]
Event(value) == [kind |-> "event", by |-> "nobody", value |-> value]

HaInit ==
    /\ haValue = 0 /\ subscribed = FALSE /\ toHa = <<>> /\ toBridge = <<>>
    /\ connected = FALSE /\ haLoop = "closed" /\ refreshing = FALSE
    /\ collected = NoReading /\ live = NoReading /\ haMishaps = 0

Mishap == haMishaps < HaMishaps /\ haMishaps' = haMishaps + 1

----------------------------------------------------------------------------
\* Home Assistant: a change, and the answers in the order of the calls.
EntityChanges ==
    /\ haValue < HaChanges /\ haValue' = haValue + 1
    /\ toBridge' = IF subscribed THEN Append(toBridge, Event(haValue')) ELSE toBridge
    /\ UNCHANGED <<subscribed, toHa, connected, haLoop, refreshing, collected, live, haMishaps>>

HaAnswers ==
    /\ toHa # <<>>
    /\ toBridge' = Append(toBridge, Answer(Head(toHa)))
    /\ subscribed' = (subscribed \/ Head(toHa).kind = "subscribe")
    /\ toHa' = Tail(toHa)
    /\ UNCHANGED <<haValue, connected, haLoop, refreshing, collected, live, haMishaps>>

----------------------------------------------------------------------------
\* _ingest: what an answer to get_states says counts from the moment it is read,
\* an event carries the time of the change.
Confirmed(value) == Reading(value, 2 * haValue + 1)
Observed(value) == Reading(value, 2 * value)

Nowhere == subscribed' = FALSE /\ toHa' = <<>> /\ toBridge' = <<>>

\* _ha_loop: connect and ask.
HaConnects ==
    /\ haLoop = "closed" /\ haLoop' = "asking" /\ connected' = TRUE
    /\ toHa' = <<Call("states", "loop")>>
    /\ UNCHANGED <<haValue, subscribed, toBridge, refreshing, collected, live, haMishaps>>

\* Events follow the answer to subscribe_events, so the loop is listening for them:
\* HaWsClient._events holds nothing longer than it takes to wake it.
ReadEvent(value) ==
    /\ collected' = Observed(value)
    /\ UNCHANGED <<toHa, connected, haLoop, refreshing>>

ReadStates(value) ==
    /\ collected' = Confirmed(value)
    /\ haLoop' = "subscribing" /\ toHa' = Append(toHa, Call("subscribe", "loop"))
    /\ UNCHANGED <<connected, refreshing>>

ReadSubscribed ==
    /\ haLoop' = "streaming"
    /\ UNCHANGED <<toHa, connected, refreshing, collected>>

ReadRefresh(value) ==
    /\ collected' = Confirmed(value) /\ refreshing' = FALSE
    /\ UNCHANGED <<toHa, connected, haLoop>>

\* The answer to a call that was given up is still in HaWsClient._pending: setting the
\* cancelled future raises in _read_loop, which ends and fails the calls that wait.
ReadLateAnswer ==
    /\ connected' = FALSE /\ refreshing' = FALSE
    /\ UNCHANGED <<toHa, haLoop, collected>>

\* asyncio wakes the tasks in the order in which _read_loop completed their futures,
\* so that a value is taken in where it was read.
ReadLoop ==
    /\ connected /\ toBridge # <<>> /\ toBridge' = Tail(toBridge)
    /\ LET msg == Head(toBridge) IN
       CASE msg.kind = "event"     -> ReadEvent(msg.value)
         [] msg.by = "refresh"     -> ReadRefresh(msg.value)
         [] msg.kind = "subscribe" -> ReadSubscribed
         [] msg.by = "loop"        -> ReadStates(msg.value)
         [] OTHER                  -> ReadLateAnswer
    /\ UNCHANGED <<haValue, subscribed, live, haMishaps>>

\* The stream or the call of _ha_loop ends: close, and wait before the next attempt.
HaCloses ==
    /\ haLoop # "closed" /\ ~connected
    /\ haLoop' = "closed" /\ Nowhere
    /\ UNCHANGED <<haValue, connected, refreshing, collected, live, haMishaps>>

\* A call of _ha_loop is not answered within 15 s: the connection is closed.
HaCallTimesOut ==
    /\ connected /\ haLoop \in {"asking", "subscribing"} /\ Mishap
    /\ haLoop' = "closed" /\ connected' = FALSE /\ refreshing' = FALSE /\ Nowhere
    /\ UNCHANGED <<haValue, collected, live>>

HaConnectionLost ==
    /\ connected /\ Mishap
    /\ connected' = FALSE /\ refreshing' = FALSE /\ Nowhere
    /\ UNCHANGED <<haValue, haLoop, collected, live>>

----------------------------------------------------------------------------
\* Mutant of RefreshLoop: while changes are streamed there is nothing to read again.
RefreshUnlessStreaming ==
    /\ connected /\ ~refreshing /\ haLoop # "streaming"
    /\ refreshing' = TRUE /\ toHa' = Append(toHa, Call("states", "refresh"))
    /\ UNCHANGED <<haValue, subscribed, toBridge, connected, haLoop, collected, live, haMishaps>>

RefreshLoop ==
    /\ connected /\ ~refreshing
    /\ refreshing' = TRUE /\ toHa' = Append(toHa, Call("states", "refresh"))
    /\ UNCHANGED <<haValue, subscribed, toBridge, connected, haLoop, collected, live, haMishaps>>

GivenUp(messages) ==
    [i \in DOMAIN messages |->
       IF messages[i].by = "refresh" THEN [messages[i] EXCEPT !.by = "nobody"] ELSE messages[i]]
RefreshTimesOut ==
    /\ refreshing /\ refreshing' = FALSE /\ Mishap
    /\ toHa' = GivenUp(toHa) /\ toBridge' = GivenUp(toBridge)
    /\ UNCHANGED <<haValue, subscribed, connected, haLoop, collected, live>>

----------------------------------------------------------------------------
\* LiveState.apply
StateApplied(reading) == IF reading.at >= live.at THEN reading ELSE live

\* _telemetry_loop: a batch sent while the uplink is down comes as backlog, which is
\* stored but not shown.
TelemetryLoop ==
    /\ collected # NoReading /\ collected' = NoReading
    /\ \/ live' = StateApplied(collected) /\ UNCHANGED haMishaps
       \/ Mishap /\ UNCHANGED live
    /\ UNCHANGED <<haValue, lineVars, connected, haLoop, refreshing>>

HaNext == EntityChanges \/ HaAnswers \/ HaConnects \/ ReadLoop \/ HaCloses \/ HaCallTimesOut
          \/ HaConnectionLost \/ RefreshLoop \/ RefreshTimesOut \/ TelemetryLoop

\* The tasks of the bridge and Home Assistant keep running; changes and mishaps end.
HaFairness ==
    /\ WF_haVars(HaAnswers) /\ WF_haVars(HaConnects) /\ WF_haVars(ReadLoop)
    /\ WF_haVars(HaCloses) /\ WF_haVars(RefreshLoop) /\ WF_haVars(TelemetryLoop)
HaSpec == HaInit /\ [][HaNext]_haVars /\ HaFairness

----------------------------------------------------------------------------
HaTypeOK ==
    /\ haValue \in 0..HaChanges /\ haMishaps \in 0..HaMishaps
    /\ {subscribed, connected, refreshing} \subseteq BOOLEAN
    /\ haLoop \in {"closed", "asking", "subscribing", "streaming"}
    /\ {collected, live} \subseteq [value : 0..HaChanges, at : 0..(2 * HaChanges + 1)]
    /\ \A i \in DOMAIN toHa : toHa[i] \in [kind : {"states", "subscribe"}, by : {"loop", "refresh", "nobody"}]
    /\ \A i \in DOMAIN toBridge : toBridge[i].value \in 0..HaChanges

\* Whatever was missed between the snapshot and the subscription, on a lost connection or
\* during an outage of the uplink, the live state finally shows what Home Assistant has.
LiveCatchesUp == <>[](live.value = haValue)
=============================================================================
