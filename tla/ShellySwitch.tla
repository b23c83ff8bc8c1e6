---------------------------- MODULE ShellySwitch -----------------------------
(* A switched output of a Shelly of generation 2, read and switched over the *)
(* broker: Gen2State keeps what the device last said, MqttHub.switch sends   *)
(* Switch.Set with toggle_after and waits until that is the wanted state,    *)
(* MqttHub.poll_once asks for the whole status.  The broker keeps messages   *)
(* for a bridge that is away (clean_session=False); a device without network *)
(* says and hears nothing.                                                   *)
EXTENDS Naturals, Sequences

CONSTANTS
    SwitchStale,    \* rounds after which a value is stale (stale_s)
    ToggleAfter,    \* rounds of a command with a duration (ttl_s)
    SwitchCommands, \* bound on commands
    HandTurns,      \* bound on switching at the device
    Outages         \* bound on losses of network or broker connection

VARIABLES
    output,         \* the device's output
    toggleIn,       \* rounds until it toggles by itself; 0 when it does not
    reachable,      \* the device has network
    brokerUp,       \* MqttHub.connected
    inbox,          \* what the broker holds for the bridge
    observed,       \* Gen2State.values of the output
    observedAge,    \* rounds since then
    fresh2,         \* state.messages differs from _last_seen_messages
    wanted,         \* the state MqttHub.switch waits for, or "none"
    confirmed,      \* MqttHub.switch returned the wanted state
    toldState,      \* the reading the cloud last got
    commands, turns, outages
switchVars == <<output, toggleIn, reachable, brokerUp, inbox, observed, observedAge, fresh2, wanted,
                confirmed, toldState, commands, turns, outages>>
plantVars == <<output, toggleIn, reachable, inbox>>
hubVars == <<observed, observedAge, fresh2, toldState>>
orderVars == <<wanted, confirmed, commands>>

Opposite(state) == IF state = "on" THEN "off" ELSE "on"
Later2(age) == IF age <= SwitchStale THEN age + 1 ELSE age

SwitchInit ==
    /\ output = "off" /\ toggleIn = 0 /\ reachable = TRUE /\ brokerUp = TRUE /\ inbox = <<>>
    /\ observed = "none" /\ observedAge = 0 /\ fresh2 = FALSE
    /\ wanted = "none" /\ confirmed = FALSE /\ toldState = "nothing"
    /\ commands = 0 /\ turns = 0 /\ outages = 0

----------------------------------------------------------------------------
\* The device: NotifyStatus goes out at a change, if there is a network.
Becomes(state) ==
    /\ output' = state
    /\ inbox' = IF reachable /\ state # output THEN Append(inbox, state) ELSE inbox

TurnedByHand ==
    /\ turns < HandTurns /\ turns' = turns + 1
    /\ Becomes(Opposite(output)) /\ toggleIn' = 0
    /\ UNCHANGED <<reachable, brokerUp, hubVars, orderVars, outages>>

\* One status says null and an error instead of the value.
ReadFails ==
    /\ reachable /\ turns < HandTurns /\ turns' = turns + 1
    /\ inbox' = Append(inbox, "null")
    /\ UNCHANGED <<output, toggleIn, reachable, brokerUp, hubVars, orderVars, outages>>

\* A round is longer than the way of a message and the takt of _emit_loop.
SwitchRound ==
    /\ ~fresh2 /\ (brokerUp => inbox = <<>>)
    /\ toggleIn > 0 \/ (observed # "none" /\ observedAge <= SwitchStale)
    /\ IF toggleIn = 1 THEN Becomes(Opposite(output)) ELSE UNCHANGED <<output, inbox>>
    /\ toggleIn' = IF toggleIn > 0 THEN toggleIn - 1 ELSE 0
    /\ observedAge' = Later2(observedAge)
    /\ UNCHANGED <<reachable, brokerUp, observed, fresh2, toldState, orderVars, turns, outages>>

NetworkChanges ==
    /\ reachable => outages < Outages
    /\ outages' = IF reachable THEN outages + 1 ELSE outages
    /\ reachable' = ~reachable
    /\ UNCHANGED <<output, toggleIn, inbox, brokerUp, hubVars, orderVars, turns>>

----------------------------------------------------------------------------
\* poll_once: GetStatus is answered by a device that hears it.
Asked(queue) == IF reachable THEN Append(queue, output) ELSE queue

BrokerLost ==
    /\ brokerUp /\ outages < Outages /\ outages' = outages + 1 /\ brokerUp' = FALSE
    /\ UNCHANGED <<plantVars, hubVars, orderVars, turns>>
\* _connect_loop: what the broker kept comes first, then the answer to the poll.
BrokerBack ==
    /\ ~brokerUp /\ brokerUp' = TRUE /\ inbox' = Asked(inbox)
    /\ UNCHANGED <<output, toggleIn, reachable, hubVars, orderVars, turns, outages>>

\* Mutant of PollLoop: a device whose state is known is not asked again.
PollUntilKnown ==
    /\ brokerUp /\ inbox = <<>> /\ observed = "none" /\ inbox' = Asked(inbox)
    /\ UNCHANGED <<output, toggleIn, reachable, brokerUp, hubVars, orderVars, turns, outages>>
\* _poll_loop; what was sent before has been read by then.
PollLoop ==
    /\ brokerUp /\ inbox = <<>> /\ inbox' = Asked(inbox)
    /\ UNCHANGED <<output, toggleIn, reachable, brokerUp, hubVars, orderVars, turns, outages>>

\* Gen2State.apply: the value counts from its reception; a null takes it away.
MessageArrives ==
    /\ brokerUp /\ inbox # <<>>
    /\ observed' = IF Head(inbox) = "null" THEN "none" ELSE Head(inbox)
    /\ inbox' = Tail(inbox) /\ observedAge' = 0 /\ fresh2' = TRUE
    /\ UNCHANGED <<output, toggleIn, reachable, brokerUp, toldState, orderVars, turns, outages>>

\* Gen2Device.emit: nothing without a new message, then every known key.
EmitLoop ==
    /\ fresh2 /\ fresh2' = FALSE
    /\ toldState' = IF observed # "none" /\ observedAge <= SwitchStale THEN observed ELSE "unavailable"
    /\ UNCHANGED <<plantVars, brokerUp, observed, observedAge, orderVars, turns, outages>>

\* MqttHub.switch: publish, then look at the observed state until it is the wanted one.
SwitchSent(state, ttl) ==
    /\ brokerUp /\ wanted = "none" /\ commands < SwitchCommands /\ commands' = commands + 1
    /\ wanted' = state /\ confirmed' = FALSE
    /\ IF reachable
       THEN Becomes(state) /\ toggleIn' = ttl
       ELSE UNCHANGED <<output, inbox, toggleIn>>
    /\ UNCHANGED <<reachable, brokerUp, hubVars, turns, outages>>
SwitchReturns ==
    /\ wanted # "none" /\ wanted' = "none" /\ confirmed' = (observed = wanted)
    /\ UNCHANGED <<plantVars, brokerUp, hubVars, commands, turns, outages>>

SwitchNext == TurnedByHand \/ ReadFails \/ SwitchRound \/ NetworkChanges \/ BrokerLost \/ BrokerBack \/ PollLoop
              \/ MessageArrives \/ EmitLoop \/ SwitchReturns
              \/ (\E state \in {"on", "off"}, ttl \in {0, ToggleAfter} : SwitchSent(state, ttl))

\* The loops of MqttHub run, and the broker is there again some time.
SwitchFairness ==
    /\ WF_switchVars(BrokerBack) /\ WF_switchVars(PollLoop) /\ WF_switchVars(MessageArrives)
    /\ WF_switchVars(EmitLoop) /\ WF_switchVars(SwitchRound)
SwitchSpec == SwitchInit /\ [][SwitchNext]_switchVars /\ SwitchFairness

----------------------------------------------------------------------------
SwitchTypeOK ==
    /\ output \in {"on", "off"} /\ toggleIn \in 0..ToggleAfter
    /\ {reachable, brokerUp, fresh2, confirmed} \subseteq BOOLEAN
    /\ inbox \in Seq({"on", "off", "null"}) /\ observed \in {"none", "on", "off"}
    /\ observedAge \in 0..(SwitchStale + 1) /\ wanted \in {"none", "on", "off"}
    /\ toldState \in {"nothing", "unavailable", "on", "off"}
    /\ commands \in 0..SwitchCommands /\ turns \in 0..HandTurns /\ outages \in 0..Outages

\* A change the device could not report, because it or the bridge was away, or because it
\* went back by itself, reaches the cloud in the end.
SwitchKnown == <>[](reachable => toldState = output)

=============================================================================
