-------------------------- MODULE ContactActuation --------------------------
(***************************************************************************)
(* From a decision about the release contact K1 to the contact itself:     *)
(* LiveRuntime.control_tick and _apply_contacts, the command channel,      *)
(* Bridge.execute_command on its way through Home Assistant, the guardian  *)
(* of the bridge and the timer in the device.  The controller is left      *)
(* open: it may want K1 closed or open at any tick.                        *)
(***************************************************************************)
EXTENDS CommandChannel

CONSTANTS
  Lease,           \* hw_auto_off_release_s, and the timer of the device
  OfflineRelease,  \* offline_release_s
  HaFails,         \* whether calls to Home Assistant may fail
  DeviceTimer,     \* whether the device has an auto-off timer of its own
  Unknown          \* no decision yet, no state reported yet

None == -1                    \* no instant remembered
Tickers == {"loop", "user"}   \* _control_loop, and a request that sets the mode

ASSUME ContactAssumption ==
  /\ Lease \in Nat \ {0} /\ OfflineRelease \in Nat /\ DeviceTimer \in BOOLEAN /\ HaFails \in BOOLEAN
  /\ Unknown \notin BOOLEAN

VARIABLES
  k1,          \* k1_release of the last decision
  phase,       \* where each ticker is: idle, saving (add_decision), sending
  carried,     \* the decision each ticker is about to send
  cmd,         \* the command each ticker waits for
  wants,       \* what each command asks for
  sentAge,     \* time since _k1_sent_at
  ticked,      \* who has ticked in this unit of time, each once at most
  contact,     \* K1 is closed
  onAge,       \* time since the device was told to close, while it is closed
  silence,     \* seconds_since_contact
  released,    \* _released_contacts_after_offline
  wantAge      \* history: time since a decision last wanted K1 closed

apiVars == <<k1, phase, carried, cmd, wants, sentAge, ticked, wantAge>>
houseVars == <<contact, onAge, silence, released>>
vars == <<channelVars, apiVars, houseVars>>

LeaseBound == Lease + LatestStart + ExecTime   \* K1 closed after the last wish at most this long

Init ==
  /\ ChannelInit
  /\ k1 = Unknown /\ phase = [t \in Tickers |-> "idle"]
  /\ carried = [t \in Tickers |-> FALSE] /\ cmd = [t \in Tickers |-> 0]
  /\ wants = [c \in Commands |-> FALSE]
  /\ sentAge = None /\ ticked = {} /\ wantAge = LeaseBound + 1
  /\ contact = FALSE /\ onAge = 0
  /\ silence = 0 /\ released = FALSE

----------------------------------------------------------------------------
(* The API. *)

\* hub.online: a frame within the last minute.  A working line carries them
\* all the time, a dead one is noticed late.
Online == IF line THEN {TRUE} ELSE BOOLEAN

\* _apply_contacts up to the await of the answer; sending may raise, which
\* ends the tick.  The decision was taken within this unit of time.
ApplyContacts(t, close) ==
  \/ /\ FALSE \in Online
     /\ phase' = [phase EXCEPT ![t] = "idle"]
     /\ UNCHANGED <<cmd, wants, sentAge, channelVars>>
  \/ /\ TRUE \in Online
     /\ Send
     /\ sentAge' = 0
     /\ wants' = [wants EXCEPT ![Fresh] = close]
     /\ cmd' = [cmd EXCEPT ![t] = Fresh]
     /\ phase' = [phase EXCEPT ![t] = "sending"]

HalfLease == (Lease + 1) \div 2
RefreshDue == sentAge = None \/ sentAge >= HalfLease

\* The bound on commands leaves one for every decision that is on its way.
CanSend == issued + Cardinality({t \in Tickers : phase[t] = "saving"}) < MaxCommands

\* control_tick: a changed decision is stored, then sent; a release that is
\* unchanged is sent again after half of the lease.
ControlTick(t) ==
  /\ phase[t] = "idle" /\ t \notin ticked
  /\ ticked' = ticked \cup {t}
  /\ \E close \in BOOLEAN :
       /\ k1' = close
       /\ wantAge' = IF close THEN 0 ELSE wantAge
       /\ \/ /\ CanSend                       \* changed: K1, the state or the reason
             /\ phase' = [phase EXCEPT ![t] = "saving"]
             /\ carried' = [carried EXCEPT ![t] = close]
             /\ UNCHANGED <<cmd, wants, sentAge, channelVars>>
          \/ /\ close = k1 /\ close /\ RefreshDue /\ CanSend
             /\ ApplyContacts(t, close)
             /\ UNCHANGED carried
          \/ /\ close = k1 /\ ~(close /\ RefreshDue)
             /\ UNCHANGED <<phase, carried, cmd, wants, sentAge, channelVars>>
  /\ UNCHANGED houseVars

\* add_decision returns and the decision this ticker took is sent, whatever
\* was decided in the meantime.
Saved(t) ==
  /\ phase[t] = "saving"
  /\ ApplyContacts(t, carried[t])
  /\ carried' = [carried EXCEPT ![t] = FALSE]
  /\ UNCHANGED <<k1, ticked, wantAge, houseVars>>

\* send_command returns: a failure is only recorded.
Answered(t) ==
  /\ phase[t] = "sending" /\ answer[cmd[t]] # "waiting"
  /\ phase' = [phase EXCEPT ![t] = "idle"]
  /\ cmd' = [cmd EXCEPT ![t] = 0]
  /\ UNCHANGED <<channelVars, k1, carried, wants, sentAge, ticked, wantAge, houseVars>>

\* A restart: a new controller, a new runtime.
RestartApi ==
  /\ ApiRestart
  /\ k1' = Unknown /\ sentAge' = None
  /\ phase' = [t \in Tickers |-> "idle"] /\ cmd' = [t \in Tickers |-> 0]
  /\ carried' = [t \in Tickers |-> FALSE]
  /\ UNCHANGED <<wants, ticked, wantAge, houseVars>>

----------------------------------------------------------------------------
(* The bridge and the house. *)

SwitchKeepsTimer(close) == contact' = close /\ onAge' = IF contact THEN onAge ELSE 0

Switch(close) == contact' = close /\ onAge' = 0

\* execute_command by way of Home Assistant: the lifetime in the command is
\* not passed on, so closing lasts as long as the device's own timer, if any.
Execute(switched, ok) ==
  /\ Finish(switched, ok)
  /\ switched \/ HaFails
  /\ IF switched THEN Switch(wants[running]) ELSE UNCHANGED <<contact, onAge>>
  /\ UNCHANGED <<apiVars, silence, released>>

Offline == ~Connected /\ (silence = None \/ silence > OfflineRelease)

\* One round of _guardian_loop: one attempt per outage.  It is made when Home
\* Assistant last reported the contact closed, and may fail.
Guardian ==
  /\ IF Offline /\ ~released
     THEN /\ released' = TRUE
          /\ \/ Switch(FALSE)
             \/ (~contact \/ HaFails) /\ UNCHANGED <<contact, onAge>>
     ELSE /\ released' = (released /\ ~Connected)
          /\ UNCHANGED <<contact, onAge>>
  /\ UNCHANGED <<channelVars, apiVars, silence>>

RestartBridge ==
  /\ \E switched \in BOOLEAN :
       /\ BridgeRestart(switched)
       /\ IF switched THEN Switch(wants[running]) ELSE UNCHANGED <<contact, onAge>>
  /\ silence' = None /\ released' = FALSE
  /\ UNCHANGED apiVars

----------------------------------------------------------------------------
\* What happens in the channel alone.
Channel ==
  /\ \/ Begin \/ Result \/ LineBreaks
     \/ \E c \in Commands : TimeoutFires(c)
  /\ UNCHANGED <<apiVars, houseVars>>

Connect ==
  /\ Reconnect
  /\ silence' = 0
  /\ UNCHANGED <<apiVars, contact, onAge, released>>

Later(a, limit) == IF a = None \/ a >= limit THEN a ELSE a + 1

\* A unit of time, the period of the control loop.  The database answers and
\* the loop ticks within it, unless the loop waits for an answer.
Tick ==
  /\ TimePasses
  /\ \A t \in Tickers : phase[t] # "saving"
  /\ \/ "loop" \in ticked \/ issued = MaxCommands
     \/ phase["loop"] = "sending" /\ answer[cmd["loop"]] = "waiting"
  /\ ticked' = {}
  /\ sentAge' = Later(sentAge, HalfLease)
  /\ wantAge' = IF k1 = TRUE THEN 0 ELSE Later(wantAge, LeaseBound + 1)
  /\ silence' = IF line THEN 0 ELSE Later(silence, OfflineRelease + 1)
  /\ IF DeviceTimer /\ contact /\ onAge + 1 >= Lease
     THEN Switch(FALSE)
     ELSE /\ onAge' = IF contact /\ onAge < Lease THEN onAge + 1 ELSE onAge
          /\ UNCHANGED contact
  /\ UNCHANGED <<k1, phase, carried, cmd, wants, released>>

Next ==
  \/ \E t \in Tickers : ControlTick(t) \/ Saved(t) \/ Answered(t)
  \/ \E switched, ok \in BOOLEAN : Execute(switched, ok)
  \/ RestartApi \/ RestartBridge
  \/ Guardian
  \/ Channel \/ Connect \/ Tick

Spec == Init /\ [][Next]_vars

----------------------------------------------------------------------------
TypeOK ==
  /\ ChannelTypeOK
  /\ k1 \in BOOLEAN \cup {Unknown}
  /\ phase \in [Tickers -> {"idle", "saving", "sending"}]
  /\ carried \in [Tickers -> BOOLEAN] /\ cmd \in [Tickers -> 0..MaxCommands]
  /\ wants \in [Commands -> BOOLEAN]
  /\ sentAge \in None..HalfLease /\ silence \in None..OfflineRelease + 1
  /\ onAge \in 0..Lease /\ wantAge \in 0..LeaseBound + 1
  /\ ticked \subseteq Tickers /\ contact \in BOOLEAN /\ released \in BOOLEAN

\* K1 stays closed for no longer than LeaseBound after the last decision that
\* wanted it, whatever is lost, late, refused, restarted or sent in the wrong
\* order: an opening that does not arrive is not sent again, so this rests on
\* the timer of the device alone.
LeaseHolds == contact => wantAge <= LeaseBound

\* The promise of the bridge's documentation: once it has been without the
\* cloud for offline_release_s and the guardian has come round, K1 is open.
GuardianReleases == released /\ Offline => ~contact

\* A release that is still wanted is renewed before the device's timer ends
\* it, as long as no call failed and no line broke: K1 does not drop out of a
\* run by itself.
Undisturbed ==
  /\ faults = 0 /\ (RefreshDue => issued < MaxCommands)
  /\ \A c \in 1..issued : wants[c] /\ answer[c] \notin {"failed", "timeout"}

RenewedInTime ==
  [][contact /\ k1 = TRUE /\ Undisturbed => contact']_vars

=============================================================================
