--------------------------- MODULE TelemetryUplink ---------------------------
(***************************************************************************)
(* The telemetry path from the house to the cloud: Outbox and UplinkClient *)
(* in the bridge, /bridge/ws and BridgeHub in the API.                     *)
(*                                                                         *)
(* The bridge numbers every telemetry frame, keeps it in SQLite and        *)
(* deletes it on a cumulative acknowledgement.  A session is               *)
(*    hello -> welcome -> drain the outbox -> live,                        *)
(* and `publish` sends a fresh frame in every one of those phases.  The    *)
(* API runs one task per websocket; the tasks share the hub's _ws and      *)
(* last_seq, and a task awaits the database while it handles a frame and   *)
(* the old socket's close while it serves a new one.                       *)
(*                                                                         *)
(* A frame is its sequence number.  Connections are numbered in the order  *)
(* in which the bridge opens them.                                         *)
(***************************************************************************)
EXTENDS Naturals, Sequences

CONSTANTS
  MaxSeq,     \* bound: telemetry frames published in a behaviour
  MaxConn,    \* bound: connections the bridge opens in a behaviour
  MaxFaults,  \* bound: crashes, broken connections and failed database writes
  LateHello   \* TRUE: the API may serve an older connection after a newer one

ASSUME ConstantsAssumption ==
  /\ MaxSeq \in Nat
  /\ MaxConn \in Nat
  /\ MaxFaults \in Nat
  /\ LateHello \in BOOLEAN

VARIABLES
  lastSeq,    \* outbox, meta.last_seq (durable)
  outbox,     \* outbox, the rows (durable)
  lastAck,    \* UplinkClient.last_ack_seq
  phase,      \* where UplinkClient._session is
  conn,       \* the connection the bridge opened last (0: none yet)
  cursor,     \* `after` of _drain_backlog
  open,       \* connections neither end has closed
  up,         \* up[c]: frames on their way to the API
  down,       \* down[c]: frames on their way to the bridge
  task,       \* task[c]: where the task bridge_ws of connection c is
  work,       \* work[c]: number of the frame that task is handling
  hubWs,      \* BridgeHub._ws (0: None)
  hubSeq,     \* BridgeHub.last_seq
  stored,     \* frames on_telemetry has committed (durable)
  faults,     \* faults so far
  overtaken   \* history: frames that waited in the outbox when a fresher one was sent live

bridgeVars == <<lastSeq, outbox, lastAck, phase, conn, cursor>>
apiVars    == <<task, work, hubWs, hubSeq, stored>>
wireVars   == <<open, up, down>>
vars == <<bridgeVars, apiVars, wireVars, faults, overtaken>>

Conns  == 1..MaxConn
Seqs   == 1..MaxSeq
Phases == {"off", "hello", "drain", "live"}
Tasks  == {"none", "accepted", "closing", "idle", "storing", "gone"}

\* An acknowledgement names a frame; hello names the last acknowledged frame (0: none)
\* and welcome the next one the API expects.
UpFrames   == [type : {"telemetry", "backlog"}, seq : Seqs] \cup [type : {"hello"}, seq : 0..MaxSeq]
DownFrames == [type : {"ack"}, seq : Seqs] \cup [type : {"welcome"}, seq : 1..MaxSeq+1]
Msg(t, n) == [type |-> t, seq |-> n]

\* A send on a connection that is closed already reaches nobody.
Send(ch, c, m) == IF c \in open THEN [ch EXCEPT ![c] = Append(@, m)] ELSE ch
Prefixes(s)    == {SubSeq(s, 1, n) : n \in 0..Len(s)}

Init ==
  /\ lastSeq = 0 /\ outbox = {} /\ lastAck = 0
  /\ phase = "off" /\ conn = 0 /\ cursor = 0
  /\ open = {}
  /\ up = [c \in Conns |-> <<>>]
  /\ down = [c \in Conns |-> <<>>]
  /\ task = [c \in Conns |-> "none"]
  /\ work = [c \in Conns |-> 0]
  /\ hubWs = 0 /\ hubSeq = 0
  /\ stored = {}
  /\ faults = 0
  /\ overtaken = {}

----------------------------------------------------------------------------
\* The bridge

\* UplinkClient.publish: next_seq, put and, when connected, send at once - in
\* every phase, so also past frames the drain has yet to send.
Publish ==
  LET s == lastSeq + 1 IN
  /\ lastSeq < MaxSeq
  /\ lastSeq' = s
  /\ outbox' = outbox \cup {s}
  /\ IF phase = "off"
       THEN UNCHANGED <<up, overtaken>>
       ELSE /\ up' = Send(up, conn, Msg("telemetry", s))
            /\ overtaken' = IF phase = "live" THEN overtaken
                            ELSE overtaken \cup {t \in outbox : t > cursor}
  /\ UNCHANGED <<lastAck, phase, conn, cursor, open, down, apiVars, faults>>

\* UplinkClient._session up to hello.  cursor already names the last frame
\* the bridge will not send again (welcome echoes it).
Connect ==
  /\ phase = "off"
  /\ conn < MaxConn
  /\ conn' = conn + 1
  /\ phase' = "hello"
  /\ cursor' = lastAck
  /\ open' = open \cup {conn + 1}
  /\ up' = [up EXCEPT ![conn + 1] = <<Msg("hello", lastAck)>>]
  /\ task' = [task EXCEPT ![conn + 1] = "accepted"]
  /\ UNCHANGED <<lastSeq, outbox, lastAck, down, work, hubWs, hubSeq, stored,
                 faults, overtaken>>

\* The drain starts behind the last frame the API has (`after = resume_from - 1`).
\* Mutant: it starts behind the next one.
ResumeCursorSkipsOne(resume) == resume
ResumeCursor(resume) == resume - 1

\* The welcome is read and the drain starts behind resume_from_seq.
RecvWelcome ==
  /\ phase = "hello"
  /\ down[conn] # <<>>
  /\ Head(down[conn]).type = "welcome"
  /\ cursor' = ResumeCursor(Head(down[conn]).seq)
  /\ phase' = "drain"
  /\ down' = [down EXCEPT ![conn] = Tail(@)]
  /\ UNCHANGED <<lastSeq, outbox, lastAck, conn, open, up, apiVars, faults, overtaken>>

\* _drain_backlog: the oldest row behind the cursor.
Drain ==
  /\ phase = "drain"
  /\ \E s \in outbox :
       /\ s > cursor
       /\ \A t \in outbox : t > cursor => s <= t
       /\ up' = Send(up, conn, Msg("backlog", s))
       /\ cursor' = s
  /\ UNCHANGED <<lastSeq, outbox, lastAck, phase, conn, open, down, apiVars,
                 faults, overtaken>>

Drained ==
  /\ phase = "drain"
  /\ \A s \in outbox : s <= cursor
  /\ phase' = "live"
  /\ UNCHANGED <<lastSeq, outbox, lastAck, conn, cursor, wireVars, apiVars,
                 faults, overtaken>>

\* Outbox.ack: DELETE ... WHERE seq <= n.
\* Mutants: the frame acknowledged itself stays; everything is deleted.
UnacknowledgedStrict(n) == {s \in outbox : s >= n}
UnacknowledgedNone(n) == {s \in {} : s > n}
Unacknowledged(n) == {s \in outbox : s > n}

\* _handle(AckFrame): everything up to the acknowledged number is deleted.
RecvAck ==
  /\ phase = "live"
  /\ down[conn] # <<>>
  /\ LET a == Head(down[conn]) IN
     /\ a.type = "ack"
     /\ lastAck' = IF a.seq > lastAck THEN a.seq ELSE lastAck
     /\ outbox' = Unacknowledged(a.seq)
  /\ down' = [down EXCEPT ![conn] = Tail(@)]
  /\ UNCHANGED <<lastSeq, phase, conn, cursor, open, up, apiVars, faults, overtaken>>

\* The session ends: what was not delivered yet is lost from some point on.
EndSession ==
  /\ phase' = "off"
  /\ open' = open \ {conn}
  /\ \E p \in Prefixes(up[conn]) : up' = [up EXCEPT ![conn] = p]
  /\ down' = [down EXCEPT ![conn] = <<>>]

\* A broken line, a missing pong, no welcome within 15 s.
ConnectionLost ==
  /\ phase # "off" /\ faults < MaxFaults
  /\ EndSession
  /\ faults' = faults + 1
  /\ UNCHANGED <<lastSeq, outbox, lastAck, conn, cursor, apiVars, overtaken>>

\* The bridge notices that the API has closed its connection.
SeesClose ==
  /\ phase # "off" /\ conn \notin open
  /\ EndSession
  /\ UNCHANGED <<lastSeq, outbox, lastAck, conn, cursor, apiVars, faults, overtaken>>

\* The add-on stops and starts again: SQLite survives, last_ack_seq does not.
BridgeRestart ==
  /\ faults < MaxFaults /\ conn > 0
  /\ EndSession
  /\ lastAck' = 0
  /\ faults' = faults + 1
  /\ UNCHANGED <<lastSeq, outbox, conn, cursor, apiVars, overtaken>>

----------------------------------------------------------------------------
\* The API: one task bridge_ws per connection

\* A new connection counts from the bridge's last acknowledged number.
\* Mutant: it counts that number's successor as seen.
SeenOnHelloOneMore(acked) == acked + 1
SeenOnHello(acked) == acked

\* The rest of BridgeHub.serve, from `self._ws = ws` to the welcome.
Enter(c, acked) ==
  /\ hubWs' = c
  /\ hubSeq' = SeenOnHello(acked)
  /\ task' = [task EXCEPT ![c] = "idle"]
  /\ down' = Send(down, c, Msg("welcome", SeenOnHello(acked) + 1))

\* With LateHello = FALSE connections are served one after the other, in their order.
InOrder(c) ==
  \/ LateHello
  \/ \A d \in Conns : /\ d > c => task[d] \in {"none", "accepted"}
                      /\ d < c => task[d] # "closing"

\* While the old socket is being closed the hub still holds it.
HubWhileClosing(c) == hubWs

\* hello arrives: serve() takes over at once, or first awaits the old socket's close.
RecvHello(c) ==
  /\ task[c] = "accepted" /\ InOrder(c)
  /\ up[c] # <<>>
  /\ up' = [up EXCEPT ![c] = Tail(@)]
  /\ work' = [work EXCEPT ![c] = Head(up[c]).seq]
  /\ IF hubWs = 0
       THEN Enter(c, Head(up[c]).seq) /\ UNCHANGED open
       ELSE /\ open' = open \ {hubWs}
            /\ task' = [task EXCEPT ![c] = "closing"]
            /\ hubWs' = HubWhileClosing(c)
            /\ UNCHANGED <<hubSeq, down>>
  /\ UNCHANGED <<bridgeVars, stored, faults, overtaken>>

\* The close of the superseded socket has been awaited.
Superseded(c) ==
  /\ task[c] = "closing" /\ InOrder(c)
  /\ Enter(c, work[c])
  /\ UNCHANGED <<bridgeVars, work, stored, open, up, faults, overtaken>>

\* handle(): a frame with a new number, or any backlog frame, goes to on_telemetry.
RecvFrame(c) ==
  /\ task[c] = "idle" /\ up[c] # <<>>
  /\ LET f == Head(up[c]) IN
     /\ f.seq > hubSeq \/ f.type = "backlog"
     /\ work' = [work EXCEPT ![c] = f.seq]
  /\ task' = [task EXCEPT ![c] = "storing"]
  /\ up' = [up EXCEPT ![c] = Tail(@)]
  /\ UNCHANGED <<bridgeVars, hubWs, hubSeq, stored, open, down, faults, overtaken>>

\* hub.disconnected(ws) forgets the socket only if it is the one the hub holds.
\* Mutant: any task that ends clears it.
HubWithoutAny(c) == 0
HubWithout(c) == IF hubWs = c THEN 0 ELSE hubWs

\* A task ends (the finally of bridge_ws).
Leave(c) ==
  /\ task' = [task EXCEPT ![c] = "gone"]
  /\ hubWs' = HubWithout(c)

\* The acknowledgement goes to the connection the hub holds now, not to the one
\* the frame came by.  If that one is closed the send may raise: the task ends.
Ack(c, s) ==
  \/ /\ down' = IF hubWs = 0 THEN down ELSE Send(down, hubWs, Msg("ack", s))
     /\ task' = [task EXCEPT ![c] = "idle"]
     /\ UNCHANGED <<hubWs, open>>
  \/ /\ hubWs \notin open \cup {0}
     /\ Leave(c)
     /\ open' = open \ {c}
     /\ UNCHANGED down

\* handle(): a live frame whose number is not new is dropped and acknowledged.
SkipFrame(c) ==
  /\ task[c] = "idle" /\ up[c] # <<>>
  /\ LET f == Head(up[c]) IN
     /\ f.seq <= hubSeq /\ f.type = "telemetry"
     /\ Ack(c, f.seq)
  /\ up' = [up EXCEPT ![c] = Tail(@)]
  /\ UNCHANGED <<bridgeVars, work, hubSeq, stored, faults, overtaken>>

\* on_telemetry returns: committed, counted, acknowledged.
Stored(c) ==
  /\ task[c] = "storing"
  /\ stored' = stored \cup {work[c]}
  /\ hubSeq' = IF work[c] > hubSeq THEN work[c] ELSE hubSeq
  /\ Ack(c, work[c])
  /\ UNCHANGED <<bridgeVars, work, up, faults, overtaken>>

\* on_telemetry raises (database gone): the task ends and takes the socket along.
StoreFails(c) ==
  /\ task[c] = "storing" /\ faults < MaxFaults
  /\ faults' = faults + 1
  /\ Leave(c)
  /\ open' = open \ {c}
  /\ UNCHANGED <<bridgeVars, work, hubSeq, stored, up, down, overtaken>>

\* WebSocketDisconnect from receive_text or send_text; frames not yet read are lost.
Disconnected(c) ==
  /\ task[c] \in {"accepted", "idle"}
  /\ c \notin open
  /\ Leave(c)
  /\ UNCHANGED <<bridgeVars, work, hubSeq, stored, wireVars, faults, overtaken>>

\* The API process restarts: last_seq is in memory only.
ApiRestart ==
  /\ faults < MaxFaults /\ conn > 0
  /\ faults' = faults + 1
  /\ open' = {}
  /\ up' = [c \in Conns |-> <<>>]
  /\ task' = [c \in Conns |-> IF task[c] = "none" THEN "none" ELSE "gone"]
  /\ hubWs' = 0 /\ hubSeq' = 0
  /\ UNCHANGED <<bridgeVars, work, stored, down, overtaken>>

----------------------------------------------------------------------------
Bridge == Connect \/ RecvWelcome \/ Drain \/ Drained \/ RecvAck \/ SeesClose
Api(c) == \/ RecvHello(c) \/ Superseded(c) \/ RecvFrame(c) \/ SkipFrame(c)
          \/ Stored(c) \/ Disconnected(c)
Fault  == ConnectionLost \/ BridgeRestart \/ ApiRestart
            \/ \E c \in Conns : StoreFails(c)

Next == Publish \/ Bridge \/ Fault \/ \E c \in Conns : Api(c)

Spec == Init /\ [][Next]_vars

----------------------------------------------------------------------------
TypeOK ==
  /\ lastSeq \in 0..MaxSeq
  /\ outbox \subseteq Seqs
  /\ lastAck \in 0..MaxSeq
  /\ phase \in Phases
  /\ conn \in 0..MaxConn
  /\ cursor \in 0..MaxSeq
  /\ open \subseteq Conns
  /\ up \in [Conns -> Seq(UpFrames)]
  /\ down \in [Conns -> Seq(DownFrames)]
  /\ task \in [Conns -> Tasks]
  /\ work \in [Conns -> 0..MaxSeq]
  /\ hubWs \in 0..MaxConn
  /\ hubSeq \in 0..MaxSeq
  /\ stored \subseteq Seqs
  /\ faults \in 0..MaxFaults
  /\ overtaken \subseteq Seqs

\* "Erst nach der Bestaetigung der API geloescht": a published frame is in the
\* outbox or in the database.
NoLoss == 1..lastSeq \subseteq outbox \cup stored

\* The only way to lose a frame: it waited for the drain when a fresher one was
\* sent ahead of it, so that the fresher one's acknowledgement deletes it.
LossOnlyByOvertaking == 1..lastSeq \subseteq outbox \cup stored \cup overtaken

\* Dropping a live frame as "not new" (and acknowledging it) never costs data:
\* what the API counts as seen is stored, or was overtaken.
SkipsOnlyStored ==
  \A c \in Conns : task[c] = "idle" /\ up[c] # <<>> =>
     LET f == Head(up[c]) IN
     f.type = "telemetry" /\ f.seq <= hubSeq => f.seq \in stored \cup overtaken

\* "Neuere gewinnt": a connection that got its welcome and that neither end has
\* closed is the one the hub holds, so it receives acknowledgements and commands.
NewestWins ==
  \A c \in open : task[c] \in {"idle", "storing"} => hubWs = c

\* The whole path keeps the promise of StoreAndForward.
Promise == INSTANCE StoreAndForward
             WITH published <- lastSeq, kept <- outbox, delivered <- stored, waived <- overtaken
ImplementsPromise == Promise!Spec

\* The bridge's session and reconnect loop and the API's event loop keep running; the
\* house may stop publishing, and faults need not happen.
Fairness == WF_vars(Bridge) /\ \A c \in Conns : WF_vars(Api(c))
FairSpec == Spec /\ Fairness

\* Every published frame leaves the outbox, that is, is acknowledged in the end.
EventuallyAcknowledged == \A s \in Seqs : s <= lastSeq ~> s \notin outbox
=============================================================================
