--------------------------- MODULE CommandChannel ---------------------------
(***************************************************************************)
(* How a command gets from the API to the bridge and its result back:      *)
(* BridgeHub.send_command and handle, UplinkClient._handle, and the        *)
(* bridge's execute_command between them.  The bridge reads its socket in  *)
(* one loop and executes inside it, so commands queue behind the one that  *)
(* runs.  The caller stops waiting after Timeout; the bridge refuses what  *)
(* is older than MaxAge by its own clock.  Time is counted in units.       *)
(***************************************************************************)
EXTENDS Integers, Sequences, FiniteSets

CONSTANTS
  MaxCommands,   \* commands issued in a behaviour
  Timeout,       \* send_command's timeout_s
  MaxAge,        \* the replay protection of UplinkClient._handle
  Behind,        \* how far the bridge's clock may lag behind the API's
  ExecTime,      \* how long an execution takes at most
  MaxFaults      \* broken lines and restarts in a behaviour

ASSUME ChannelAssumption ==
  /\ MaxCommands \in Nat /\ Timeout \in Nat \ {0} /\ MaxAge \in Nat
  /\ Behind \in Nat /\ ExecTime \in Nat \ {0} /\ MaxFaults \in Nat

VARIABLES
  issued,    \* commands issued so far; a command is its number
  age,       \* time since each was issued, exact up to Oldest
  pending,   \* BridgeHub._pending
  answer,    \* what the caller of each command got
  line,      \* the socket carries frames
  down,      \* commands on their way to the bridge
  running,   \* the command being executed, 0 if none
  up,        \* results on their way back: << command, ok >>
  ran,       \* what became of each command at the bridge
  faults

apiSide == <<issued, pending, answer>>
bridgeSide == <<running, ran>>
wire == <<line, down, up>>
channelVars == <<issued, age, pending, answer, line, down, running, up, ran, faults>>

Commands == 1..MaxCommands
LatestStart == MaxAge + Behind       \* the oldest a command can be when it starts
Oldest == LatestStart + ExecTime + 1
Answers == {"none", "waiting", "ok", "failed", "timeout", "raised"}
Fates == {"no", "running", "done", "failed", "refused"}

ChannelInit ==
  /\ issued = 0 /\ pending = {}
  /\ age = [c \in Commands |-> 0]
  /\ answer = [c \in Commands |-> "none"]
  /\ line = TRUE /\ down = <<>> /\ up = <<>>
  /\ running = 0 /\ ran = [c \in Commands |-> "no"]
  /\ faults = 0

Fresh == issued + 1   \* the command issued next

\* The session of the bridge ends with the line, but not before the command
\* it executes is done.
Connected == line \/ running # 0

DeliverInFront(c) == down' = IF line THEN <<c>> \o down ELSE down

\* The frame of a command goes down the line, behind those before it.
Deliver(c) == down' = IF line THEN Append(down, c) ELSE down

\* send_command: the future is entered, then the frame is sent.  A line that
\* is dead is not always known to be: the frame is lost, or sending raises and
\* the entry stays behind.
Send ==
  /\ issued < MaxCommands
  /\ issued' = Fresh
  /\ pending' = pending \cup {Fresh}
  /\ \/ /\ answer' = [answer EXCEPT ![Fresh] = "waiting"]
        /\ Deliver(Fresh)
     \/ /\ ~line
        /\ answer' = [answer EXCEPT ![Fresh] = "raised"]
        /\ UNCHANGED down
  /\ UNCHANGED <<age, line, up, bridgeSide, faults>>

\* A result, or a refusal, goes back over the session it came from.
ReportDone(c, ok) == up' = IF line THEN Append(up, <<c, TRUE>>) ELSE up

Report(c, ok) == up' = IF line THEN Append(up, <<c, ok>>) ELSE up

TooOldNever(c) == age[c] > Oldest

TooOld(c) == age[c] > LatestStart

\* _handle of a CommandFrame: refused when too old, else handed to on_command.
\* A clock that lags by d \in 0..Behind makes a command look that much younger.
Begin ==
  /\ running = 0 /\ down # <<>>
  /\ down' = Tail(down)
  /\ LET c == Head(down) IN
     \/ /\ ~TooOld(c)
        /\ running' = c
        /\ ran' = [ran EXCEPT ![c] = "running"]
        /\ UNCHANGED up
     \/ /\ age[c] > MaxAge
        /\ ran' = [ran EXCEPT ![c] = "refused"]
        /\ Report(c, FALSE)
        /\ UNCHANGED running
  /\ UNCHANGED <<age, line, apiSide, faults>>

\* execute_command returns.  The device may have switched although the call
\* failed or the state was not confirmed in time, never the other way round.
Finish(switched, ok) ==
  /\ running # 0 /\ (ok => switched)
  /\ ran' = [ran EXCEPT ![running] = IF switched THEN "done" ELSE "failed"]
  /\ running' = 0
  /\ Report(running, ok)
  /\ UNCHANGED <<age, line, down, apiSide, faults>>

\* handle of a CommandResultFrame: the future with this id, if it still waits.
Result ==
  /\ up # <<>>
  /\ up' = Tail(up)
  /\ LET c == Head(up)[1] IN
     /\ pending' = pending \ {c}
     /\ answer' = IF c \in pending /\ answer[c] = "waiting"
                  THEN [answer EXCEPT ![c] = IF Head(up)[2] THEN "ok" ELSE "failed"]
                  ELSE answer
  /\ UNCHANGED <<issued, age, line, down, bridgeSide, faults>>

Expired(c) == answer[c] = "waiting" /\ age[c] >= Timeout

TimeoutFires(c) ==
  /\ Expired(c)
  /\ answer' = [answer EXCEPT ![c] = "timeout"]
  /\ pending' = pending \ {c}
  /\ UNCHANGED <<issued, age, bridgeSide, wire, faults>>

Fault == faults < MaxFaults /\ faults' = faults + 1

LineBreaks ==
  /\ line /\ Fault
  /\ line' = FALSE /\ down' = <<>> /\ up' = <<>>
  /\ UNCHANGED <<age, apiSide, bridgeSide>>

Reconnect ==
  /\ ~Connected
  /\ line' = TRUE
  /\ UNCHANGED <<age, down, up, apiSide, bridgeSide, faults>>

\* A restart of the API takes its futures with it, a restart of the bridge
\* the execution that runs.
ApiRestart ==
  /\ Fault
  /\ answer' = [c \in Commands |-> IF answer[c] = "waiting" THEN "raised" ELSE answer[c]]
  /\ pending' = {}
  /\ line' = FALSE /\ down' = <<>> /\ up' = <<>>
  /\ UNCHANGED <<issued, age, bridgeSide>>

BridgeRestart(switched) ==
  /\ Fault
  /\ line' = FALSE /\ down' = <<>> /\ up' = <<>>
  /\ running' = 0
  /\ ran' = IF running = 0 THEN ran
            ELSE [ran EXCEPT ![running] = IF switched THEN "done" ELSE "failed"]
  /\ (running = 0 => ~switched)
  /\ UNCHANGED <<age, apiSide>>

\* Nothing asks any more how old the command is.
Settled(c) == c > issued \/ (answer[c] # "waiting" /\ ran[c] \notin {"no", "running"})

\* Time passes, but not over a timeout that is due or the end of an execution.
TimePasses ==
  /\ \A c \in Commands : ~Expired(c)
  /\ running # 0 => age[running] < LatestStart + ExecTime
  /\ age' = [c \in Commands |-> IF Settled(c) THEN 0 ELSE IF age[c] < Oldest THEN age[c] + 1 ELSE age[c]]
  /\ UNCHANGED <<apiSide, bridgeSide, wire, faults>>

----------------------------------------------------------------------------
ChannelTypeOK ==
  /\ issued \in 0..MaxCommands /\ pending \subseteq Commands
  /\ age \in [Commands -> 0..Oldest]
  /\ answer \in [Commands -> Answers] /\ ran \in [Commands -> Fates]
  /\ line \in BOOLEAN
  /\ down \in Seq(Commands) /\ up \in Seq(Commands \X BOOLEAN)
  /\ running \in 0..MaxCommands /\ faults \in 0..MaxFaults

\* A caller that is told its command succeeded is told so of its own command,
\* and the device did switch; one that hears of a failure does not hear it of
\* a command that still waits to be executed.
AnswersAreTrue ==
  \A c \in Commands :
    /\ answer[c] = "ok" => ran[c] = "done"
    /\ answer[c] = "failed" => ran[c] \in {"done", "failed", "refused"}

\* A command its caller has given up may still be executed, but only as long
\* as it is not older than LatestStart: after that it starts no more.
NoLateStart ==
  [][\A c \in Commands : age[c] > LatestStart /\ ran[c] = "no" => ran'[c] \in {"no", "refused"}]_channelVars

\* Commands are executed in the order in which they were issued, across
\* timeouts, broken lines and restarts.
OrderKept ==
  [][\A c, d \in Commands : c < d /\ ran[d] \in {"running", "done", "failed"} /\ ran[c] = "no" => ran'[c] = "no"]_channelVars

=============================================================================
