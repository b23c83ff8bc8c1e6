----------------------------- MODULE ContactProofs -----------------------------
(***************************************************************************)
(* Proofs about CommandChannel and ContactActuation, for any number of     *)
(* commands and faults and every limit: the types, that answers are true,  *)
(* that no command starts late or out of order, that K1 is not closed for  *)
(* longer than the lease after the last decision that wanted it, and that  *)
(* a release that is still wanted is renewed before the lease is over.     *)
(*                                                                         *)
(* First the channel alone, for the steps of every caller; then the        *)
(* contact.  A command that may still close K1 is at least as old as the   *)
(* last wish: that, with the age at which the bridge refuses, bounds how   *)
(* late a closing can be.                                                  *)
(***************************************************************************)
EXTENDS ContactActuation, SequenceTheorems, TLAPS

Ended == {"done", "failed", "refused"}

\* A command that has not been issued has left no trace.
NotIssued ==
  /\ \A c \in Commands : c > issued => answer[c] = "none" /\ ran[c] = "no" /\ age[c] = 0
  /\ \A i \in DOMAIN down : down[i] <= issued
  /\ running <= issued

OneRuns == \A c \in Commands : ran[c] = "running" <=> c = running

\* The commands on the line are in order, and nothing behind one of them has been read.
DownInOrder ==
  /\ \A i, j \in DOMAIN down : i < j => down[i] < down[j]
  /\ \A i \in DOMAIN down : \A d \in Commands : d >= down[i] => ran[d] = "no"

\* A result on its way back says what happened.
ResultsTrue ==
  \A i \in DOMAIN up : /\ ran[up[i][1]] \in Ended
                       /\ up[i][2] => ran[up[i][1]] = "done"

\* An execution is over before the command is older than it may be.
RunsInTime == running # 0 => age[running] <= LatestStart + ExecTime

ChannelInv ==
  ChannelTypeOK /\ NotIssued /\ OneRuns /\ DownInOrder /\ ResultsTrue /\ AnswersAreTrue /\ RunsInTime

ChannelStep ==
  \/ Send \/ Begin \/ Result \/ LineBreaks \/ Reconnect \/ ApiRestart \/ TimePasses
  \/ \E switched, ok \in BOOLEAN : Finish(switched, ok)
  \/ \E switched \in BOOLEAN : BridgeRestart(switched)
  \/ \E c \in Commands : TimeoutFires(c)

----------------------------------------------------------------------------
(* The line *)

\* The limits of the channel are numbers.
LEMMA ChannelNumbers ==
  /\ MaxCommands \in Nat /\ Timeout \in Nat \ {0} /\ MaxAge \in Nat
  /\ Behind \in Nat /\ ExecTime \in Nat \ {0} /\ MaxFaults \in Nat
  /\ LatestStart \in Nat /\ Oldest \in Nat /\ Oldest = LatestStart + ExecTime + 1
  <1>1. /\ MaxCommands \in Nat /\ Timeout \in Nat \ {0} /\ MaxAge \in Nat
        /\ Behind \in Nat /\ ExecTime \in Nat \ {0} /\ MaxFaults \in Nat
    BY ChannelAssumption
  <1> QED
    BY <1>1 DEF LatestStart, Oldest

\* What a queue holds after a message is added.
LEMMA Added ==
  ASSUME NEW S, NEW queue \in Seq(S), NEW m \in S
  PROVE  LET longer == Append(queue, m) IN
         /\ longer \in Seq(S) /\ Len(queue) \in Nat
         /\ DOMAIN queue = 1..Len(queue) /\ DOMAIN longer = 1..(Len(queue) + 1)
         /\ \A i \in DOMAIN queue : longer[i] = queue[i]
         /\ longer[Len(queue) + 1] = m
  BY LenProperties, AppendProperties

\* What a queue holds after its first message is taken.
LEMMA Taken ==
  ASSUME NEW S, NEW queue \in Seq(S), queue # <<>>
  PROVE  LET rest == Tail(queue) IN
         /\ rest \in Seq(S) /\ Len(queue) \in Nat /\ Len(queue) > 0
         /\ DOMAIN queue = 1..Len(queue) /\ DOMAIN rest = 1..(Len(queue) - 1)
         /\ \A i \in DOMAIN rest : i \in Nat /\ i > 0 /\ i + 1 \in DOMAIN queue /\ rest[i] = queue[i + 1]
         /\ Head(queue) = queue[1] /\ 1 \in DOMAIN queue /\ Head(queue) \in S
  <1>1. Len(queue) \in Nat /\ Len(queue) > 0 /\ DOMAIN queue = 1..Len(queue)
    BY LenProperties, EmptySeq
  <1>2. Tail(queue) \in Seq(S) /\ Len(Tail(queue)) = Len(queue) - 1
    BY HeadTailProperties
  <1>3. DOMAIN Tail(queue) = 1..(Len(queue) - 1)
    BY <1>2, LenProperties
  <1>4. \A i \in 1..(Len(queue) - 1) : Tail(queue)[i] = queue[i + 1]
    BY <1>2, HeadTailProperties
  <1>5. Head(queue) = queue[1] /\ Head(queue) \in S
    BY <1>1, HeadTailProperties, ElementOfSeq
  <1> QED
    BY <1>1, <1>2, <1>3, <1>4, <1>5

\* The types of the channel, one by one.
ChannelTyped ==
  /\ issued \in Nat /\ issued <= MaxCommands /\ pending \subseteq Commands
  /\ age \in [Commands -> 0..Oldest]
  /\ answer \in [Commands -> Answers] /\ ran \in [Commands -> Fates]
  /\ running \in Nat /\ running <= MaxCommands
  /\ \A c \in Commands : c \in Nat /\ c > 0 /\ c <= MaxCommands
  /\ \A c \in Nat : c > 0 /\ c <= MaxCommands => c \in Commands
  /\ \A i \in DOMAIN down : i \in Nat /\ i > 0 /\ down[i] \in Commands /\ down[i] \in Nat
  /\ \A i \in DOMAIN up : up[i][1] \in Commands /\ up[i][2] \in BOOLEAN

LineTyped ==
  /\ line \in BOOLEAN /\ faults \in 0..MaxFaults
  /\ down \in Seq(Commands) /\ DOMAIN down = 1..Len(down) /\ Len(down) \in Nat
  /\ up \in Seq(Commands \X BOOLEAN) /\ DOMAIN up = 1..Len(up) /\ Len(up) \in Nat

LEMMA ChannelTypes ==
  ASSUME ChannelInv
  PROVE  ChannelTyped /\ LineTyped
  <1>1. ChannelTypeOK
    BY DEF ChannelInv
  <1>2. /\ \A c \in Commands : c \in Nat /\ c > 0 /\ c <= MaxCommands
        /\ \A c \in Nat : c > 0 /\ c <= MaxCommands => c \in Commands
    BY ChannelNumbers DEF Commands
  <1>3. /\ DOMAIN down = 1..Len(down) /\ Len(down) \in Nat
        /\ DOMAIN up = 1..Len(up) /\ Len(up) \in Nat
    BY <1>1, LenProperties DEF ChannelTypeOK, LineTyped
  <1>4. \A i \in DOMAIN down : down[i] \in Commands /\ down[i] \in Nat
    BY <1>1, <1>2, <1>3, ElementOfSeq DEF ChannelTypeOK
  <1>5. \A i \in DOMAIN up : up[i][1] \in Commands /\ up[i][2] \in BOOLEAN
    <2>1. TAKE i \in DOMAIN up
    <2>2. up[i] \in Commands \X BOOLEAN
      BY <1>1, <1>3, <2>1, ElementOfSeq DEF ChannelTypeOK
    <2> QED
      BY <2>2
  <1>6. /\ issued \in Nat /\ issued <= MaxCommands /\ running \in Nat /\ running <= MaxCommands
    BY <1>1, ChannelNumbers DEF ChannelTypeOK
  <1>7. ChannelTyped
    <2>1. \A i \in DOMAIN down : i \in Nat /\ i > 0
      BY <1>3
    <2> QED
      BY <1>1, <1>2, <1>4, <1>5, <1>6, <2>1 DEF ChannelTypeOK, ChannelTyped
  <1> QED
    BY <1>1, <1>3, <1>7 DEF ChannelTypeOK, LineTyped

----------------------------------------------------------------------------
(* The invariant of the channel is kept *)

LEMMA ChannelInitInv == ChannelInit => ChannelInv
  <1> SUFFICES ASSUME ChannelInit PROVE ChannelInv
    OBVIOUS
  <1>1. down \in Seq(Commands) /\ up \in Seq(Commands \X BOOLEAN) /\ DOMAIN down = {} /\ DOMAIN up = {}
    BY DEF ChannelInit
  <1>2. line \in BOOLEAN
    BY Zenon DEF ChannelInit
  <1>3. ChannelTypeOK
    BY <1>1, <1>2, ChannelNumbers DEF ChannelInit, ChannelTypeOK, Answers, Fates
  <1>4. NotIssued /\ OneRuns /\ AnswersAreTrue
    BY <1>1, ChannelNumbers DEF ChannelInit, NotIssued, OneRuns, AnswersAreTrue, Commands
  <1> QED
    BY <1>1, <1>3, <1>4 DEF ChannelInv, DownInOrder, ResultsTrue, RunsInTime, ChannelInit

LEMMA SendInv ==
  ASSUME ChannelInv, Send
  PROVE  ChannelInv'
  <1>0. ChannelTyped /\ LineTyped
    BY ChannelTypes
  <1> USE <1>0, ChannelNumbers DEF ChannelTyped
  <1>1. /\ issued \in Nat /\ Fresh \in Commands /\ issued' = issued + 1 /\ Fresh = issued + 1
        /\ issued' \in 0..MaxCommands
    BY DEF Send, Fresh, Commands
  <1>2. UNCHANGED <<age, line, up, running, ran, faults>>
    BY DEF Send, bridgeSide
  <1>3. /\ answer' \in [Commands -> Answers]
        /\ \A c \in Commands : c # Fresh => answer'[c] = answer[c]
        /\ answer'[Fresh] \in {"waiting", "raised"}
    BY <1>1 DEF Send, Answers
  <1>4. down' = down \/ down' = Append(down, Fresh)
    BY DEF Send, Deliver
  <1>5. /\ down' \in Seq(Commands) /\ DOMAIN down = 1..Len(down) /\ Len(down) \in Nat
        /\ \A i \in DOMAIN down' : \/ i \in DOMAIN down /\ down'[i] = down[i]
                                   \/ i = Len(down) + 1 /\ down'[i] = Fresh
    <2>1. CASE down' = down
      BY <2>1 DEF LineTyped
    <2>2. CASE down' = Append(down, Fresh)
      BY <1>1, <2>2, Added DEF LineTyped
    <2> QED
      BY <1>4, <2>1, <2>2
  <1>6. ChannelTypeOK'
    BY <1>1, <1>2, <1>3, <1>5 DEF ChannelTypeOK, LineTyped, Send
  <1>7. NotIssued'
    <2>1. \A i \in DOMAIN down' : down'[i] <= Fresh
      <3>1. \A i \in DOMAIN down : down[i] <= issued
        BY DEF ChannelInv, NotIssued
      <3>2. TAKE i \in DOMAIN down'
      <3>3. CASE i \in DOMAIN down /\ down'[i] = down[i]
        BY <1>1, <3>1, <3>3
      <3>4. CASE down'[i] = Fresh
        BY <1>1, <3>4
      <3> QED
        BY <1>5, <3>3, <3>4
    <2>2. \A c \in Commands : c > Fresh => answer'[c] = "none" /\ ran[c] = "no" /\ age[c] = 0
      BY <1>1, <1>3 DEF ChannelInv, NotIssued
    <2>3. running <= Fresh
      BY <1>1 DEF ChannelInv, NotIssued
    <2> QED
      BY <1>1, <1>2, <2>1, <2>2, <2>3 DEF NotIssued
  <1>8. OneRuns' /\ ResultsTrue' /\ RunsInTime'
    BY <1>2 DEF ChannelInv, OneRuns, ResultsTrue, RunsInTime
  <1>9. DownInOrder'
    <2>1. \A i \in DOMAIN down : down[i] < Fresh
      BY <1>1 DEF ChannelInv, NotIssued
    <2>2. \A d \in Commands : d >= Fresh => ran[d] = "no"
      BY <1>1 DEF ChannelInv, NotIssued
    <2>3. \A i, j \in DOMAIN down' : i < j => down'[i] < down'[j]
      <3>1. TAKE i, j \in DOMAIN down'
      <3>2. CASE j \in DOMAIN down /\ down'[j] = down[j] /\ i < j
        <4>1. i # Len(down) + 1
          BY <1>5, <3>2
        <4>2. i \in DOMAIN down /\ down'[i] = down[i]
          BY <1>5, <4>1
        <4> QED
          BY <3>2, <4>2 DEF ChannelInv, DownInOrder
      <3>3. CASE j = Len(down) + 1 /\ down'[j] = Fresh /\ i < j
        <4>1. i # Len(down) + 1
          BY <1>5, <3>3
        <4>2. i \in DOMAIN down /\ down'[i] = down[i]
          BY <1>5, <4>1
        <4> QED
          BY <2>1, <3>3, <4>2
      <3> QED
        BY <1>5, <3>2, <3>3
    <2>4. \A i \in DOMAIN down' : \A d \in Commands : d >= down'[i] => ran[d] = "no"
      BY <1>5, <2>2 DEF ChannelInv, DownInOrder
    <2> QED
      BY <1>2, <2>3, <2>4 DEF DownInOrder
  <1>10. AnswersAreTrue'
    BY <1>1, <1>2, <1>3 DEF ChannelInv, AnswersAreTrue
  <1> QED
    BY <1>6, <1>7, <1>8, <1>9, <1>10 DEF ChannelInv

\* What the bridge says of a command it has ended is true.
LEMMA ReportTrue ==
  ASSUME ChannelInv, NEW c \in Commands, NEW ok \in BOOLEAN, Report(c, ok),
         ran[c] \notin Ended, ran' = [ran EXCEPT ![c] = ran'[c]],
         ran'[c] \in Ended, ok => ran'[c] = "done"
  PROVE  up' \in Seq(Commands \X BOOLEAN) /\ ResultsTrue'
  <1>0. ChannelTyped /\ LineTyped
    BY ChannelTypes
  <1> USE <1>0, ChannelNumbers DEF ChannelTyped
  <1>1. \A d \in Commands : d # c => ran'[d] = ran[d]
    OBVIOUS
  <1>2. \A i \in DOMAIN up : up[i][1] \in Commands /\ up[i][1] # c
    BY DEF ChannelInv, ResultsTrue
  <1>3. \A i \in DOMAIN up : ran'[up[i][1]] \in Ended /\ (up[i][2] => ran'[up[i][1]] = "done")
    BY <1>1, <1>2 DEF ChannelInv, ResultsTrue
  <1>4. CASE up' = up
    BY <1>3, <1>4 DEF ResultsTrue, LineTyped
  <1>5. CASE up' = Append(up, <<c, ok>>)
    <2>1. <<c, ok>> \in Commands \X BOOLEAN
      OBVIOUS
    <2>2. /\ up' \in Seq(Commands \X BOOLEAN) /\ DOMAIN up = 1..Len(up) /\ Len(up) \in Nat
          /\ \A i \in DOMAIN up' : \/ i \in DOMAIN up /\ up'[i] = up[i]
                                   \/ i = Len(up) + 1 /\ up'[i] = <<c, ok>>
      BY <1>5, <2>1, Added DEF LineTyped
    <2>3. <<c, ok>>[1] = c /\ (<<c, ok>>[2] => ok)
      OBVIOUS
    <2>4. ResultsTrue'
      <3> SUFFICES ASSUME NEW i \in DOMAIN up'
                   PROVE  ran'[up'[i][1]] \in Ended /\ (up'[i][2] => ran'[up'[i][1]] = "done")
        BY DEF ResultsTrue
      <3>1. CASE up'[i] = <<c, ok>>
        BY <2>3, <3>1
      <3>2. CASE i \in DOMAIN up /\ up'[i] = up[i]
        BY <1>3, <3>2
      <3> QED
        BY <2>2, <3>1, <3>2
    <2> QED
      BY <2>2, <2>4
  <1> QED
    BY <1>4, <1>5 DEF Report

LEMMA BeginInv ==
  ASSUME ChannelInv, Begin
  PROVE  ChannelInv'
  <1>0. ChannelTyped /\ LineTyped
    BY ChannelTypes
  <1> USE <1>0, ChannelNumbers DEF ChannelTyped
  <1> DEFINE c == Head(down)
  <1>1. /\ running = 0 /\ down' \in Seq(Commands) /\ DOMAIN down = 1..Len(down) /\ Len(down) \in Nat
        /\ c \in Commands /\ c = down[1] /\ 1 \in DOMAIN down
        /\ \A i \in DOMAIN down' : i \in Nat /\ i > 0 /\ i + 1 \in DOMAIN down /\ down'[i] = down[i + 1]
    <2>1. running = 0 /\ down # <<>> /\ down' = Tail(down)
      BY DEF Begin
    <2> QED
      BY <2>1, Taken DEF LineTyped
  <1>2. UNCHANGED <<age, line, issued, pending, answer, faults>>
    BY DEF Begin, apiSide
  <1>3. ran[c] = "no" /\ c <= issued
    BY <1>1 DEF ChannelInv, DownInOrder, NotIssued
  <1>4. \/ ~TooOld(c) /\ running' = c /\ ran' = [ran EXCEPT ![c] = "running"] /\ up' = up
        \/ running' = 0 /\ ran' = [ran EXCEPT ![c] = "refused"] /\ Report(c, FALSE)
    BY <1>1 DEF Begin
  <1> HIDE DEF c
  <1>5. /\ ran' \in [Commands -> Fates] /\ \A d \in Commands : d # c => ran'[d] = ran[d]
        /\ \/ ran'[c] = "running" /\ running' = c
           \/ ran'[c] = "refused" /\ running' = 0
    <2>1. c \in Commands /\ "running" \in Fates /\ "refused" \in Fates
      BY <1>1 DEF Fates
    <2>2. CASE ran' = [ran EXCEPT ![c] = "running"] /\ running' = c
      BY <2>1, <2>2
    <2>3. CASE ran' = [ran EXCEPT ![c] = "refused"] /\ running' = 0
      BY <2>1, <2>3
    <2> QED
      BY <1>4, <2>2, <2>3
  <1>6. up' \in Seq(Commands \X BOOLEAN) /\ ResultsTrue'
    <2>1. CASE up' = up /\ ran' = [ran EXCEPT ![c] = "running"]
      <3>1. \A i \in DOMAIN up : up[i][1] \in Commands /\ up[i][1] # c
        BY <1>3 DEF ChannelInv, ResultsTrue, Ended
      <3> QED
        BY <1>5, <2>1, <3>1 DEF ChannelInv, ResultsTrue, LineTyped
    <2>2. CASE ran' = [ran EXCEPT ![c] = "refused"] /\ Report(c, FALSE)
      BY <1>1, <1>3, <2>2, ReportTrue DEF Ended
    <2> QED
      BY <1>4, <2>1, <2>2
  <1>7. ChannelTypeOK'
    BY <1>1, <1>2, <1>5, <1>6 DEF ChannelTypeOK, LineTyped
  <1>8. NotIssued'
    BY <1>1, <1>2, <1>3, <1>5 DEF ChannelInv, NotIssued
  <1>9. OneRuns'
    BY <1>1, <1>5 DEF ChannelInv, OneRuns
  <1>10. DownInOrder'
    <2> SUFFICES ASSUME NEW i \in DOMAIN down'
                 PROVE  /\ \A j \in DOMAIN down' : i < j => down'[i] < down'[j]
                        /\ \A d \in Commands : d >= down'[i] => ran'[d] = "no"
      BY DEF DownInOrder
    <2>1. i \in Nat /\ i > 0 /\ i + 1 \in DOMAIN down /\ down'[i] = down[i + 1]
      BY <1>1
    <2>2. down[i + 1] > down[1]
      <3>1. 1 < i + 1
        BY <2>1
      <3> QED
        BY <1>1, <2>1, <3>1 DEF ChannelInv, DownInOrder
    <2>3. ASSUME NEW j \in DOMAIN down', i < j PROVE down'[i] < down'[j]
      <3>1. j \in Nat /\ j + 1 \in DOMAIN down /\ down'[j] = down[j + 1]
        BY <1>1
      <3>2. i + 1 < j + 1
        BY <2>1, <2>3, <3>1
      <3> QED
        BY <2>1, <3>1, <3>2 DEF ChannelInv, DownInOrder
    <2>4. ASSUME NEW d \in Commands, d >= down'[i] PROVE ran'[d] = "no"
      <3>1. d >= down[i + 1] /\ d # c
        BY <1>1, <2>1, <2>2, <2>4
      <3>2. ran[d] = "no"
        BY <2>1, <3>1 DEF ChannelInv, DownInOrder
      <3> QED
        BY <1>5, <3>1, <3>2
    <2> QED
      BY <2>3, <2>4
  <1>11. AnswersAreTrue'
    BY <1>2, <1>3, <1>5 DEF ChannelInv, AnswersAreTrue
  <1>12. RunsInTime'
    <2>1. CASE running' = 0
      BY <2>1 DEF RunsInTime
    <2>2. CASE running' = c /\ ~TooOld(c)
      <3>1. age[c] \in Nat /\ age[c] <= LatestStart
        BY <1>1, <2>2 DEF TooOld
      <3> QED
        BY <1>2, <2>2, <3>1 DEF RunsInTime
    <2> QED
      BY <1>4, <2>1, <2>2
  <1> QED
    BY <1>6, <1>7, <1>8, <1>9, <1>10, <1>11, <1>12 DEF ChannelInv

\* The execution ends, with its command or with the bridge.
LEMMA ExecutionEnds ==
  ASSUME ChannelInv, running # 0, running' = 0, ran' = [ran EXCEPT ![running] = ran'[running]],
         ran'[running] \in {"done", "failed"}, UNCHANGED <<issued, age, answer>>,
         \/ down' = down
         \/ down' = <<>>
  PROVE  /\ ran' \in [Commands -> Fates] /\ down' \in Seq(Commands)
         /\ NotIssued' /\ OneRuns' /\ DownInOrder' /\ AnswersAreTrue' /\ RunsInTime'
  <1>0. ChannelTyped /\ LineTyped
    BY ChannelTypes
  <1> USE <1>0, ChannelNumbers DEF ChannelTyped
  <1>1. running \in Commands /\ ran[running] = "running"
    BY DEF ChannelInv, OneRuns
  <1>2. ran' \in [Commands -> Fates] /\ \A d \in Commands : d # running => ran'[d] = ran[d]
    BY <1>1 DEF Fates
  <1>3. /\ down' \in Seq(Commands)
        /\ \A i \in DOMAIN down' : i \in DOMAIN down /\ down'[i] = down[i]
    <2>1. CASE down' = down
      BY <2>1 DEF LineTyped
    <2>2. CASE down' = <<>>
      BY <2>2, EmptySeq
    <2> QED
      BY <2>1, <2>2
  <1>4. NotIssued' /\ OneRuns' /\ AnswersAreTrue' /\ RunsInTime'
    BY <1>1, <1>2, <1>3 DEF ChannelInv, NotIssued, OneRuns, AnswersAreTrue, RunsInTime
  <1>5. DownInOrder'
    <2>1. \A i, j \in DOMAIN down' : i < j => down'[i] < down'[j]
      BY <1>3 DEF ChannelInv, DownInOrder
    <2>2. \A i \in DOMAIN down' : \A d \in Commands : d >= down'[i] => ran'[d] = "no"
      BY <1>1, <1>2, <1>3 DEF ChannelInv, DownInOrder
    <2> QED
      BY <2>1, <2>2 DEF DownInOrder
  <1> QED
    BY <1>2, <1>3, <1>4, <1>5

LEMMA FinishInv ==
  ASSUME ChannelInv, NEW switched \in BOOLEAN, NEW ok \in BOOLEAN, Finish(switched, ok)
  PROVE  ChannelInv'
  <1>0. ChannelTyped /\ LineTyped
    BY ChannelTypes
  <1> USE <1>0, ChannelNumbers DEF ChannelTyped
  <1>1. running \in Commands /\ ran[running] = "running"
    BY DEF ChannelInv, OneRuns, Finish
  <1>2. /\ running # 0 /\ running' = 0 /\ ran' = [ran EXCEPT ![running] = ran'[running]]
        /\ ran'[running] \in {"done", "failed"} /\ (ok => ran'[running] = "done")
        /\ UNCHANGED <<issued, age, pending, answer, line, down, faults>>
    BY <1>1 DEF Finish, apiSide
  <1>3. up' \in Seq(Commands \X BOOLEAN) /\ ResultsTrue'
    <2>1. Report(running, ok) /\ ran[running] \notin Ended /\ ran'[running] \in Ended
      BY <1>1, <1>2 DEF Finish, Ended
    <2> QED
      BY <1>1, <1>2, <2>1, ReportTrue
  <1>4. /\ ran' \in [Commands -> Fates] /\ down' \in Seq(Commands)
        /\ NotIssued' /\ OneRuns' /\ DownInOrder' /\ AnswersAreTrue' /\ RunsInTime'
    BY <1>2, ExecutionEnds
  <1>5. ChannelTypeOK'
    BY <1>2, <1>3, <1>4 DEF ChannelTypeOK, LineTyped
  <1> QED
    BY <1>3, <1>4, <1>5 DEF ChannelInv

LEMMA ResultInv ==
  ASSUME ChannelInv, Result
  PROVE  ChannelInv'
  <1>0. ChannelTyped /\ LineTyped
    BY ChannelTypes
  <1> USE <1>0, ChannelNumbers DEF ChannelTyped
  <1> DEFINE m == Head(up)
  <1>1. /\ up' \in Seq(Commands \X BOOLEAN) /\ DOMAIN up = 1..Len(up) /\ Len(up) \in Nat
        /\ m = up[1] /\ 1 \in DOMAIN up
        /\ \A i \in DOMAIN up' : i + 1 \in DOMAIN up /\ up'[i] = up[i + 1]
    BY Taken DEF LineTyped, Result
  <1>2. m[1] \in Commands /\ ran[m[1]] \in Ended /\ (m[2] => ran[m[1]] = "done")
    BY <1>1 DEF ChannelInv, ResultsTrue
  <1>3. UNCHANGED <<issued, age, line, down, running, ran, faults>> /\ pending' \subseteq Commands
    BY DEF Result, bridgeSide
  <1>4. \/ answer' = answer
        \/ m[1] \in Commands /\ answer[m[1]] = "waiting"
           /\ answer' = [answer EXCEPT ![m[1]] = IF m[2] THEN "ok" ELSE "failed"]
    BY <1>2 DEF Result
  <1> HIDE DEF m
  <1>5. answer' \in [Commands -> Answers]
    BY <1>4 DEF Answers
  <1>6. ChannelTypeOK'
    <2>1. up' \in Seq(Commands \X BOOLEAN) /\ pending' \subseteq Commands
      BY <1>1, <1>3
    <2>2. ChannelTypeOK
      BY DEF ChannelInv
    <2> QED
      BY <1>3, <1>5, <2>1, <2>2 DEF ChannelTypeOK
  <1>7. NotIssued'
    BY <1>3, <1>4 DEF ChannelInv, NotIssued
  <1>8. OneRuns' /\ DownInOrder' /\ RunsInTime'
    BY <1>3 DEF ChannelInv, OneRuns, DownInOrder, RunsInTime
  <1>9. ResultsTrue'
    BY <1>1, <1>3 DEF ChannelInv, ResultsTrue
  <1>10. AnswersAreTrue'
    BY <1>2, <1>3, <1>4 DEF ChannelInv, AnswersAreTrue, Ended
  <1> QED
    BY <1>6, <1>7, <1>8, <1>9, <1>10 DEF ChannelInv

LEMMA TimeoutInv ==
  ASSUME ChannelInv, NEW c \in Commands, TimeoutFires(c)
  PROVE  ChannelInv'
  <1>0. ChannelTyped /\ LineTyped
    BY ChannelTypes
  <1> USE <1>0, ChannelNumbers DEF ChannelTyped
  <1>1. /\ UNCHANGED <<issued, age, line, down, up, running, ran, faults>>
        /\ pending' \subseteq Commands /\ answer[c] = "waiting"
        /\ answer' = [answer EXCEPT ![c] = "timeout"]
    BY DEF TimeoutFires, Expired, bridgeSide, wire
  <1>2. answer' \in [Commands -> Answers]
    BY <1>1 DEF Answers
  <1>3. ChannelTypeOK'
    BY <1>1, <1>2 DEF ChannelInv, ChannelTypeOK
  <1>4. NotIssued' /\ AnswersAreTrue'
    BY <1>1 DEF ChannelInv, NotIssued, AnswersAreTrue
  <1> QED
    BY <1>1, <1>3, <1>4 DEF ChannelInv, OneRuns, DownInOrder, ResultsTrue, RunsInTime

\* The line breaks or comes back: what was on it is gone.
LEMMA LineInv ==
  ASSUME ChannelInv, LineBreaks \/ Reconnect
  PROVE  ChannelInv'
  <1>0. ChannelTyped /\ LineTyped
    BY ChannelTypes
  <1> USE <1>0, ChannelNumbers DEF ChannelTyped
  <1>1. /\ UNCHANGED <<issued, age, pending, answer, running, ran>>
        /\ line' \in BOOLEAN /\ faults' \in 0..MaxFaults
        /\ (down' = down /\ up' = up) \/ (down' = <<>> /\ up' = <<>>)
    <2>1. CASE LineBreaks
      <3>1. line' \in BOOLEAN
        BY <2>1, Zenon DEF LineBreaks
      <3> QED
        BY <2>1, <3>1 DEF LineBreaks, Fault, LineTyped, apiSide, bridgeSide
    <2>2. CASE Reconnect
      <3>1. line' \in BOOLEAN
        BY <2>2, Zenon DEF Reconnect
      <3> QED
        BY <2>2, <3>1 DEF Reconnect, LineTyped, apiSide, bridgeSide
    <2> QED
      BY <2>1, <2>2
  <1>2. /\ down' \in Seq(Commands) /\ up' \in Seq(Commands \X BOOLEAN)
        /\ \A i \in DOMAIN down' : i \in DOMAIN down /\ down'[i] = down[i]
        /\ \A i \in DOMAIN up' : i \in DOMAIN up /\ up'[i] = up[i]
    <2>1. CASE down' = down /\ up' = up
      BY <2>1 DEF LineTyped
    <2>2. CASE down' = <<>> /\ up' = <<>>
      BY <2>2, EmptySeq
    <2> QED
      BY <1>1, <2>1, <2>2
  <1>3. ChannelTypeOK'
    BY <1>1, <1>2 DEF ChannelInv, ChannelTypeOK
  <1> QED
    <2>1. NotIssued' /\ OneRuns' /\ AnswersAreTrue' /\ RunsInTime'
      BY <1>1, <1>2 DEF ChannelInv, NotIssued, OneRuns, AnswersAreTrue, RunsInTime
    <2>2. DownInOrder' /\ ResultsTrue'
      BY <1>1, <1>2 DEF ChannelInv, DownInOrder, ResultsTrue
    <2> QED
      BY <1>3, <2>1, <2>2 DEF ChannelInv

LEMMA ApiRestartInv ==
  ASSUME ChannelInv, ApiRestart
  PROVE  ChannelInv'
  <1>0. ChannelTyped /\ LineTyped
    BY ChannelTypes
  <1> USE <1>0, ChannelNumbers DEF ChannelTyped
  <1>1. /\ UNCHANGED <<issued, age, running, ran>>
        /\ pending' = {} /\ faults' \in 0..MaxFaults /\ down' = <<>> /\ up' = <<>>
        /\ answer' = [c \in Commands |-> IF answer[c] = "waiting" THEN "raised" ELSE answer[c]]
    BY DEF ApiRestart, Fault, LineTyped, bridgeSide
  <1>2. line' \in BOOLEAN
    BY Zenon DEF ApiRestart
  <1>3. /\ down' \in Seq(Commands) /\ up' \in Seq(Commands \X BOOLEAN)
        /\ DOMAIN down' = {} /\ DOMAIN up' = {}
    BY <1>1
  <1>4. answer' \in [Commands -> Answers]
    BY <1>1 DEF Answers
  <1>5. ChannelTypeOK'
    BY <1>1, <1>2, <1>3, <1>4 DEF ChannelTypeOK, LineTyped
  <1>6. NotIssued' /\ AnswersAreTrue'
    BY <1>1, <1>3 DEF ChannelInv, NotIssued, AnswersAreTrue
  <1> QED
    BY <1>1, <1>3, <1>5, <1>6 DEF ChannelInv, OneRuns, DownInOrder, ResultsTrue, RunsInTime

LEMMA BridgeRestartInv ==
  ASSUME ChannelInv, NEW switched \in BOOLEAN, BridgeRestart(switched)
  PROVE  ChannelInv'
  <1>0. ChannelTyped /\ LineTyped
    BY ChannelTypes
  <1> USE <1>0, ChannelNumbers DEF ChannelTyped
  <1>1. /\ UNCHANGED <<issued, age, pending, answer>>
        /\ running' = 0 /\ faults' \in 0..MaxFaults /\ down' = <<>> /\ up' = <<>>
    BY DEF BridgeRestart, Fault, LineTyped, apiSide
  <1>2. line' \in BOOLEAN
    BY Zenon DEF BridgeRestart
  <1>3. /\ down' \in Seq(Commands) /\ up' \in Seq(Commands \X BOOLEAN)
        /\ DOMAIN down' = {} /\ DOMAIN up' = {}
    BY <1>1
  <1>4. /\ ran' \in [Commands -> Fates]
        /\ NotIssued' /\ OneRuns' /\ DownInOrder' /\ AnswersAreTrue' /\ RunsInTime'
    <2>1. CASE running = 0
      <3>1. ran' = ran
        BY <2>1 DEF BridgeRestart
      <3> QED
        BY <1>1, <1>3, <2>1, <3>1
        DEF ChannelInv, NotIssued, OneRuns, DownInOrder, AnswersAreTrue, RunsInTime
    <2>2. CASE running # 0
      <3>1. PICK fate \in {"done", "failed"} : ran' = [ran EXCEPT ![running] = fate]
        BY <2>2 DEF BridgeRestart
      <3>2. ran'[running] = fate
        BY <2>2, <3>1
      <3> QED
        BY <1>1, <2>2, <3>1, <3>2, ExecutionEnds
    <2> QED
      BY <2>1, <2>2
  <1>5. ChannelTypeOK'
    BY <1>1, <1>2, <1>3, <1>4 DEF ChannelTypeOK, LineTyped
  <1> QED
    BY <1>3, <1>4, <1>5 DEF ChannelInv, ResultsTrue

LEMMA TimePassesInv ==
  ASSUME ChannelInv, TimePasses
  PROVE  ChannelInv'
  <1>0. ChannelTyped /\ LineTyped
    BY ChannelTypes
  <1> USE <1>0, ChannelNumbers DEF ChannelTyped
  <1>1. UNCHANGED <<issued, pending, answer, line, down, up, running, ran, faults>>
    BY DEF TimePasses, apiSide, bridgeSide, wire
  <1>2. /\ age' \in [Commands -> 0..Oldest]
        /\ \A c \in Commands : /\ c > issued => age'[c] = 0
                               /\ age'[c] <= age[c] + 1
    BY DEF TimePasses, Settled
  <1>3. RunsInTime'
    BY <1>1, <1>2 DEF RunsInTime, TimePasses
  <1>4. ChannelTypeOK'
    BY <1>1, <1>2 DEF ChannelTypeOK, LineTyped
  <1> QED
    BY <1>1, <1>2, <1>3, <1>4 DEF ChannelInv, NotIssued, OneRuns, DownInOrder, ResultsTrue, AnswersAreTrue

LEMMA ChannelInvInductive == ChannelInv /\ [ChannelStep]_channelVars => ChannelInv'
  <1> SUFFICES ASSUME ChannelInv, [ChannelStep]_channelVars PROVE ChannelInv'
    OBVIOUS
  <1>1. CASE UNCHANGED channelVars
    BY <1>1 DEF channelVars, ChannelInv, ChannelTypeOK, NotIssued, OneRuns, DownInOrder, ResultsTrue,
                AnswersAreTrue, RunsInTime
  <1> QED
    BY <1>1, SendInv, BeginInv, FinishInv, ResultInv, TimeoutInv, LineInv, ApiRestartInv,
       BridgeRestartInv, TimePassesInv DEF ChannelStep

\* What a step of the channel does to the fate of a command: the first on the line is
\* read, or the one that runs ends.
LEMMA FateChanges ==
  ASSUME ChannelInv, [ChannelStep]_channelVars, NEW c \in Commands, ran'[c] # ran[c]
  PROVE  \/ /\ ran[c] = "running" /\ ran'[c] \in {"done", "failed"}
         \/ /\ ran[c] = "no" /\ 1 \in DOMAIN down /\ c = down[1]
            /\ \/ ran'[c] = "refused"
               \/ ran'[c] = "running" /\ age[c] <= LatestStart
  <1>0. ChannelTyped /\ LineTyped
    BY ChannelTypes
  <1> USE <1>0, ChannelNumbers DEF ChannelTyped
  <1>1. Begin \/ (\E switched, ok \in BOOLEAN : Finish(switched, ok))
              \/ (\E switched \in BOOLEAN : BridgeRestart(switched))
    BY DEF ChannelStep, channelVars, bridgeSide, Send, Result, LineBreaks, Reconnect, ApiRestart,
           TimePasses, TimeoutFires
  <1>2. CASE Begin
    <2>1. /\ Head(down) = down[1] /\ 1 \in DOMAIN down /\ down[1] \in Commands
      BY <1>2, Taken DEF LineTyped, Begin
    <2>2. \/ ~TooOld(down[1]) /\ ran' = [ran EXCEPT ![down[1]] = "running"]
          \/ ran' = [ran EXCEPT ![down[1]] = "refused"]
      BY <1>2, <2>1 DEF Begin
    <2>3. c = down[1] /\ ran[c] = "no"
      BY <2>1, <2>2 DEF ChannelInv, DownInOrder
    <2> QED
      BY <2>1, <2>2, <2>3 DEF TooOld
  <1>3. CASE \E switched, ok \in BOOLEAN : Finish(switched, ok)
    BY <1>3 DEF Finish, ChannelInv, OneRuns
  <1>4. CASE \E switched \in BOOLEAN : BridgeRestart(switched)
    BY <1>4 DEF BridgeRestart, ChannelInv, OneRuns
  <1> QED
    BY <1>1, <1>2, <1>3, <1>4

----------------------------------------------------------------------------
(* The contact *)

\* A decision that has not been sent yet was taken in this unit of time.
DecisionsFresh == \A t \in Tickers : phase[t] = "saving" /\ carried[t] => wantAge = 0

\* A command that may still close K1 is at least as old as the last wish.
WishesTimed ==
  \A c \in Commands : c <= issued /\ wants[c] /\ ran[c] \in {"no", "running"} =>
    age[c] = Oldest \/ wantAge <= age[c]

\* The timer of the device runs, and K1 was closed for a wish that was not too old.
ClosedTimed ==
  DeviceTimer /\ contact => onAge < Lease /\ wantAge <= onAge + LatestStart + ExecTime

ContactTypeOK ==
  /\ k1 \in BOOLEAN \cup {Unknown}
  /\ phase \in [Tickers -> {"idle", "saving", "sending"}]
  /\ carried \in [Tickers -> BOOLEAN] /\ cmd \in [Tickers -> 0..MaxCommands]
  /\ wants \in [Commands -> BOOLEAN]
  /\ sentAge \in None..HalfLease /\ silence \in None..OfflineRelease + 1
  /\ onAge \in 0..Lease /\ wantAge \in 0..LeaseBound + 1
  /\ ticked \subseteq Tickers /\ contact \in BOOLEAN /\ released \in BOOLEAN

ContactInv == ChannelInv /\ ContactTypeOK /\ DecisionsFresh /\ WishesTimed /\ ClosedTimed

\* The limits of the contact are numbers.
LEMMA ContactNumbers ==
  /\ Lease \in Nat /\ Lease > 0 /\ OfflineRelease \in Nat /\ DeviceTimer \in BOOLEAN /\ HaFails \in BOOLEAN
  /\ Unknown \notin BOOLEAN /\ None = -1
  /\ HalfLease \in Nat /\ 2 * HalfLease >= Lease
  /\ LeaseBound \in Nat /\ LeaseBound = Lease + LatestStart + ExecTime
  <1>1. /\ Lease \in Nat /\ Lease > 0 /\ OfflineRelease \in Nat /\ DeviceTimer \in BOOLEAN /\ HaFails \in BOOLEAN
        /\ Unknown \notin BOOLEAN /\ None = -1
    BY ContactAssumption DEF None
  <1>2. HalfLease \in Nat /\ 2 * HalfLease >= Lease
    BY <1>1 DEF HalfLease
  <1>3. LeaseBound \in Nat /\ LeaseBound = Lease + LatestStart + ExecTime
    BY <1>1, ChannelNumbers DEF LeaseBound
  <1> QED
    BY <1>1, <1>2, <1>3

\* What a sending does to the channel.
LEMMA SendOrNot ==
  ASSUME NEW t, NEW close, ApplyContacts(t, close)
  PROVE  Send \/ UNCHANGED channelVars
  BY DEF ApplyContacts

\* Every step is a step of the channel, or leaves it alone.
LEMMA StepOfChannel == [Next]_vars => [ChannelStep]_channelVars
  <1> SUFFICES ASSUME [Next]_vars PROVE [ChannelStep]_channelVars
    OBVIOUS
  <1>1. CASE UNCHANGED vars
    BY <1>1 DEF vars
  <1>2. ASSUME NEW t \in Tickers, ControlTick(t) PROVE [ChannelStep]_channelVars
    BY <1>2, SendOrNot DEF ControlTick, ChannelStep
  <1>3. ASSUME NEW t \in Tickers, Saved(t) PROVE [ChannelStep]_channelVars
    BY <1>3, SendOrNot DEF Saved, ChannelStep
  <1>4. ASSUME NEW t \in Tickers, Answered(t) PROVE [ChannelStep]_channelVars
    BY <1>4 DEF Answered
  <1>5. ASSUME NEW switched \in BOOLEAN, NEW ok \in BOOLEAN, Execute(switched, ok)
        PROVE  [ChannelStep]_channelVars
    BY <1>5 DEF Execute, ChannelStep
  <1>6. CASE RestartApi
    BY <1>6 DEF RestartApi, ChannelStep
  <1>7. CASE RestartBridge
    BY <1>7 DEF RestartBridge, ChannelStep
  <1>8. CASE Guardian
    BY <1>8 DEF Guardian
  <1>9. CASE Channel
    BY <1>9 DEF Channel, ChannelStep
  <1>10. CASE Connect
    BY <1>10 DEF Connect, ChannelStep
  <1>11. CASE Tick
    BY <1>11 DEF Tick, ChannelStep
  <1> QED
    BY <1>1, <1>2, <1>3, <1>4, <1>5, <1>6, <1>7, <1>8, <1>9, <1>10, <1>11 DEF Next

LEMMA ContactInitInv == Init => ContactInv
  <1> SUFFICES ASSUME Init PROVE ContactInv
    OBVIOUS
  <1>1. ChannelInv /\ issued = 0
    BY ChannelInitInv DEF Init, ChannelInit
  <1>2. contact \in BOOLEAN /\ released \in BOOLEAN /\ carried \in [Tickers -> BOOLEAN]
        /\ wants \in [Commands -> BOOLEAN] /\ ~contact
    BY Zenon DEF Init
  <1>3. ContactTypeOK
    BY <1>2, ContactNumbers, ChannelNumbers DEF Init, ContactTypeOK
  <1>4. DecisionsFresh /\ ClosedTimed
    BY <1>2 DEF Init, DecisionsFresh, ClosedTimed
  <1>5. WishesTimed
    BY <1>1, ChannelTypes DEF ChannelTyped, WishesTimed
  <1> QED
    BY <1>1, <1>3, <1>4, <1>5 DEF ContactInv

\* Wishes stay timed when only fates change and the last wish is not older than it was.
LEMMA WishesKept ==
  ASSUME ContactInv, [ChannelStep]_channelVars, UNCHANGED <<issued, age, wants>>,
         wantAge' = wantAge \/ wantAge' = 0
  PROVE  WishesTimed'
  <1>1. \A c \in Commands : ran'[c] \in {"no", "running"} => ran[c] \in {"no", "running"}
    BY FateChanges DEF ContactInv
  <1>2. \A c \in Commands : age[c] \in Nat
    BY ChannelTypes, ChannelNumbers DEF ContactInv, ChannelTyped
  <1>3. wantAge \in Nat /\ wantAge' \in Nat /\ wantAge' <= wantAge
    BY ContactNumbers DEF ContactInv, ContactTypeOK
  <1> QED
    BY <1>1, <1>2, <1>3 DEF ContactInv, WishesTimed

\* A sending, of a wish of this unit of time.
LEMMA ApplyInv ==
  ASSUME ContactInv, NEW t \in Tickers, NEW close \in BOOLEAN, ApplyContacts(t, close),
         wantAge' = wantAge \/ wantAge' = 0, close => wantAge' = 0
  PROVE  /\ WishesTimed' /\ phase' \in [Tickers -> {"idle", "saving", "sending"}]
         /\ \A u \in Tickers : phase'[u] = "saving" => phase[u] = "saving" /\ u # t
         /\ cmd' \in [Tickers -> 0..MaxCommands] /\ wants' \in [Commands -> BOOLEAN]
         /\ sentAge' \in None..HalfLease
  <1>0. ChannelTyped /\ ContactTypeOK /\ NotIssued
    BY ChannelTypes DEF ContactInv, ChannelInv
  <1>1. CASE Send
    <2>1. /\ Fresh \in Commands /\ Fresh = issued + 1 /\ issued' = issued + 1 /\ issued \in Nat
          /\ UNCHANGED <<age, ran>> /\ age[Fresh] = 0 /\ Fresh \in 0..MaxCommands
      BY <1>0, <1>1, ChannelNumbers DEF Send, Fresh, ChannelTyped, NotIssued, bridgeSide
    <2>2. /\ sentAge' = 0 /\ wants' = [wants EXCEPT ![Fresh] = close]
          /\ cmd' = [cmd EXCEPT ![t] = Fresh] /\ phase' = [phase EXCEPT ![t] = "sending"]
      <3>1. ~UNCHANGED channelVars
        BY <2>1 DEF channelVars
      <3> QED
        BY <3>1 DEF ApplyContacts
    <2>3. wantAge \in Nat /\ wantAge' \in Nat /\ wantAge' <= wantAge
      BY <1>0, ContactNumbers DEF ContactTypeOK
    <2>4. WishesTimed'
      <3> SUFFICES ASSUME NEW c \in Commands, c <= issued', wants'[c], ran[c] \in {"no", "running"}
                   PROVE  age[c] = Oldest \/ wantAge' <= age[c]
        BY <2>1 DEF WishesTimed
      <3>1. CASE c = Fresh
        <4>1. close
          BY <1>0, <2>1, <2>2, <3>1 DEF ContactTypeOK
        <4> QED
          BY <2>1, <3>1, <4>1
      <3>2. CASE c # Fresh
        <4>1. c <= issued /\ wants[c] /\ age[c] \in Nat
          BY <1>0, <2>1, <2>2, <3>2, ChannelNumbers DEF ChannelTyped, ContactTypeOK
        <4> QED
          BY <2>3, <4>1 DEF ContactInv, WishesTimed
      <3> QED
        BY <3>1, <3>2
    <2>5. 0 \in None..HalfLease
      BY ContactNumbers
    <2> QED
      BY <1>0, <2>1, <2>2, <2>4, <2>5 DEF ContactTypeOK
  <1>2. CASE UNCHANGED channelVars
    <2>1. issued \in Nat /\ issued' # issued + 1
      BY <1>0, <1>2 DEF channelVars, ChannelTyped
    <2>2. phase' = [phase EXCEPT ![t] = "idle"] /\ UNCHANGED <<cmd, wants, sentAge>>
      BY <2>1 DEF ApplyContacts, Send, Fresh
    <2>3. WishesTimed'
      BY <1>2, <2>2, WishesKept DEF channelVars
    <2> QED
      BY <1>0, <2>2, <2>3 DEF ContactTypeOK
  <1> QED
    BY <1>1, <1>2, SendOrNot

LEMMA ControlTickInv ==
  ASSUME ContactInv, NEW t \in Tickers, ControlTick(t), ChannelInv'
  PROVE  ContactInv'
  <1>1. PICK close \in BOOLEAN :
          /\ k1' = close
          /\ wantAge' = IF close THEN 0 ELSE wantAge
          /\ \/ /\ phase' = [phase EXCEPT ![t] = "saving"]
                /\ carried' = [carried EXCEPT ![t] = close]
                /\ UNCHANGED <<cmd, wants, sentAge, channelVars>>
             \/ /\ ApplyContacts(t, close)
                /\ UNCHANGED carried
             \/ UNCHANGED <<phase, carried, cmd, wants, sentAge, channelVars>>
    BY DEF ControlTick
  <1>2. /\ UNCHANGED <<contact, onAge, silence, released>>
        /\ ticked' \subseteq Tickers
    BY DEF ControlTick, houseVars, ContactInv, ContactTypeOK
  <1>3. ContactTypeOK
    BY DEF ContactInv
  <1>4. wantAge' \in 0..LeaseBound + 1 /\ wantAge' \in Nat /\ wantAge \in Nat /\ wantAge' <= wantAge
    BY <1>1, <1>3, ContactNumbers DEF ContactTypeOK
  <1>5. /\ WishesTimed' /\ phase' \in [Tickers -> {"idle", "saving", "sending"}]
        /\ carried' \in [Tickers -> BOOLEAN]
        /\ cmd' \in [Tickers -> 0..MaxCommands] /\ wants' \in [Commands -> BOOLEAN]
        /\ sentAge' \in None..HalfLease
        /\ DecisionsFresh'
    <2>1. CASE /\ phase' = [phase EXCEPT ![t] = "saving"]
               /\ carried' = [carried EXCEPT ![t] = close]
               /\ UNCHANGED <<cmd, wants, sentAge, channelVars>>
      <3>1. WishesTimed'
        BY <1>1, <2>1, WishesKept DEF channelVars
      <3>2. DecisionsFresh'
        BY <1>1, <1>3, <2>1 DEF ContactInv, DecisionsFresh, ContactTypeOK
      <3> QED
        BY <1>3, <2>1, <3>1, <3>2 DEF ContactTypeOK
    <2>2. CASE ApplyContacts(t, close) /\ UNCHANGED carried
      <3>1. /\ WishesTimed' /\ phase' \in [Tickers -> {"idle", "saving", "sending"}]
            /\ \A u \in Tickers : phase'[u] = "saving" => phase[u] = "saving" /\ u # t
            /\ cmd' \in [Tickers -> 0..MaxCommands] /\ wants' \in [Commands -> BOOLEAN]
            /\ sentAge' \in None..HalfLease
        BY <1>1, <2>2, ApplyInv
      <3>2. DecisionsFresh'
        BY <1>1, <2>2, <3>1 DEF ContactInv, DecisionsFresh
      <3> QED
        BY <1>3, <2>2, <3>1, <3>2 DEF ContactTypeOK
    <2>3. CASE UNCHANGED <<phase, carried, cmd, wants, sentAge, channelVars>>
      <3>1. WishesTimed'
        BY <1>1, <2>3, WishesKept DEF channelVars
      <3>2. DecisionsFresh'
        BY <1>1, <2>3 DEF ContactInv, DecisionsFresh
      <3> QED
        BY <1>3, <2>3, <3>1, <3>2 DEF ContactTypeOK
    <2> QED
      BY <1>1, <2>1, <2>2, <2>3
  <1>6. ContactTypeOK'
    BY <1>1, <1>2, <1>3, <1>4, <1>5 DEF ContactTypeOK
  <1>7. ClosedTimed'
    BY <1>2, <1>3, <1>4, ContactNumbers, ChannelNumbers DEF ContactInv, ClosedTimed, ContactTypeOK
  <1> QED
    BY <1>5, <1>6, <1>7 DEF ContactInv

LEMMA SavedInv ==
  ASSUME ContactInv, NEW t \in Tickers, Saved(t), ChannelInv'
  PROVE  ContactInv'
  <1>1. /\ phase[t] = "saving" /\ ApplyContacts(t, carried[t])
        /\ carried' = [carried EXCEPT ![t] = FALSE]
        /\ UNCHANGED <<k1, ticked, wantAge, contact, onAge, silence, released>>
    BY DEF Saved, houseVars
  <1>2. ContactTypeOK /\ carried[t] \in BOOLEAN /\ (carried[t] => wantAge = 0)
    BY <1>1 DEF ContactInv, ContactTypeOK, DecisionsFresh
  <1>3. /\ WishesTimed' /\ phase' \in [Tickers -> {"idle", "saving", "sending"}]
        /\ \A u \in Tickers : phase'[u] = "saving" => phase[u] = "saving" /\ u # t
        /\ cmd' \in [Tickers -> 0..MaxCommands] /\ wants' \in [Commands -> BOOLEAN]
        /\ sentAge' \in None..HalfLease
    BY <1>1, <1>2, ApplyInv
  <1>4. ContactTypeOK'
    BY <1>1, <1>2, <1>3 DEF ContactTypeOK
  <1>5. DecisionsFresh'
    BY <1>1, <1>2, <1>3 DEF ContactInv, DecisionsFresh, ContactTypeOK
  <1>6. ClosedTimed'
    BY <1>1 DEF ContactInv, ClosedTimed
  <1> QED
    BY <1>3, <1>4, <1>5, <1>6 DEF ContactInv

\* A ticker gets its answer, or the API restarts.
LEMMA ApiStepsInv ==
  ASSUME ContactInv, [Next]_vars, (\E t \in Tickers : Answered(t)) \/ RestartApi, ChannelInv'
  PROVE  ContactInv'
  <1>1. /\ UNCHANGED <<issued, age, wants, ticked, wantAge, contact, onAge, silence, released>>
        /\ \A u \in Tickers : phase'[u] = "saving" => phase[u] = "saving" /\ carried'[u] = carried[u]
        /\ phase' \in [Tickers -> {"idle", "saving", "sending"}]
        /\ carried' \in [Tickers -> BOOLEAN] /\ cmd' \in [Tickers -> 0..MaxCommands]
        /\ k1' \in BOOLEAN \cup {Unknown} /\ sentAge' \in None..HalfLease
    <2>1. CASE \E t \in Tickers : Answered(t)
      BY <2>1, ChannelNumbers DEF Answered, channelVars, houseVars, ContactInv, ContactTypeOK
    <2>2. CASE RestartApi
      <3>1. [u \in Tickers |-> FALSE] \in [Tickers -> BOOLEAN]
        OBVIOUS
      <3> QED
        BY <2>2, <3>1, ChannelNumbers, ContactNumbers DEF RestartApi, ApiRestart, houseVars
    <2> QED
      BY <2>1, <2>2
  <1>2. WishesTimed'
    BY <1>1, WishesKept, StepOfChannel
  <1>3. ContactTypeOK'
    BY <1>1 DEF ContactInv, ContactTypeOK
  <1>4. DecisionsFresh' /\ ClosedTimed'
    BY <1>1 DEF ContactInv, DecisionsFresh, ClosedTimed
  <1> QED
    BY <1>2, <1>3, <1>4 DEF ContactInv

\* The contact is switched for the command that runs, opened, or left alone.
LEMMA BridgeStepsInv ==
  ASSUME ContactInv, [Next]_vars, ChannelInv', UNCHANGED <<issued, age, apiVars>>,
         silence' \in None..OfflineRelease + 1, released' \in BOOLEAN,
         \/ running # 0 /\ contact' = wants[running] /\ onAge' = 0
         \/ contact' = FALSE /\ onAge' = 0
         \/ UNCHANGED <<contact, onAge>>
  PROVE  ContactInv'
  <1>0. ChannelTyped /\ ContactTypeOK /\ ChannelInv
    BY ChannelTypes DEF ContactInv
  <1>1. WishesTimed' /\ DecisionsFresh'
    BY WishesKept, StepOfChannel DEF apiVars, ContactInv, DecisionsFresh
  <1>2. ContactTypeOK'
    <2>1. contact' \in BOOLEAN
      <3>1. CASE running # 0 /\ contact' = wants[running]
        BY <1>0, <3>1, ChannelNumbers DEF ContactTypeOK, ChannelTyped, ChannelInv, NotIssued
      <3>2. CASE contact' = FALSE
        BY <3>2, Zenon
      <3>3. CASE UNCHANGED contact
        BY <1>0, <3>3 DEF ContactTypeOK
      <3> QED
        BY <3>1, <3>2, <3>3
    <2>2. onAge' \in 0..Lease
      BY <1>0, ContactNumbers DEF ContactTypeOK
    <2> QED
      BY <1>0, <2>1, <2>2 DEF ContactTypeOK, apiVars
  <1>3. ClosedTimed'
    <2>1. CASE running # 0 /\ contact' = wants[running] /\ onAge' = 0
      <3>1. /\ running \in Commands /\ running <= issued /\ ran[running] = "running"
            /\ age[running] \in Nat /\ age[running] <= LatestStart + ExecTime
        BY <1>0, <2>1, ChannelNumbers DEF ChannelTyped, ChannelInv, NotIssued, OneRuns, RunsInTime
      <3>2. wants[running] => wantAge <= age[running]
        BY <3>1, ChannelNumbers DEF ContactInv, WishesTimed
      <3>3. wantAge \in Nat /\ wantAge' = wantAge
        BY <1>0, ContactNumbers DEF ContactTypeOK, apiVars
      <3> QED
        BY <2>1, <3>1, <3>2, <3>3, ContactNumbers, ChannelNumbers DEF ClosedTimed
    <2>2. CASE contact' = FALSE
      BY <2>2 DEF ClosedTimed
    <2>3. CASE UNCHANGED <<contact, onAge>>
      BY <2>3 DEF ContactInv, ClosedTimed, apiVars
    <2> QED
      BY <2>1, <2>2, <2>3
  <1> QED
    BY <1>1, <1>2, <1>3 DEF ContactInv

LEMMA TickInv ==
  ASSUME ContactInv, Tick, ChannelInv'
  PROVE  ContactInv'
  <1>0. ChannelTyped /\ ContactTypeOK /\ ChannelInv
    BY ChannelTypes DEF ContactInv
  <1>1. /\ UNCHANGED <<issued, ran, k1, phase, carried, cmd, wants, released>>
        /\ ticked' = {} /\ \A t \in Tickers : phase[t] # "saving"
    BY DEF Tick, TimePasses, apiSide, bridgeSide
  <1>2. /\ wantAge \in Nat /\ wantAge' \in Nat /\ wantAge' <= wantAge + 1
        /\ wantAge' \in 0..LeaseBound + 1
    BY <1>0, ContactNumbers DEF ContactTypeOK, Tick, Later
  <1>3. sentAge' \in None..HalfLease
    BY <1>0, ContactNumbers DEF ContactTypeOK, Tick, Later
  <1>4. silence' \in None..OfflineRelease + 1
    BY <1>0, ContactNumbers DEF ContactTypeOK, Tick, Later
  <1>5. /\ onAge' \in 0..Lease /\ contact' \in BOOLEAN
        /\ DeviceTimer /\ contact' => contact /\ onAge + 1 < Lease /\ onAge' = onAge + 1
    <2>1. CASE DeviceTimer /\ contact /\ onAge + 1 >= Lease
      <3>1. contact' = FALSE /\ onAge' = 0
        BY <2>1 DEF Tick, Switch
      <3>2. contact' \in BOOLEAN
        BY <3>1, Zenon
      <3> QED
        BY <3>1, <3>2, ContactNumbers
    <2>2. CASE ~(DeviceTimer /\ contact /\ onAge + 1 >= Lease)
      <3>1. onAge' = (IF contact /\ onAge < Lease THEN onAge + 1 ELSE onAge) /\ contact' = contact
        BY <2>2 DEF Tick
      <3> QED
        BY <1>0, <2>2, <3>1, ContactNumbers DEF ContactTypeOK
    <2> QED
      BY <2>1, <2>2
  <1>6. ContactTypeOK'
    BY <1>0, <1>1, <1>2, <1>3, <1>4, <1>5 DEF ContactTypeOK
  <1>7. DecisionsFresh'
    BY <1>1 DEF DecisionsFresh
  <1>8. ClosedTimed'
    BY <1>0, <1>2, <1>5, ChannelNumbers DEF ContactInv, ClosedTimed, ContactTypeOK
  <1>9. WishesTimed'
    <2> SUFFICES ASSUME NEW c \in Commands, c <= issued, wants[c], ran[c] \in {"no", "running"}
                 PROVE  age'[c] = Oldest \/ wantAge' <= age'[c]
      BY <1>1 DEF WishesTimed
    <2>1. age[c] \in Nat /\ age[c] <= Oldest
      BY <1>0, ChannelNumbers DEF ChannelTyped
    <2>2. age'[c] = IF age[c] < Oldest THEN age[c] + 1 ELSE age[c]
      BY <1>0 DEF Tick, TimePasses, Settled, ChannelTyped
    <2>3. age[c] = Oldest \/ wantAge <= age[c]
      BY DEF ContactInv, WishesTimed
    <2> QED
      BY <1>2, <2>1, <2>2, <2>3, ChannelNumbers
  <1> QED
    BY <1>6, <1>7, <1>8, <1>9 DEF ContactInv

LEMMA ContactInvInductive == ContactInv /\ [Next]_vars => ContactInv'
  <1> SUFFICES ASSUME ContactInv, [Next]_vars PROVE ContactInv'
    OBVIOUS
  <1>0. ChannelInv' /\ ContactTypeOK /\ 0 \in None..OfflineRelease + 1 /\ None \in None..OfflineRelease + 1
    BY StepOfChannel, ChannelInvInductive, ContactNumbers DEF ContactInv
  <1>1. CASE UNCHANGED vars
    BY <1>0, <1>1, BridgeStepsInv DEF vars, channelVars, houseVars, ContactTypeOK
  <1>2. ASSUME NEW t \in Tickers, ControlTick(t) PROVE ContactInv'
    BY <1>0, <1>2, ControlTickInv
  <1>3. ASSUME NEW t \in Tickers, Saved(t) PROVE ContactInv'
    BY <1>0, <1>3, SavedInv
  <1>4. CASE (\E t \in Tickers : Answered(t)) \/ RestartApi
    BY <1>0, <1>4, ApiStepsInv
  <1>5. ASSUME NEW switched \in BOOLEAN, NEW ok \in BOOLEAN, Execute(switched, ok)
        PROVE  ContactInv'
    BY <1>0, <1>5, BridgeStepsInv DEF Execute, Finish, Switch, apiSide, ContactTypeOK
  <1>6. CASE RestartBridge
    <2>1. PICK switched \in BOOLEAN :
            /\ BridgeRestart(switched)
            /\ IF switched THEN Switch(wants[running]) ELSE UNCHANGED <<contact, onAge>>
      BY <1>6 DEF RestartBridge
    <2>2. /\ UNCHANGED <<issued, age>>
          /\ \/ running # 0 /\ contact' = wants[running] /\ onAge' = 0
             \/ UNCHANGED <<contact, onAge>>
      BY <2>1 DEF BridgeRestart, Switch, apiSide
    <2>3. silence' = None /\ released' \in BOOLEAN /\ UNCHANGED apiVars
      BY <1>6 DEF RestartBridge
    <2> QED
      BY <1>0, <2>2, <2>3, BridgeStepsInv
  <1>7. CASE Guardian
    <2>1. UNCHANGED <<issued, age, apiVars, silence>>
      BY <1>7 DEF Guardian, channelVars
    <2>2. released' \in BOOLEAN
      BY <1>0, <1>7 DEF Guardian, ContactTypeOK
    <2>3. (contact' = FALSE /\ onAge' = 0) \/ UNCHANGED <<contact, onAge>>
      BY <1>7 DEF Guardian, Switch
    <2> QED
      BY <1>0, <2>1, <2>2, <2>3, BridgeStepsInv DEF ContactTypeOK
  <1>8. CASE Channel
    <2>1. UNCHANGED <<issued, age, apiVars, contact, onAge, silence, released>>
      BY <1>8 DEF Channel, Begin, Result, LineBreaks, TimeoutFires, apiSide, houseVars
    <2> QED
      BY <1>0, <2>1, BridgeStepsInv DEF ContactTypeOK
  <1>9. CASE Connect
    <2>1. UNCHANGED <<issued, age, apiVars, contact, onAge, released>> /\ silence' = 0
      BY <1>9 DEF Connect, Reconnect, apiSide
    <2> QED
      BY <1>0, <2>1, BridgeStepsInv DEF ContactTypeOK
  <1>10. CASE Tick
    BY <1>0, <1>10, TickInv
  <1> QED
    BY <1>1, <1>2, <1>3, <1>4, <1>5, <1>6, <1>7, <1>8, <1>9, <1>10 DEF Next

----------------------------------------------------------------------------
\* The invariant holds throughout.
LEMMA ContactInvAlways == Spec => []ContactInv
  BY ContactInitInv, ContactInvInductive, PTL DEF Spec

\* Every variable of the channel, the API and the house keeps its type.
THEOREM ContactTypes == Spec => []TypeOK
  <1>1. ContactInv => TypeOK
    BY DEF ContactInv, ChannelInv, ContactTypeOK, TypeOK
  <1> QED
    BY <1>1, ContactInvAlways, PTL

\* BridgeHub.handle: a caller hears only of its own command, and hears the truth of it,
\* across timeouts, broken lines and restarts.
THEOREM ChannelAnswersAreTrue == Spec => []AnswersAreTrue
  <1>1. ContactInv => AnswersAreTrue
    BY DEF ContactInv, ChannelInv
  <1> QED
    BY <1>1, ContactInvAlways, PTL

\* UplinkClient._handle: what is too old by the clock of the bridge is not started.
THEOREM ChannelNoLateStart == Spec => NoLateStart
  <1>1. ContactInv /\ [Next]_vars =>
          [\A c \in Commands : age[c] > LatestStart /\ ran[c] = "no" => ran'[c] \in {"no", "refused"}]_channelVars
    <2> SUFFICES ASSUME ContactInv, [Next]_vars, NEW c \in Commands, age[c] > LatestStart, ran[c] = "no",
                        ran'[c] # "no"
                 PROVE  ran'[c] = "refused"
      OBVIOUS
    <2>1. age[c] \in Nat
      BY ChannelTypes, ChannelNumbers DEF ChannelTyped, ContactInv
    <2> QED
      BY <2>1, FateChanges, StepOfChannel, ChannelNumbers DEF ContactInv
  <1> QED
    BY <1>1, ContactInvAlways, PTL DEF Spec, NoLateStart

\* The one loop of the bridge: no command overtakes another, nor is one made up for later.
THEOREM ChannelOrderKept == Spec => OrderKept
  <1>1. ContactInv /\ [Next]_vars =>
          [\A c, d \in Commands :
             c < d /\ ran[d] \in {"running", "done", "failed"} /\ ran[c] = "no" => ran'[c] = "no"]_channelVars
    <2> SUFFICES ASSUME ContactInv, [Next]_vars, NEW c \in Commands, NEW d \in Commands,
                        c < d, ran[d] # "no", ran[c] = "no", ran'[c] # "no"
                 PROVE  FALSE
      OBVIOUS
    <2>1. 1 \in DOMAIN down /\ c = down[1]
      BY FateChanges, StepOfChannel DEF ContactInv
    <2>2. ran[d] = "no"
      BY <2>1, ChannelTypes, ChannelNumbers DEF ContactInv, ChannelInv, ChannelTyped, DownInOrder
    <2> QED
      BY <2>2
  <1> QED
    BY <1>1, ContactInvAlways, PTL DEF Spec, OrderKept

\* hw_auto_off_release_s: with a timer in the device, K1 opens within the lease and the
\* longest way of a command after the last decision that wanted it, whatever is lost, late,
\* refused, restarted or sent in the wrong order.
THEOREM ContactLeaseHolds == DeviceTimer => (Spec => []LeaseHolds)
  <1> SUFFICES ASSUME DeviceTimer PROVE Spec => []LeaseHolds
    OBVIOUS
  <1>1. ContactInv => LeaseHolds
    BY ContactNumbers, ChannelNumbers DEF ContactInv, ClosedTimed, ContactTypeOK, LeaseHolds
  <1> QED
    BY <1>1, ContactInvAlways, PTL

----------------------------------------------------------------------------
(* K1 is renewed in time *)

\* Nothing has gone wrong so far, and every command asked for K1 closed.
Calm ==
  faults = 0 /\ \A c \in Commands : c <= issued => wants[c] /\ answer[c] \notin {"failed", "timeout"}

Waiting == {c \in Commands : c <= issued /\ answer[c] = "waiting"}

\* A ticker that waits for an answer waits for a command that was issued.
SendingKnown == \A t \in Tickers : phase[t] = "sending" => cmd[t] \in Commands /\ cmd[t] <= issued

\* The line works, and who has been answered was told of success.
Heard == line = TRUE /\ \A c \in Commands : c <= issued => answer[c] \in {"waiting", "ok"}

\* The instant of the last sending is known, and K1 is closed by a command only.
SentKnown ==
  /\ issued > 0 => sentAge >= 0
  /\ contact => issued > 0
  /\ k1 = Unknown => issued = 0 /\ \A t \in Tickers : phase[t] # "saving"

\* No command waits for longer than the timeout, nor since before the last one was sent.
WaitsShort == \A c \in Waiting : age[c] <= Timeout /\ sentAge <= age[c]

\* A command that has closed K1 has set the timer of the device since it was issued.
RanFresh == \A c \in Waiting : ran[c] = "done" /\ contact => onAge <= age[c]

\* While commands wait, one of them was issued at the latest half a lease into the timer.
SomeFresh == contact /\ Waiting # {} => \E c \in Waiting : onAge <= age[c] + HalfLease

\* The last command has set the timer: it runs no longer than since that command was sent.
LastFresh ==
  contact /\ ran[issued] = "done" /\ (issued < MaxCommands \/ sentAge < HalfLease) => onAge <= sentAge

\* A refresh that is due is on its way once the loop has ticked.
LoopSent == "loop" \in ticked /\ k1 = TRUE /\ RefreshDue => \E t \in Tickers : phase[t] = "saving"

\* So is a decision against K1: no command has asked for that yet.
OffOnWay == k1 = FALSE => \E t \in Tickers : phase[t] = "saving" /\ ~carried[t]

CalmInv ==
  Heard /\ SentKnown /\ WaitsShort /\ RanFresh /\ SomeFresh /\ LastFresh /\ LoopSent /\ OffOnWay

RenewInv == ContactInv /\ SendingKnown /\ (Calm => CalmInv)

\* The times of the code: a caller gives up well before half of the lease is over, and
\* the age of a command is exact for that long.
RenewalFits == HalfLease + Timeout < Lease /\ Timeout <= Oldest

\* What cannot have been otherwise before a step that leaves everything calm.
LEMMA CalmBefore ==
  ASSUME ContactInv, [Next]_vars, Calm'
  PROVE  /\ Calm /\ ~RestartApi /\ ~RestartBridge /\ ~LineBreaks
         /\ \A c \in Commands : ~TimeoutFires(c)
  <1>0. ChannelTyped /\ LineTyped /\ ContactTypeOK
    BY ChannelTypes DEF ContactInv
  <1> USE ChannelNumbers DEF ChannelTyped
  <1>1. faults \in Nat /\ faults' = 0 /\ issued \in Nat
    BY <1>0 DEF LineTyped, Calm
  <1>2. ~Fault
    BY <1>1 DEF Fault
  <1>3. ~RestartApi /\ ~RestartBridge /\ ~LineBreaks
    BY <1>2 DEF RestartApi, RestartBridge, ApiRestart, BridgeRestart, LineBreaks
  <1>4. \A c \in Commands : c <= issued => c # Fresh
    BY <1>0, <1>1 DEF Fresh
  <1>5. \A c \in Commands : ~TimeoutFires(c)
    <2> SUFFICES ASSUME NEW c \in Commands, TimeoutFires(c) PROVE FALSE
      OBVIOUS
    <2>1. c <= issued
      BY <1>0, <1>1 DEF TimeoutFires, Expired, ContactInv, ChannelInv, NotIssued
    <2>2. answer'[c] = "timeout" /\ issued' = issued
      BY <1>0 DEF TimeoutFires
    <2> QED
      BY <2>1, <2>2 DEF Calm
  <1>6. ASSUME NEW t \in Tickers, NEW close \in BOOLEAN, ApplyContacts(t, close)
        PROVE  /\ faults' = faults /\ issued <= issued'
               /\ \A c \in Commands : c <= issued => wants'[c] = wants[c] /\ answer'[c] = answer[c]
    <2>1. CASE UNCHANGED <<cmd, wants, sentAge, channelVars>>
      BY <1>1, <2>1 DEF channelVars
    <2>2. CASE Send /\ wants' = [wants EXCEPT ![Fresh] = close]
      BY <1>0, <1>1, <1>4, <2>2 DEF Send, Fresh, ContactTypeOK
    <2> QED
      BY <1>6, <2>1, <2>2 DEF ApplyContacts
  <1> DEFINE Kept == /\ faults' = faults /\ issued <= issued'
                     /\ \A c \in Commands : c <= issued =>
                          /\ wants'[c] = wants[c]
                          /\ answer[c] \in {"failed", "timeout"} => answer'[c] = answer[c]
  <1>7. Kept
    <2>1. CASE UNCHANGED <<issued, faults, wants, answer>>
      BY <1>1, <2>1
    <2>2. ASSUME NEW t \in Tickers, ControlTick(t) PROVE Kept
      BY <1>6, <2>1, <2>2 DEF ControlTick, channelVars
    <2>3. ASSUME NEW t \in Tickers, Saved(t) PROVE Kept
      BY <1>0, <1>6, <2>3 DEF Saved, ContactTypeOK
    <2>4. CASE UNCHANGED vars
      BY <2>1, <2>4 DEF vars, channelVars, apiVars
    <2>5. ASSUME NEW t \in Tickers, Answered(t) PROVE Kept
      BY <2>1, <2>5 DEF Answered, channelVars
    <2>6. ASSUME NEW switched \in BOOLEAN, NEW ok \in BOOLEAN, Execute(switched, ok) PROVE Kept
      BY <2>1, <2>6 DEF Execute, Finish, apiSide, apiVars
    <2>7. CASE Guardian
      BY <2>1, <2>7 DEF Guardian, channelVars, apiVars
    <2>8. CASE Channel
      <3>1. CASE Begin
        BY <2>1, <2>8, <3>1 DEF Channel, Begin, apiSide, apiVars
      <3>2. CASE Result
        BY <1>0, <1>1, <2>8, <3>2 DEF Channel, Result, apiVars
      <3> QED
        BY <1>3, <1>5, <2>8, <3>1, <3>2 DEF Channel
    <2>9. CASE Connect \/ Tick
      BY <2>1, <2>9 DEF Connect, Reconnect, Tick, TimePasses, apiSide, apiVars
    <2> QED
      BY <1>3, <2>2, <2>3, <2>4, <2>5, <2>6, <2>7, <2>8, <2>9 DEF Next
  <1>8. Calm
    <2>1. issued' \in Nat
      BY StepOfChannel, ChannelInvInductive, ChannelNumbers DEF ContactInv, ChannelInv, ChannelTypeOK
    <2>2. ASSUME NEW c \in Commands, c <= issued PROVE wants[c] /\ answer[c] \notin {"failed", "timeout"}
      <3>1. c <= issued' /\ c \in Nat
        BY <1>0, <1>1, <1>7, <2>1, <2>2
      <3>2. wants'[c] /\ answer'[c] \notin {"failed", "timeout"}
        BY <3>1 DEF Calm
      <3>3. wants'[c] = wants[c] /\ (answer[c] \in {"failed", "timeout"} => answer'[c] = answer[c])
        BY <1>7, <2>2
      <3> QED
        BY <3>2, <3>3
    <2> QED
      BY <1>1, <1>7, <2>2 DEF Calm
  <1> QED
    BY <1>3, <1>5, <1>8

\* While nothing waits, the last command has been carried out.
LEMMA LastIsDone ==
  ASSUME RenewInv, Calm, contact, Waiting = {}
  PROVE  issued \in Commands /\ ran[issued] = "done"
  <1>0. ChannelTyped /\ CalmInv
    BY ChannelTypes DEF RenewInv, ContactInv
  <1>1. issued \in Commands
    BY <1>0 DEF ChannelTyped, CalmInv, SentKnown
  <1>2. answer[issued] \in {"waiting", "ok"} /\ issued <= issued
    BY <1>0, <1>1 DEF CalmInv, Heard, ChannelTyped
  <1>3. answer[issued] = "ok"
    BY <1>1, <1>2 DEF Waiting
  <1> QED
    BY <1>1, <1>3 DEF RenewInv, ContactInv, ChannelInv, AnswersAreTrue

\* A command goes out: it asks for K1 closed, and the contact is not late for it.
LEMMA SendRenews ==
  ASSUME RenewInv, Calm, Calm', RenewalFits, NEW t \in Tickers, NEW close \in BOOLEAN,
         ApplyContacts(t, close), UNCHANGED <<contact, onAge>>
  PROVE  /\ close /\ issued' = issued + 1 /\ sentAge' = 0 /\ phase' = [phase EXCEPT ![t] = "sending"]
         /\ SendingKnown' /\ Heard' /\ WaitsShort' /\ RanFresh' /\ SomeFresh' /\ LastFresh'
  <1>0. ChannelTyped /\ LineTyped /\ ContactTypeOK /\ CalmInv
    BY ChannelTypes DEF RenewInv, ContactInv
  <1> USE ChannelNumbers, ContactNumbers DEF ChannelTyped
  <1>1. /\ Send /\ sentAge' = 0 /\ wants' = [wants EXCEPT ![Fresh] = close]
        /\ cmd' = [cmd EXCEPT ![t] = Fresh] /\ phase' = [phase EXCEPT ![t] = "sending"]
    BY <1>0 DEF ApplyContacts, Online, CalmInv, Heard
  <1>2. /\ issued < MaxCommands /\ issued' = issued + 1 /\ Fresh = issued + 1 /\ Fresh \in Commands
        /\ answer' = [answer EXCEPT ![Fresh] = "waiting"]
        /\ UNCHANGED <<age, line, ran>>
    BY <1>0, <1>1 DEF Send, Fresh, bridgeSide, CalmInv, Heard
  <1>3. /\ answer'[Fresh] = "waiting" /\ wants'[Fresh] = close /\ cmd'[t] = Fresh
        /\ \A c \in Commands : c # Fresh => answer'[c] = answer[c]
        /\ \A u \in Tickers : u # t => cmd'[u] = cmd[u] /\ phase'[u] = phase[u]
        /\ \A c \in Commands : c <= Fresh <=> c <= issued \/ c = Fresh
        /\ ~(Fresh <= issued)
    BY <1>0, <1>1, <1>2 DEF ContactTypeOK
  <1>4. close
    BY <1>2, <1>3 DEF Calm
  <1>5. age[Fresh] = 0 /\ ran[Fresh] = "no"
    BY <1>2, <1>3, <1>0 DEF RenewInv, ContactInv, ChannelInv, NotIssued
  <1>6. /\ Fresh \in Waiting'
        /\ \A c \in Waiting : c \in Waiting' /\ c # Fresh
        /\ \A c \in Waiting' : c \in Waiting \/ c = Fresh
    BY <1>2, <1>3 DEF Waiting
  <1>7. SendingKnown'
    <2> SUFFICES ASSUME NEW u \in Tickers, phase'[u] = "sending"
                 PROVE  cmd'[u] \in Commands /\ cmd'[u] <= issued + 1
      BY <1>2 DEF SendingKnown
    <2>1. CASE u = t
      BY <1>2, <1>3, <2>1
    <2>2. CASE u # t
      <3>1. phase[u] = "sending" /\ cmd'[u] = cmd[u]
        BY <1>3, <2>2
      <3>2. cmd[u] \in Commands /\ cmd[u] <= issued
        BY <3>1 DEF RenewInv, SendingKnown
      <3> QED
        BY <1>0, <3>1, <3>2
    <2> QED
      BY <2>1, <2>2
  <1>8. Heard'
    BY <1>0, <1>2, <1>3 DEF CalmInv, Heard
  <1>9. \A c \in Waiting : c \in Commands /\ age[c] \in Nat /\ age[c] <= Timeout
    BY <1>0 DEF Waiting, CalmInv, WaitsShort
  <1>10. WaitsShort'
    BY <1>1, <1>2, <1>5, <1>6, <1>9 DEF WaitsShort
  <1>11. RanFresh'
    BY <1>0, <1>2, <1>5, <1>6 DEF CalmInv, RanFresh
  <1>12. SomeFresh'
    <2> SUFFICES ASSUME contact PROVE \E c \in Waiting' : onAge <= age[c] + HalfLease
      BY <1>2 DEF SomeFresh
    <2>1. CASE Waiting # {}
      BY <1>0, <1>6, <2>1 DEF CalmInv, SomeFresh
    <2>2. CASE Waiting = {}
      <3>1. onAge <= sentAge
        BY <1>0, <1>2, <2>2, LastIsDone DEF CalmInv, LastFresh
      <3> QED
        BY <1>0, <1>5, <1>6, <3>1 DEF ContactTypeOK
    <2> QED
      BY <2>1, <2>2
  <1>13. LastFresh'
    BY <1>2, <1>5 DEF LastFresh
  <1> QED
    BY <1>1, <1>2, <1>4, <1>7, <1>8, <1>10, <1>11, <1>12, <1>13

\* A refresh is not due right after a command was sent.
LEMMA NotDue == sentAge' = 0 => ~RefreshDue'
  BY ContactNumbers DEF RefreshDue

LEMMA ControlTickRenews ==
  ASSUME RenewInv, Calm, Calm', RenewalFits, NEW t \in Tickers, ControlTick(t), ContactInv'
  PROVE  RenewInv'
  <1>0. ChannelTyped /\ LineTyped /\ ContactTypeOK /\ CalmInv /\ SendingKnown
    BY ChannelTypes DEF RenewInv, ContactInv
  <1> USE ChannelNumbers, ContactNumbers DEF ChannelTyped
  <1>1. PICK close \in BOOLEAN :
          /\ k1' = close
          /\ \/ /\ phase' = [phase EXCEPT ![t] = "saving"]
                /\ carried' = [carried EXCEPT ![t] = close]
                /\ UNCHANGED <<cmd, wants, sentAge, channelVars>>
             \/ /\ close /\ ApplyContacts(t, close)
                /\ UNCHANGED carried
             \/ /\ close = k1 /\ ~(close /\ RefreshDue)
                /\ UNCHANGED <<phase, carried, cmd, wants, sentAge, channelVars>>
    BY DEF ControlTick
  <1>2. UNCHANGED <<contact, onAge>> /\ phase[t] = "idle"
    BY DEF ControlTick, houseVars
  <1>3. k1' # Unknown
    BY <1>1
  <1>4. ASSUME UNCHANGED <<cmd, wants, sentAge, channelVars>>
        PROVE  SentKnown' /\ Heard' /\ WaitsShort' /\ RanFresh' /\ SomeFresh' /\ LastFresh'
    <2>1. UNCHANGED <<issued, age, answer, line, ran, sentAge, contact, onAge>> /\ Waiting' = Waiting
      BY <1>2, <1>4 DEF channelVars, Waiting
    <2>2. SentKnown' /\ Heard'
      BY <1>0, <1>3, <2>1 DEF CalmInv, SentKnown, Heard
    <2>3. WaitsShort' /\ RanFresh'
      BY <1>0, <2>1 DEF CalmInv, WaitsShort, RanFresh
    <2>4. SomeFresh'
      BY <1>0, <2>1 DEF CalmInv, SomeFresh
    <2>5. LastFresh'
      BY <1>0, <2>1 DEF CalmInv, LastFresh
    <2> QED
      BY <2>2, <2>3, <2>4, <2>5
  <1>5. CASE /\ phase' = [phase EXCEPT ![t] = "saving"]
             /\ carried' = [carried EXCEPT ![t] = close]
             /\ UNCHANGED <<cmd, wants, sentAge, channelVars>>
    <2>1. phase'[t] = "saving" /\ carried'[t] = close
      BY <1>0, <1>5 DEF ContactTypeOK
    <2>2. LoopSent' /\ OffOnWay'
      BY <1>1, <2>1 DEF LoopSent, OffOnWay
    <2>3. SendingKnown'
      BY <1>0, <1>5 DEF SendingKnown, channelVars, ContactTypeOK
    <2> QED
      BY <1>4, <1>5, <2>2, <2>3 DEF RenewInv, CalmInv
  <1>6. CASE close /\ ApplyContacts(t, close)
    <2>1. /\ issued' = issued + 1 /\ sentAge' = 0
          /\ SendingKnown' /\ Heard' /\ WaitsShort' /\ RanFresh' /\ SomeFresh' /\ LastFresh'
      BY <1>2, <1>6, SendRenews
    <2>2. SentKnown'
      BY <1>0, <1>3, <2>1 DEF SentKnown
    <2>3. LoopSent'
      BY <2>1, NotDue DEF LoopSent
    <2>4. OffOnWay'
      BY <1>1, <1>6 DEF OffOnWay
    <2> QED
      BY <2>1, <2>2, <2>3, <2>4 DEF RenewInv, CalmInv
  <1>7. CASE /\ close = k1 /\ ~(close /\ RefreshDue)
             /\ UNCHANGED <<phase, carried, cmd, wants, sentAge, channelVars>>
    <2>1. RefreshDue' <=> RefreshDue
      BY <1>7 DEF RefreshDue
    <2>2. LoopSent'
      BY <1>1, <1>7, <2>1 DEF LoopSent
    <2>3. OffOnWay'
      BY <1>0, <1>1, <1>7 DEF OffOnWay, CalmInv
    <2>4. SendingKnown'
      BY <1>0, <1>7 DEF SendingKnown, channelVars
    <2> QED
      BY <1>4, <1>7, <2>2, <2>3, <2>4 DEF RenewInv, CalmInv
  <1> QED
    BY <1>1, <1>5, <1>6, <1>7

LEMMA SavedRenews ==
  ASSUME RenewInv, Calm, Calm', RenewalFits, NEW t \in Tickers, Saved(t), ContactInv'
  PROVE  RenewInv'
  <1>0. ChannelTyped /\ ContactTypeOK /\ CalmInv
    BY ChannelTypes DEF RenewInv, ContactInv
  <1> USE ChannelNumbers, ContactNumbers DEF ChannelTyped
  <1>1. /\ phase[t] = "saving" /\ ApplyContacts(t, carried[t]) /\ carried[t] \in BOOLEAN
        /\ carried' = [carried EXCEPT ![t] = FALSE]
        /\ UNCHANGED <<k1, ticked, contact, onAge>>
    BY <1>0 DEF Saved, houseVars, ContactTypeOK
  <1>2. /\ carried[t] /\ issued' = issued + 1 /\ sentAge' = 0 /\ phase' = [phase EXCEPT ![t] = "sending"]
        /\ SendingKnown' /\ Heard' /\ WaitsShort' /\ RanFresh' /\ SomeFresh' /\ LastFresh'
    BY <1>1, SendRenews
  <1>3. OffOnWay'
    <2> SUFFICES ASSUME k1 = FALSE PROVE \E u \in Tickers : phase'[u] = "saving" /\ ~carried'[u]
      BY <1>1 DEF OffOnWay
    <2>1. PICK u \in Tickers : phase[u] = "saving" /\ ~carried[u]
      BY <1>0 DEF CalmInv, OffOnWay
    <2>2. u # t
      BY <1>2, <2>1
    <2> QED
      BY <1>0, <1>1, <1>2, <2>1, <2>2 DEF ContactTypeOK
  <1>4. LoopSent'
    BY <1>2, NotDue DEF LoopSent
  <1>5. SentKnown'
    <2>1. k1 # Unknown
      BY <1>0, <1>1 DEF CalmInv, SentKnown
    <2> QED
      BY <1>0, <1>1, <1>2, <2>1 DEF SentKnown
  <1> QED
    BY <1>2, <1>3, <1>4, <1>5 DEF RenewInv, CalmInv

\* A step that sends nothing, carries nothing out and leaves the contact alone.
NothingSent ==
  /\ UNCHANGED <<issued, age, answer, line, wants, sentAge, k1, ticked, carried, contact, onAge>>
  /\ \A c \in Commands : ran'[c] = "done" => ran[c] = "done"
  /\ \A t \in Tickers : /\ phase'[t] = phase[t] \/ (phase[t] = "sending" /\ phase'[t] = "idle")
                        /\ phase'[t] = "sending" => cmd'[t] = cmd[t]

LEMMA RenewsKept ==
  ASSUME RenewInv, Calm, ContactInv', NothingSent
  PROVE  RenewInv'
  <1> USE DEF NothingSent
  <1>0. CalmInv /\ SendingKnown /\ Waiting' = Waiting
    BY DEF RenewInv, Waiting
  <1>1. \A c \in Waiting : c \in Commands
    BY DEF Waiting
  <1>2. Heard' /\ WaitsShort'
    BY <1>0 DEF CalmInv, Heard, WaitsShort
  <1>3. RanFresh'
    BY <1>0, <1>1 DEF CalmInv, RanFresh
  <1>4. SomeFresh'
    BY <1>0 DEF CalmInv, SomeFresh
  <1>5. LastFresh'
    <2> SUFFICES ASSUME contact, ran'[issued] = "done", issued < MaxCommands \/ sentAge < HalfLease
                 PROVE  onAge <= sentAge
      BY DEF LastFresh
    <2>1. issued \in Commands
      BY <1>0, ChannelTypes DEF RenewInv, CalmInv, SentKnown, ContactInv, ChannelTyped
    <2> QED
      BY <1>0, <2>1 DEF CalmInv, LastFresh
  <1>6. \A t \in Tickers : phase'[t] = "saving" <=> phase[t] = "saving"
    OBVIOUS
  <1>7. SentKnown'
    BY <1>0, <1>6 DEF CalmInv, SentKnown
  <1>8. LoopSent'
    BY <1>0, <1>6 DEF CalmInv, LoopSent, RefreshDue
  <1>9. OffOnWay'
    BY <1>0, <1>6 DEF CalmInv, OffOnWay
  <1>10. SendingKnown'
    BY <1>0 DEF SendingKnown
  <1> QED
    BY <1>2, <1>3, <1>4, <1>5, <1>7, <1>8, <1>9, <1>10 DEF RenewInv, CalmInv

\* While all is calm the command that runs asks for K1 closed.
LEMMA ExecuteRenews ==
  ASSUME RenewInv, Calm, NEW switched \in BOOLEAN, NEW ok \in BOOLEAN, Execute(switched, ok), ContactInv'
  PROVE  RenewInv' /\ (contact => contact')
  <1>0. ChannelTyped /\ ContactTypeOK /\ CalmInv /\ SendingKnown /\ ChannelInv
    BY ChannelTypes DEF RenewInv, ContactInv
  <1> USE ChannelNumbers, ContactNumbers DEF ChannelTyped
  <1>1. /\ running # 0 /\ UNCHANGED <<issued, age, answer, line, apiVars>>
        /\ ran' = [ran EXCEPT ![running] = IF switched THEN "done" ELSE "failed"]
        /\ IF switched THEN contact' = wants[running] /\ onAge' = 0 ELSE UNCHANGED <<contact, onAge>>
    BY DEF Execute, Finish, Switch, apiSide
  <1>2. running \in Commands /\ running <= issued /\ wants[running] /\ issued > 0
    BY <1>0, <1>1 DEF ChannelInv, NotIssued, Calm
  <1>3. \A c \in Commands : ran'[c] = "done" => ran[c] = "done" \/ switched
    BY <1>0, <1>1
  <1>4. CASE ~switched
    <2>1. UNCHANGED <<issued, age, answer, line, wants, sentAge, k1, ticked, carried, contact, onAge, phase, cmd>>
      BY <1>1, <1>4 DEF apiVars
    <2>2. \A c \in Commands : ran'[c] = "done" => ran[c] = "done"
      BY <1>3, <1>4
    <2>3. \A t \in Tickers : phase'[t] = phase[t] /\ cmd'[t] = cmd[t]
      BY <2>1
    <2>4. NothingSent
      BY <2>1, <2>2, <2>3 DEF NothingSent
    <2> QED
      BY <2>1, <2>4, RenewsKept
  <1>5. CASE switched
    <2>1. /\ UNCHANGED <<issued, age, answer, line, wants, sentAge, k1, ticked, carried, phase, cmd>>
          /\ contact' /\ onAge' = 0 /\ Waiting' = Waiting
      BY <1>1, <1>2, <1>5 DEF apiVars, Waiting
    <2>2. Heard' /\ WaitsShort' /\ SentKnown' /\ LoopSent' /\ OffOnWay' /\ SendingKnown'
      <3>1. Heard' /\ WaitsShort'
        BY <1>0, <2>1 DEF CalmInv, Heard, WaitsShort
      <3>2. SentKnown'
        BY <1>0, <1>2, <2>1 DEF CalmInv, SentKnown
      <3>3. LoopSent'
        BY <1>0, <2>1 DEF CalmInv, LoopSent, RefreshDue
      <3>4. OffOnWay' /\ SendingKnown'
        BY <1>0, <2>1 DEF CalmInv, OffOnWay, SendingKnown
      <3> QED
        BY <3>1, <3>2, <3>3, <3>4
    <2>3. \A c \in Waiting : age[c] \in Nat
      BY <1>0 DEF Waiting
    <2>4. RanFresh' /\ SomeFresh'
      BY <2>1, <2>3 DEF RanFresh, SomeFresh
    <2>5. LastFresh'
      BY <1>0, <1>2, <2>1 DEF CalmInv, SentKnown, LastFresh
    <2> QED
      BY <2>1, <2>2, <2>4, <2>5 DEF RenewInv, CalmInv
  <1> QED
    BY <1>4, <1>5

\* An answer arrives: if the freshest command is gone, the timer has been set by it.
LEMMA ResultRenews ==
  ASSUME RenewInv, Calm, Calm', RenewalFits, Result, UNCHANGED <<apiVars, houseVars>>, ContactInv'
  PROVE  RenewInv'
  <1>0. ChannelTyped /\ LineTyped /\ ContactTypeOK /\ CalmInv /\ SendingKnown /\ ChannelInv
    BY ChannelTypes DEF RenewInv, ContactInv
  <1> USE ChannelNumbers, ContactNumbers DEF ChannelTyped
  <1>1. /\ UNCHANGED <<issued, age, line, ran, wants, sentAge, k1, ticked, carried, phase, cmd, contact, onAge>>
        /\ up # <<>>
        /\ LET c == Head(up)[1] IN
             answer' = IF c \in pending /\ answer[c] = "waiting"
                       THEN [answer EXCEPT ![c] = IF Head(up)[2] THEN "ok" ELSE "failed"]
                       ELSE answer
    BY DEF Result, bridgeSide, apiVars, houseVars
  <1>2. CASE answer' = answer
    <2>1. UNCHANGED <<issued, age, answer, line, wants, sentAge, k1, ticked, carried, contact, onAge, phase, cmd, ran>>
      BY <1>1, <1>2
    <2>2. \A t \in Tickers : phase'[t] = phase[t] /\ cmd'[t] = cmd[t]
      BY <2>1
    <2>3. \A c \in Commands : ran'[c] = "done" => ran[c] = "done"
      BY <2>1
    <2>4. NothingSent
      BY <2>1, <2>2, <2>3 DEF NothingSent
    <2> QED
      BY <2>4, RenewsKept
  <1>3. CASE answer' # answer
    <2>1. PICK c \in Commands, heard \in {"ok", "failed"} :
            answer[c] = "waiting" /\ answer' = [answer EXCEPT ![c] = heard]
      <3>1. Head(up)[1] \in Commands
        BY <1>0, <1>1, Taken DEF LineTyped
      <3> QED
        BY <1>1, <1>3, <3>1
    <2>2. answer'[c] = heard /\ \A d \in Commands : d # c => answer'[d] = answer[d]
      BY <1>0, <2>1
    <2>3. c <= issued
      BY <1>0, <2>1 DEF ChannelInv, NotIssued
    <2>4. heard = "ok" /\ ran[c] = "done"
      <3>1. answer'[c] # "failed"
        BY <1>1, <2>3 DEF Calm
      <3>2. heard = "ok"
        BY <2>1, <2>2, <3>1
      <3> QED
        BY <1>1, <2>2, <3>2 DEF ContactInv, ChannelInv, AnswersAreTrue
    <2>5. c \in Waiting /\ \A d \in Waiting' : d \in Waiting
      BY <1>1, <2>1, <2>2, <2>3, <2>4 DEF Waiting
    <2>6. \A d \in Waiting : d # c => d \in Waiting'
      BY <1>1, <2>2 DEF Waiting
    <2>7. Heard'
      BY <1>0, <1>1, <2>2, <2>4 DEF CalmInv, Heard
    <2>8. WaitsShort' /\ RanFresh'
      BY <1>0, <1>1, <2>5 DEF CalmInv, WaitsShort, RanFresh
    <2>9. SomeFresh'
      <3> SUFFICES ASSUME contact, NEW e \in Waiting' PROVE \E d \in Waiting' : onAge <= age[d] + HalfLease
        BY <1>1 DEF SomeFresh
      <3>1. PICK d \in Waiting : onAge <= age[d] + HalfLease
        BY <1>0, <2>5 DEF CalmInv, SomeFresh
      <3>2. CASE d # c
        BY <2>6, <3>1, <3>2
      <3>3. CASE d = c
        <4>1. onAge <= age[c] /\ age[c] <= Timeout /\ age[c] \in Nat /\ onAge \in Nat
          BY <1>0, <2>4, <2>5 DEF CalmInv, RanFresh, WaitsShort, ContactTypeOK
        <4>2. Timeout <= HalfLease
          BY DEF RenewalFits
        <4>3. e \in Commands /\ age[e] \in Nat
          BY <1>0, <2>5 DEF Waiting
        <4> QED
          BY <4>1, <4>2, <4>3
      <3> QED
        BY <3>2, <3>3
    <2>10. SentKnown'
      BY <1>0, <1>1 DEF CalmInv, SentKnown
    <2>11. LastFresh' /\ LoopSent'
      BY <1>0, <1>1 DEF CalmInv, LastFresh, LoopSent, RefreshDue
    <2>12. OffOnWay' /\ SendingKnown'
      BY <1>0, <1>1 DEF CalmInv, OffOnWay, SendingKnown
    <2> QED
      BY <2>7, <2>8, <2>9, <2>10, <2>11, <2>12 DEF RenewInv, CalmInv
  <1> QED
    BY <1>2, <1>3

\* The times after a unit of time, while all is calm.
LEMMA TickTimes ==
  ASSUME RenewInv, Calm, Tick, RenewalFits
  PROVE  /\ UNCHANGED <<issued, answer, line, ran, k1, phase, carried, cmd, wants>>
         /\ \A c \in Waiting : /\ c \in Commands /\ age[c] \in Nat
                               /\ age[c] < Timeout /\ age'[c] = age[c] + 1
         /\ sentAge \in Int /\ sentAge' = (IF sentAge = None \/ sentAge >= HalfLease THEN sentAge ELSE sentAge + 1)
         /\ onAge \in Nat
         /\ contact' => contact /\ onAge' \in Nat /\ onAge' <= onAge + 1
  <1>0. ChannelTyped /\ ContactTypeOK /\ CalmInv
    BY ChannelTypes DEF RenewInv, ContactInv
  <1> USE ChannelNumbers, ContactNumbers DEF ChannelTyped
  <1>1. /\ UNCHANGED <<issued, answer, line, ran, k1, phase, carried, cmd, wants>>
        /\ sentAge' = Later(sentAge, HalfLease) /\ TimePasses
    BY DEF Tick, TimePasses, apiSide, bridgeSide, wire
  <1>2. ASSUME NEW c \in Waiting
        PROVE  c \in Commands /\ age[c] \in Nat /\ age[c] < Timeout /\ age'[c] = age[c] + 1
    <2>1. c \in Commands /\ c <= issued /\ answer[c] = "waiting" /\ age[c] \in Nat
      BY <1>0 DEF Waiting
    <2>2. age[c] < Timeout
      BY <1>0, <1>1, <2>1 DEF TimePasses, Expired
    <2>3. ~Settled(c) /\ age[c] < Oldest
      BY <1>0, <2>1, <2>2 DEF Settled, RenewalFits
    <2>4. age'[c] = IF Settled(c) THEN 0 ELSE IF age[c] < Oldest THEN age[c] + 1 ELSE age[c]
      BY <1>1, <2>1 DEF TimePasses
    <2> QED
      BY <2>1, <2>2, <2>3, <2>4
  <1>3. sentAge \in Int /\ sentAge' = (IF sentAge = None \/ sentAge >= HalfLease THEN sentAge ELSE sentAge + 1)
    BY <1>0, <1>1 DEF ContactTypeOK, Later
  <1>4. onAge \in Nat
    BY <1>0 DEF ContactTypeOK
  <1>5. contact' => contact /\ onAge' \in Nat /\ onAge' <= onAge + 1
    <2>1. CASE DeviceTimer /\ contact /\ onAge + 1 >= Lease
      BY <2>1 DEF Tick, Switch
    <2>2. CASE ~(DeviceTimer /\ contact /\ onAge + 1 >= Lease)
      <3>1. onAge' = (IF contact /\ onAge < Lease THEN onAge + 1 ELSE onAge) /\ contact' = contact
        BY <2>2 DEF Tick
      <3> QED
        BY <1>4, <3>1
    <2> QED
      BY <2>1, <2>2
  <1> QED
    BY <1>1, <1>2, <1>3, <1>4, <1>5

\* Half of the lease after the last sending the bound on commands is reached, or K1 is
\* not closed: the loop has seen to it.
LEMMA RefreshSeen ==
  ASSUME RenewInv, Calm, Tick, RenewalFits, contact, sentAge >= HalfLease, issued < MaxCommands
  PROVE  FALSE
  <1>0. ChannelTyped /\ ContactTypeOK /\ CalmInv /\ SendingKnown
    BY ChannelTypes DEF RenewInv, ContactInv
  <1> USE ChannelNumbers, ContactNumbers DEF ChannelTyped
  <1>1. /\ \A t \in Tickers : phase[t] # "saving"
        /\ "loop" \in ticked \/ (phase["loop"] = "sending" /\ answer[cmd["loop"]] = "waiting")
    BY <1>0 DEF Tick
  <1>2. k1 = TRUE
    BY <1>0, <1>1 DEF ContactTypeOK, CalmInv, SentKnown, OffOnWay
  <1>3. CASE "loop" \in ticked
    BY <1>0, <1>1, <1>2, <1>3 DEF CalmInv, LoopSent, RefreshDue
  <1>4. CASE phase["loop"] = "sending" /\ answer[cmd["loop"]] = "waiting"
    <2>1. cmd["loop"] \in Waiting
      BY <1>0, <1>4 DEF SendingKnown, Waiting, Tickers
    <2>2. age[cmd["loop"]] \in Nat /\ age[cmd["loop"]] < Timeout
      BY <2>1, TickTimes
    <2>3. sentAge <= age[cmd["loop"]]
      BY <1>0, <2>1 DEF CalmInv, WaitsShort
    <2> QED
      BY <1>0, <2>2, <2>3 DEF RenewalFits, ContactTypeOK
  <1> QED
    BY <1>1, <1>3, <1>4

LEMMA TickRenews ==
  ASSUME RenewInv, Calm, Tick, RenewalFits, ContactInv'
  PROVE  RenewInv'
  <1>0. ChannelTyped /\ ContactTypeOK /\ CalmInv /\ SendingKnown
    BY ChannelTypes DEF RenewInv, ContactInv
  <1> USE ChannelNumbers, ContactNumbers DEF ChannelTyped
  <1>1. /\ UNCHANGED <<issued, answer, line, ran, k1, phase, carried, cmd, wants>>
        /\ \A c \in Waiting : /\ c \in Commands /\ age[c] \in Nat
                              /\ age[c] < Timeout /\ age'[c] = age[c] + 1
        /\ sentAge \in Int /\ sentAge' = (IF sentAge = None \/ sentAge >= HalfLease THEN sentAge ELSE sentAge + 1)
        /\ onAge \in Nat
        /\ contact' => contact /\ onAge' \in Nat /\ onAge' <= onAge + 1
    BY TickTimes
  <1>2. Waiting' = Waiting /\ ticked' = {}
    BY <1>1 DEF Waiting, Tick
  <1>3. Heard'
    BY <1>0, <1>1 DEF CalmInv, Heard
  <1>4. SentKnown'
    BY <1>0, <1>1 DEF CalmInv, SentKnown
  <1>5. WaitsShort'
    <2> SUFFICES ASSUME NEW c \in Waiting PROVE age'[c] <= Timeout /\ sentAge' <= age'[c]
      BY <1>2 DEF WaitsShort
    <2>1. sentAge <= age[c]
      BY <1>0 DEF CalmInv, WaitsShort
    <2> QED
      BY <1>1, <2>1
  <1>6. RanFresh'
    <2> SUFFICES ASSUME NEW c \in Waiting, ran[c] = "done", contact' PROVE onAge' <= age'[c]
      BY <1>1, <1>2 DEF RanFresh
    <2>1. onAge <= age[c]
      BY <1>0, <1>1 DEF CalmInv, RanFresh
    <2> QED
      BY <1>1, <2>1
  <1>7. SomeFresh'
    <2> SUFFICES ASSUME contact', NEW e \in Waiting PROVE \E c \in Waiting : onAge' <= age'[c] + HalfLease
      BY <1>2 DEF SomeFresh
    <2>1. PICK c \in Waiting : onAge <= age[c] + HalfLease
      BY <1>0, <1>1 DEF CalmInv, SomeFresh
    <2> QED
      BY <1>1, <2>1
  <1>8. LastFresh'
    <2> SUFFICES ASSUME contact', ran[issued] = "done", issued < MaxCommands \/ sentAge' < HalfLease
                 PROVE  onAge' <= sentAge'
      BY <1>1 DEF LastFresh
    <2>1. contact /\ sentAge >= 0
      BY <1>0, <1>1 DEF CalmInv, SentKnown
    <2>2. sentAge < HalfLease
      BY <1>0, <1>1, <2>1, RefreshSeen
    <2>3. onAge <= sentAge
      BY <1>0, <2>1, <2>2 DEF CalmInv, LastFresh
    <2> QED
      BY <1>1, <2>1, <2>2, <2>3
  <1>9. LoopSent'
    BY <1>2 DEF LoopSent
  <1>10. OffOnWay' /\ SendingKnown'
    BY <1>0, <1>1 DEF CalmInv, OffOnWay, SendingKnown
  <1> QED
    BY <1>3, <1>4, <1>5, <1>6, <1>7, <1>8, <1>9, <1>10 DEF RenewInv, CalmInv

\* Calm or not, a ticker that waits for an answer waits for a command that was issued.
LEMMA SendingInv ==
  ASSUME ContactInv, SendingKnown, [Next]_vars
  PROVE  SendingKnown'
  <1>0. ChannelTyped /\ ContactTypeOK
    BY ChannelTypes DEF ContactInv
  <1> USE ChannelNumbers DEF ChannelTyped
  <1>1. CASE /\ issued' = issued
             /\ \A t \in Tickers : phase'[t] = "sending" => phase[t] = "sending" /\ cmd'[t] = cmd[t]
    BY <1>1 DEF SendingKnown
  <1>2. ASSUME NEW t \in Tickers, NEW close, ApplyContacts(t, close) PROVE SendingKnown'
    <2>1. CASE phase' = [phase EXCEPT ![t] = "idle"] /\ UNCHANGED <<cmd, channelVars>>
      BY <1>0, <1>1, <2>1 DEF channelVars, ContactTypeOK
    <2>2. CASE Send /\ cmd' = [cmd EXCEPT ![t] = Fresh] /\ phase' = [phase EXCEPT ![t] = "sending"]
      <3>1. issued' = issued + 1 /\ Fresh = issued + 1 /\ Fresh \in Commands
        BY <1>0, <2>2 DEF Send, Fresh
      <3> SUFFICES ASSUME NEW u \in Tickers, phase'[u] = "sending"
                   PROVE  cmd'[u] \in Commands /\ cmd'[u] <= issued'
        BY DEF SendingKnown
      <3>2. CASE u = t
        BY <1>0, <2>2, <3>1, <3>2 DEF ContactTypeOK
      <3>3. CASE u # t
        <4>1. phase[u] = "sending" /\ cmd'[u] = cmd[u]
          BY <1>0, <2>2, <3>3 DEF ContactTypeOK
        <4>2. cmd[u] \in Commands /\ cmd[u] <= issued
          BY <4>1 DEF SendingKnown
        <4>3. cmd[u] \in Nat /\ issued \in Nat
          BY <1>0, <4>2
        <4>4. cmd[u] <= issued + 1
          BY <4>2, <4>3
        <4> QED
          BY <3>1, <4>1, <4>2, <4>4
      <3> QED
        BY <3>2, <3>3
    <2> QED
      BY <1>2, <2>1, <2>2 DEF ApplyContacts
  <1>3. ASSUME NEW t \in Tickers, ControlTick(t) PROVE SendingKnown'
    <2>1. CASE phase' = [phase EXCEPT ![t] = "saving"] /\ UNCHANGED <<cmd, channelVars>>
      BY <1>0, <1>1, <2>1 DEF channelVars, ContactTypeOK
    <2>2. CASE UNCHANGED <<phase, cmd, channelVars>>
      BY <1>1, <2>2 DEF channelVars
    <2> QED
      BY <1>2, <1>3, <2>1, <2>2 DEF ControlTick
  <1>4. ASSUME NEW t \in Tickers, Saved(t) PROVE SendingKnown'
    BY <1>2, <1>4 DEF Saved
  <1>5. ASSUME NEW t \in Tickers, Answered(t) PROVE SendingKnown'
    BY <1>0, <1>1, <1>5 DEF Answered, channelVars, ContactTypeOK
  <1>6. CASE RestartApi
    BY <1>6 DEF RestartApi, SendingKnown
  <1>7. ASSUME NEW switched \in BOOLEAN, NEW ok \in BOOLEAN, Execute(switched, ok) PROVE SendingKnown'
    BY <1>1, <1>7 DEF Execute, Finish, apiSide, apiVars
  <1>8. CASE RestartBridge
    BY <1>1, <1>8 DEF RestartBridge, BridgeRestart, apiSide, apiVars
  <1>9. CASE Guardian \/ Connect
    BY <1>1, <1>9 DEF Guardian, Connect, Reconnect, channelVars, apiSide, apiVars
  <1>10. CASE Channel
    BY <1>1, <1>10 DEF Channel, Begin, Result, LineBreaks, TimeoutFires, apiSide, apiVars
  <1>11. CASE Tick
    BY <1>1, <1>11 DEF Tick, TimePasses, apiSide
  <1>12. CASE UNCHANGED vars
    BY <1>1, <1>12 DEF vars, channelVars, apiVars
  <1> QED
    BY <1>3, <1>4, <1>5, <1>6, <1>7, <1>8, <1>9, <1>10, <1>11, <1>12 DEF Next

LEMMA RenewInitInv == Init => RenewInv
  <1> SUFFICES ASSUME Init PROVE RenewInv
    OBVIOUS
  <1>1. ContactInv
    BY ContactInitInv
  <1>2. /\ issued = 0 /\ line = TRUE /\ ~contact /\ k1 = Unknown /\ ticked = {}
        /\ \A t \in Tickers : phase[t] = "idle"
    BY DEF Init, ChannelInit
  <1>3. \A c \in Commands : ~(c <= issued)
    BY <1>2, ChannelNumbers DEF Commands
  <1>4. Waiting = {} /\ SendingKnown /\ Heard
    BY <1>2, <1>3 DEF Waiting, SendingKnown, Heard
  <1>5. SentKnown /\ LoopSent
    BY <1>2 DEF SentKnown, LoopSent
  <1>7. OffOnWay
    BY <1>2, ContactNumbers DEF OffOnWay
  <1>6. WaitsShort /\ RanFresh /\ SomeFresh /\ LastFresh
    BY <1>2, <1>4 DEF WaitsShort, RanFresh, SomeFresh, LastFresh
  <1> QED
    BY <1>1, <1>4, <1>5, <1>6, <1>7 DEF RenewInv, CalmInv

\* While all is calm the bridge is connected, and the guardian has nothing to do.
LEMMA GuardianRests ==
  ASSUME RenewInv, Calm
  PROVE  ~Offline /\ ~Connect
  BY DEF RenewInv, CalmInv, Heard, Offline, Connected, Connect, Reconnect

LEMMA RenewInvInductive == RenewalFits => (RenewInv /\ [Next]_vars => RenewInv')
  <1> SUFFICES ASSUME RenewalFits, RenewInv, [Next]_vars PROVE RenewInv'
    OBVIOUS
  <1>1. ContactInv /\ ContactInv' /\ SendingKnown'
    BY ContactInvInductive, SendingInv DEF RenewInv
  <1>2. CASE ~Calm'
    BY <1>1, <1>2 DEF RenewInv
  <1> SUFFICES ASSUME Calm' PROVE RenewInv'
    BY <1>2
  <1>3. Calm /\ ~RestartApi /\ ~RestartBridge /\ ~LineBreaks /\ \A c \in Commands : ~TimeoutFires(c)
    BY <1>1, CalmBefore
  <1>4. CASE UNCHANGED vars
    <2>1. NothingSent
      BY <1>4 DEF vars, channelVars, apiVars, houseVars, NothingSent
    <2> QED
      BY <1>1, <1>3, <2>1, RenewsKept
  <1>5. ASSUME NEW t \in Tickers, ControlTick(t) PROVE RenewInv'
    BY <1>1, <1>3, <1>5, ControlTickRenews
  <1>6. ASSUME NEW t \in Tickers, Saved(t) PROVE RenewInv'
    BY <1>1, <1>3, <1>6, SavedRenews
  <1>7. ASSUME NEW t \in Tickers, Answered(t) PROVE RenewInv'
    <2>1. /\ UNCHANGED <<issued, age, answer, line, ran, wants, sentAge, k1, ticked, carried, contact, onAge>>
          /\ phase[t] = "sending" /\ phase' = [phase EXCEPT ![t] = "idle"] /\ cmd' = [cmd EXCEPT ![t] = 0]
      BY <1>7 DEF Answered, channelVars, houseVars
    <2>2. \A u \in Tickers : /\ u # t => phase'[u] = phase[u] /\ cmd'[u] = cmd[u]
                             /\ u = t => phase[u] = "sending" /\ phase'[u] = "idle"
      BY <1>1, <2>1 DEF ContactInv, ContactTypeOK
    <2>3. NothingSent
      BY <2>1, <2>2 DEF NothingSent
    <2> QED
      BY <1>1, <1>3, <2>3, RenewsKept
  <1>8. ASSUME NEW switched \in BOOLEAN, NEW ok \in BOOLEAN, Execute(switched, ok) PROVE RenewInv'
    BY <1>1, <1>3, <1>8, ExecuteRenews
  <1>9. CASE Guardian
    <2>1. NothingSent
      BY <1>3, <1>9, GuardianRests DEF Guardian, channelVars, apiVars, NothingSent
    <2> QED
      BY <1>1, <1>3, <2>1, RenewsKept
  <1>10. CASE Channel
    <2>1. UNCHANGED <<apiVars, houseVars>>
      BY <1>10 DEF Channel
    <2>2. CASE Result
      BY <1>1, <1>3, <2>1, <2>2, ResultRenews
    <2>3. CASE Begin
      <3>1. \A c \in Commands : ran'[c] = "done" => ran[c] = "done"
        <4>1. ran \in [Commands -> Fates]
          BY <1>1 DEF ContactInv, ChannelInv, ChannelTypeOK
        <4>2. \/ ran' = [ran EXCEPT ![Head(down)] = "running"]
              \/ ran' = [ran EXCEPT ![Head(down)] = "refused"]
          BY <2>3 DEF Begin
        <4> QED
          BY <4>1, <4>2
      <3>2. UNCHANGED <<issued, age, answer, line, wants, sentAge, k1, ticked, carried, contact, onAge, phase, cmd>>
        BY <2>1, <2>3 DEF Begin, apiSide, apiVars, houseVars
      <3>3. NothingSent
        BY <3>1, <3>2 DEF NothingSent
      <3> QED
        BY <1>1, <1>3, <3>3, RenewsKept
    <2> QED
      BY <1>3, <1>10, <2>2, <2>3 DEF Channel
  <1>11. CASE Tick
    BY <1>1, <1>3, <1>11, TickRenews
  <1> QED
    BY <1>3, <1>4, <1>5, <1>6, <1>7, <1>8, <1>9, <1>10, <1>11, GuardianRests DEF Next

\* While nothing goes wrong only the timer of the device could open K1.  It does not
\* come to that: a command that waits, or the last one, has set it in time.
LEMMA TimerWaits ==
  ASSUME RenewInv, RenewalFits, Undisturbed, contact, Tick
  PROVE  onAge + 1 < Lease
  <1>0. ChannelTyped /\ ContactTypeOK /\ ContactInv
    BY ChannelTypes DEF RenewInv, ContactInv
  <1> USE ChannelNumbers, ContactNumbers DEF ChannelTyped
  <1>1. Calm
    BY <1>0 DEF Undisturbed, Calm
  <1>2. CalmInv /\ onAge \in Nat
    BY <1>0, <1>1 DEF RenewInv, ContactTypeOK
  <1>3. CASE Waiting # {}
    <2>1. PICK c \in Waiting : onAge <= age[c] + HalfLease
      BY <1>2, <1>3 DEF CalmInv, SomeFresh
    <2>2. age[c] \in Nat /\ age[c] < Timeout
      BY <1>1, TickTimes
    <2> QED
      BY <1>2, <2>1, <2>2 DEF RenewalFits
  <1>4. CASE Waiting = {}
    <2>1. issued \in Commands /\ ran[issued] = "done"
      BY <1>1, <1>4, LastIsDone
    <2>2. sentAge \in Int /\ sentAge <= HalfLease
      BY <1>0 DEF ContactTypeOK
    <2>3. issued < MaxCommands \/ sentAge < HalfLease
      BY <1>0, <2>2 DEF Undisturbed, RefreshDue
    <2>4. onAge <= sentAge
      BY <1>2, <2>1, <2>3 DEF CalmInv, LastFresh
    <2> QED
      BY <1>2, <2>2, <2>4 DEF RenewalFits
  <1> QED
    BY <1>3, <1>4

\* control_tick and _apply_contacts: while no call fails and no line breaks, a release that
\* is still wanted is sent again before the timer of the device ends it.
THEOREM ContactRenewed == RenewalFits => (Spec => RenewedInTime)
  <1> SUFFICES ASSUME RenewalFits PROVE Spec => RenewedInTime
    OBVIOUS
  <1>1. RenewInv /\ [Next]_vars => RenewInv'
    BY RenewInvInductive
  <1>2. RenewInv /\ [Next]_vars => [contact /\ k1 = TRUE /\ Undisturbed => contact']_vars
    <2> SUFFICES ASSUME RenewInv, Next, contact, Undisturbed PROVE contact'
      OBVIOUS
    <2>0. ContactInv /\ ChannelTyped /\ LineTyped
      BY ChannelTypes DEF RenewInv, ContactInv
    <2>1. Calm
      BY <2>0, ChannelNumbers DEF Undisturbed, Calm, ChannelTyped
    <2>2. CASE UNCHANGED contact
      BY <2>2
    <2>3. ASSUME NEW switched \in BOOLEAN, NEW ok \in BOOLEAN, Execute(switched, ok) PROVE contact'
      BY <2>1, <2>3, ExecuteRenews, ContactInvInductive DEF RenewInv
    <2>4. CASE RestartBridge
      <3>1. CASE running = 0
        BY <2>2, <2>4, <3>1 DEF RestartBridge, BridgeRestart
      <3>2. CASE running # 0
        <4>1. wants[running]
          BY <2>0, <2>1, <3>2, ChannelNumbers DEF Calm, ChannelTyped, ContactInv, ChannelInv, NotIssued
        <4> QED
          BY <2>4, <4>1 DEF RestartBridge, Switch
      <3> QED
        BY <3>1, <3>2
    <2>5. CASE Guardian
      BY <2>1, <2>2, <2>5, GuardianRests DEF Guardian
    <2>6. CASE Tick
      <3>1. onAge + 1 < Lease /\ onAge \in Nat
        BY <2>0, <2>6, TimerWaits, ContactNumbers DEF ContactInv, ContactTypeOK
      <3>2. ~(onAge + 1 >= Lease)
        BY <3>1, ContactNumbers
      <3> QED
        BY <2>6, <3>2 DEF Tick
    <2> QED
      BY <2>2, <2>3, <2>4, <2>5, <2>6
      DEF Next, ControlTick, Saved, Answered, RestartApi, Channel, Connect, houseVars
  <1> QED
    BY <1>1, <1>2, RenewInitInv, PTL DEF Spec, RenewedInTime

=============================================================================
