------------------------ MODULE TelemetryUplinkProofs ------------------------
(***************************************************************************)
(* For every number of frames, connections and faults: a frame is lost     *)
(* only if it was overtaken, and the path keeps the promise of             *)
(* StoreAndForward.                                                        *)
(*                                                                         *)
(* The argument.  Call a frame covered when it is stored or was overtaken. *)
(* A connection carries frames in order, so whatever precedes a frame on   *)
(* it is covered or still ahead of it; hence everything up to a number the *)
(* API has seen (hubSeq), acknowledged (down), or the bridge believes      *)
(* acknowledged (lastAck, hello) is covered, and deleting up to an         *)
(* acknowledged number deletes covered frames only.                        *)
(***************************************************************************)
EXTENDS TelemetryUplink, Integers, TLAPS

Covered(s) == s \in stored \cup overtaken
CoveredUpTo(n) == \A s \in Seqs : s <= n => Covered(s)

\* Frame s is on connection c, at or before position n, or in the hands of its task.
Ahead(c, s, n) == \/ task[c] = "storing" /\ work[c] = s
                  \/ \E j \in 1..Len(up[c]) : j <= n /\ up[c][j].seq = s /\ up[c][j].type # "hello"

\* At most the newest connection is open, and its task lives.
Wires ==
  /\ open \subseteq {conn}
  /\ phase = "off" => open = {}
  /\ phase # "off" => conn \in Conns
  /\ \A c \in open : task[c] \notin {"none", "gone"}

Numbers ==
  /\ outbox \subseteq 1..lastSeq
  /\ \A c \in Conns : task[c] = "storing" => work[c] \in 1..lastSeq
  /\ \A c \in Conns : \A i \in 1..Len(up[c]) : up[c][i].type # "hello" => up[c][i].seq <= lastSeq

\* hello is the first frame of a connection, read while its task is "accepted".
HelloFirst ==
  \A c \in Conns :
    /\ \A i \in 1..Len(up[c]) : up[c][i].type = "hello" => i = 1 /\ task[c] \in {"accepted", "gone"}
    /\ task[c] = "accepted" /\ up[c] # <<>> => up[c][1].type = "hello"
    /\ task[c] = "accepted" /\ c \in open => up[c] # <<>>

Acknowledged ==
  /\ CoveredUpTo(lastAck)
  /\ CoveredUpTo(hubSeq)
  /\ \A c \in Conns : \A i \in 1..Len(up[c]) : up[c][i].type = "hello" => CoveredUpTo(up[c][i].seq)
  /\ \A c \in Conns : task[c] = "closing" => CoveredUpTo(work[c])
  /\ \A c \in Conns : \A i \in 1..Len(down[c]) :
       IF down[c][i].type = "ack" THEN CoveredUpTo(down[c][i].seq)
                                  ELSE CoveredUpTo(down[c][i].seq - 1)

\* What precedes a frame on its connection is covered or ahead of it.
InSequence ==
  \A c \in Conns : task[c] # "gone" =>
    /\ task[c] = "storing" => \A s \in Seqs : s < work[c] => Covered(s)
    /\ \A i \in 1..Len(up[c]) : up[c][i].type # "hello" =>
         \A s \in Seqs : s < up[c][i].seq => Covered(s) \/ Ahead(c, s, i - 1)

\* What the bridge believes to have sent in this session.
SentUpTo == IF phase = "live" THEN lastSeq ELSE cursor
Sent ==
  conn \in open =>
    \A s \in Seqs : s <= SentUpTo => Covered(s) \/ Ahead(conn, s, Len(up[conn]))

IInv == /\ TypeOK /\ Wires /\ Numbers /\ HelloFirst
        /\ Acknowledged /\ InSequence /\ Sent
        /\ LossOnlyByOvertaking

-----------------------------------------------------------------------------
\* Sequences, pointwise

LEMMA AppendFacts ==
  ASSUME NEW S, NEW s \in Seq(S), NEW e \in S
  PROVE  /\ Append(s, e) \in Seq(S)
         /\ Len(Append(s, e)) = Len(s) + 1
         /\ \A i \in 1..Len(s) : Append(s, e)[i] = s[i]
         /\ Append(s, e)[Len(s) + 1] = e
  OBVIOUS

LEMMA TailFacts ==
  ASSUME NEW S, NEW s \in Seq(S), s # <<>>
  PROVE  /\ Tail(s) \in Seq(S)
         /\ Len(Tail(s)) = Len(s) - 1
         /\ Len(s) \in Nat \ {0}
         /\ \A i \in 1..Len(Tail(s)) : Tail(s)[i] = s[i + 1]
         /\ Head(s) = s[1]
         /\ Head(s) \in S
  OBVIOUS

LEMMA PrefixFacts ==
  ASSUME NEW S, NEW s \in Seq(S), NEW p \in Prefixes(s)
  PROVE  /\ p \in Seq(S)
         /\ Len(p) <= Len(s)
         /\ \A i \in 1..Len(p) : p[i] = s[i]
  BY DEF Prefixes

LEMMA ElementFacts ==
  ASSUME NEW S, NEW s \in Seq(S)
  PROVE  /\ Len(s) \in Nat
         /\ \A i \in 1..Len(s) : s[i] \in S
         /\ s = <<>> <=> Len(s) = 0
  OBVIOUS
-----------------------------------------------------------------------------
LEMMA InitInv == Init => IInv
  <1> SUFFICES ASSUME Init PROVE IInv
    OBVIOUS
  <1> USE ConstantsAssumption DEF Init
  <1>1. TypeOK
    BY DEF TypeOK, Conns, Seqs, Phases, Tasks
  <1>2. Wires /\ Numbers /\ HelloFirst
    BY DEF Wires, Numbers, HelloFirst, Conns
  <1>3. Acknowledged /\ InSequence /\ Sent
    BY DEF Acknowledged, InSequence, Sent, CoveredUpTo, Seqs, Conns
  <1>4. LossOnlyByOvertaking
    BY DEF LossOnlyByOvertaking
  <1> QED
    BY <1>1, <1>2, <1>3, <1>4 DEF IInv

LEMMA UpFacts ==
  ASSUME TypeOK, NEW c \in Conns
  PROVE  /\ Len(up[c]) \in Nat
         /\ up[c] \in Seq(UpFrames)
         /\ up[c] = <<>> <=> Len(up[c]) = 0
         /\ \A i \in 1..Len(up[c]) : /\ up[c][i] \in UpFrames
                                     /\ up[c][i].seq \in 0..MaxSeq
                                     /\ up[c][i].type # "hello" => up[c][i].seq \in Seqs
  <1>1. up[c] \in Seq(UpFrames)
    BY DEF TypeOK
  <1>2. \A f \in UpFrames : f.seq \in 0..MaxSeq /\ (f.type # "hello" => f.seq \in Seqs)
    BY ConstantsAssumption DEF UpFrames, Seqs
  <1> QED
    BY <1>1, <1>2, ElementFacts

-----------------------------------------------------------------------------
\* The bridge sends a frame: publish and the drain.
LEMMA AppendStep ==
  ASSUME IInv,
         NEW f \in UpFrames, f.type # "hello", f.seq \in Seqs,
         up' = Send(up, conn, f),
         UNCHANGED <<conn, open, down, task, work, hubSeq, lastAck, stored>>,
         overtaken \subseteq overtaken',
         lastSeq \in Nat, lastSeq' \in Nat, lastSeq <= lastSeq', f.seq <= lastSeq',
         conn \in open => \A s \in Seqs : s < f.seq => Covered(s)' \/ Ahead(conn, s, Len(up[conn]))
  PROVE  /\ up' \in [Conns -> Seq(UpFrames)]
         /\ HelloFirst' /\ Acknowledged' /\ InSequence'
         /\ \A c \in Conns : task[c] = "storing" => work[c] \in 1..lastSeq'
         /\ \A c \in Conns : \A i \in 1..Len(up'[c]) : up'[c][i].type # "hello" => up'[c][i].seq <= lastSeq'
         /\ \A s \in Seqs : Covered(s) => Covered(s)'
         /\ conn \in open => \A s \in Seqs : s = f.seq \/ Ahead(conn, s, Len(up[conn])) =>
                                               Ahead(conn, s, Len(up[conn]))'
  <1> USE ConstantsAssumption DEF IInv, Conns, Seqs
  <1>1. \A s : Covered(s) => Covered(s)'
    BY DEF Covered
  <1>2. CASE conn \notin open
    <2>1. up' = up
      BY <1>2 DEF Send
    <2>2. HelloFirst'
      BY <2>1 DEF HelloFirst
    <2>3. Acknowledged'
      BY <2>1, <1>1 DEF Acknowledged, CoveredUpTo
    <2>4. InSequence'
      <3>1. \A c \in Conns : \A s, k : Ahead(c, s, k) => Ahead(c, s, k)'
        BY <2>1 DEF Ahead
      <3> QED
        BY <2>1, <3>1, <1>1 DEF InSequence
    <2>5. /\ \A c \in Conns : task[c] = "storing" => work[c] \in 1..lastSeq'
          /\ \A c \in Conns : \A i \in 1..Len(up'[c]) :
                up'[c][i].type # "hello" => up'[c][i].seq <= lastSeq'
      BY <2>1, UpFacts DEF Numbers
    <2> QED
      BY <1>1, <1>2, <2>1, <2>2, <2>3, <2>4, <2>5 DEF TypeOK
  <1>3. CASE conn \in open
    <2>1. conn \in Conns /\ up[conn] \in Seq(UpFrames) /\ up' = [up EXCEPT ![conn] = Append(up[conn], f)]
      BY <1>3, UpFacts DEF Send, TypeOK
    <2>2. /\ Append(up[conn], f) \in Seq(UpFrames)
          /\ Len(Append(up[conn], f)) = Len(up[conn]) + 1
          /\ \A i \in 1..Len(up[conn]) : Append(up[conn], f)[i] = up[conn][i]
          /\ Append(up[conn], f)[Len(up[conn]) + 1] = f
      BY <2>1, AppendFacts
    <2>3. /\ up' \in [Conns -> Seq(UpFrames)]
          /\ \A c \in Conns : c # conn => up'[c] = up[c]
          /\ Len(up'[conn]) = Len(up[conn]) + 1
          /\ \A i \in 1..Len(up[conn]) : up'[conn][i] = up[conn][i]
          /\ up'[conn][Len(up[conn]) + 1] = f
      BY <2>1, <2>2 DEF TypeOK
    <2>4. \A c \in Conns : Len(up[c]) \in Nat /\ (up[c] = <<>> <=> Len(up[c]) = 0)
      BY UpFacts
    <2>5. \A i \in 1..Len(up'[conn]) : i = Len(up[conn]) + 1 \/ i \in 1..Len(up[conn])
      BY <2>1, <2>3, <2>4
    <2>6. HelloFirst'
      <3>1. task[conn] = "accepted" => Len(up[conn]) > 0
        BY <1>3, <2>1, <2>4 DEF HelloFirst
      <3>2. \A c \in Conns : up'[c] = <<>> <=> Len(up'[c]) = 0
        BY <2>3, ElementFacts
      <3> QED
        BY <2>1, <2>3, <2>4, <2>5, <3>1, <3>2, SMTT(30) DEF HelloFirst
    <2>7. Acknowledged'
      BY <1>1, <2>1, <2>3, <2>5, SMTT(30) DEF Acknowledged, CoveredUpTo
    <2>8. InSequence'
      <3>1. ASSUME NEW c \in Conns, NEW s, NEW k \in Nat, k <= Len(up[c]), Ahead(c, s, k)
            PROVE  Ahead(c, s, k)'
        BY <3>1, <2>1, <2>3, <2>4 DEF Ahead
      <3>2. ASSUME NEW c \in Conns, task[c] # "gone", NEW i \in 1..Len(up'[c]), up'[c][i].type # "hello",
                   NEW s \in Seqs, s < up'[c][i].seq
            PROVE  Covered(s)' \/ Ahead(c, s, i - 1)'
        <4>1. CASE c = conn /\ i = Len(up[conn]) + 1
          BY <4>1, <3>1, <3>2, <2>3, <2>4, <1>3
        <4>2. CASE ~(c = conn /\ i = Len(up[conn]) + 1)
          <5>1. i \in 1..Len(up[c]) /\ up'[c][i] = up[c][i]
            BY <4>2, <3>2, <2>3, <2>5
          <5>2. Covered(s) \/ Ahead(c, s, i - 1)
            BY <5>1, <3>2 DEF InSequence
          <5> QED
            BY <5>1, <5>2, <3>1, <1>1, <2>4
        <4> QED
          BY <4>1, <4>2
      <3> QED
        BY <3>2, <1>1 DEF InSequence
    <2>9. \A c \in Conns : task[c] = "storing" => work[c] \in 1..lastSeq'
      BY DEF Numbers
    <2>10. \A c \in Conns : \A i \in 1..Len(up'[c]) : up'[c][i].type # "hello" => up'[c][i].seq <= lastSeq'
      <3>1. \A c \in Conns : \A i \in 1..Len(up[c]) : up[c][i].type # "hello" => up[c][i].seq <= lastSeq'
        BY UpFacts DEF Numbers
      <3>2. ASSUME NEW c \in Conns, NEW i \in 1..Len(up'[c]), up'[c][i].type # "hello"
            PROVE  up'[c][i].seq <= lastSeq'
        <4>1. CASE c = conn /\ i = Len(up[conn]) + 1
          BY <4>1, <2>3
        <4>2. CASE ~(c = conn /\ i = Len(up[conn]) + 1)
          <5>1. i \in 1..Len(up[c]) /\ up'[c][i] = up[c][i]
            BY <4>2, <3>2, <2>3, <2>5
          <5> QED
            BY <5>1, <3>1, <3>2
        <4> QED
          BY <4>1, <4>2
      <3> QED
        BY <3>2
    <2>11. \A s \in Seqs : s = f.seq \/ Ahead(conn, s, Len(up[conn])) => Ahead(conn, s, Len(up[conn]))'
      BY <2>1, <2>3, <2>4 DEF Ahead
    <2> QED
      BY <1>1, <2>3, <2>6, <2>7, <2>8, <2>9, <2>10, <2>11
  <1> QED
    BY <1>2, <1>3

LEMMA PublishInv == IInv /\ Publish => IInv'
  <1> SUFFICES ASSUME IInv, Publish PROVE IInv'
    OBVIOUS
  <1> DEFINE n == lastSeq + 1
             f == Msg("telemetry", n)
  <1> USE ConstantsAssumption DEF IInv, Conns, Seqs
  <1>1. n \in Seqs /\ f \in UpFrames /\ f.seq = n /\ f.type = "telemetry"
    BY DEF Publish, TypeOK, UpFrames, Msg
  <1>2. /\ lastSeq' = n /\ lastSeq \in Nat /\ outbox' = outbox \cup {n}
        /\ UNCHANGED <<lastAck, phase, conn, cursor, open, down, task, work, hubWs, hubSeq,
                       stored, faults>>
    BY DEF Publish, apiVars, TypeOK
  <1>3. up' = Send(up, conn, f)
    BY DEF Publish, Send, Wires
  <1>4. /\ overtaken \subseteq overtaken' /\ overtaken' \subseteq Seqs
        /\ phase # "off" /\ phase # "live" => overtaken' = overtaken \cup {t \in outbox : t > cursor}
    BY DEF Publish, TypeOK
  <1>5. ASSUME conn \in open, NEW s \in Seqs, s < n
        PROVE  Covered(s)' \/ Ahead(conn, s, Len(up[conn]))
    <2>1. CASE s <= SentUpTo
      BY <2>1, <1>2, <1>4, <1>5 DEF Sent, Covered
    <2>2. CASE ~(s <= SentUpTo)
      <3>1. s \in 1..lastSeq /\ phase # "live" /\ phase # "off" /\ s > cursor
        BY <2>2, <1>2, <1>5 DEF SentUpTo, TypeOK, Wires
      <3>2. s \in outbox \/ Covered(s)
        BY <3>1 DEF LossOnlyByOvertaking, Covered
      <3> QED
        BY <3>1, <3>2, <1>2, <1>4 DEF Covered
    <2> QED
      BY <2>1, <2>2
  <1>6. /\ up' \in [Conns -> Seq(UpFrames)]
        /\ HelloFirst' /\ Acknowledged' /\ InSequence'
        /\ \A c \in Conns : task[c] = "storing" => work[c] \in 1..lastSeq'
        /\ \A c \in Conns : \A i \in 1..Len(up'[c]) : up'[c][i].type # "hello" => up'[c][i].seq <= lastSeq'
        /\ \A s \in Seqs : Covered(s) => Covered(s)'
        /\ conn \in open => \A s \in Seqs : s = n \/ Ahead(conn, s, Len(up[conn])) =>
                                               Ahead(conn, s, Len(up[conn]))'
    <2> HIDE DEF f, n
    <2>1. f.type # "hello" /\ lastSeq' \in Nat /\ lastSeq <= lastSeq' /\ f.seq <= lastSeq'
      BY <1>1, <1>2 DEF n
    <2> QED
      BY AppendStep, <2>1, <1>1, <1>2, <1>3, <1>4, <1>5
  <1>7. TypeOK'
    <2>1. lastSeq' \in 0..MaxSeq /\ outbox' \subseteq Seqs
      BY <1>1, <1>2 DEF TypeOK
    <2> QED
      BY <2>1, <1>2, <1>4, <1>6 DEF TypeOK
  <1>8. Wires'
    BY <1>2 DEF Wires
  <1>9. Numbers'
    BY <1>1, <1>2, <1>6 DEF Numbers, TypeOK
  <1>10. Sent'
    <2>1. ASSUME conn \in open, NEW s \in Seqs, s <= SentUpTo'
          PROVE  Covered(s)' \/ Ahead(conn, s, Len(up[conn]))'
      <3>1. s <= SentUpTo \/ s = n \/ (s < n)
        BY <2>1, <1>2 DEF SentUpTo, TypeOK
      <3>2. s <= SentUpTo => Covered(s) \/ Ahead(conn, s, Len(up[conn]))
        BY <2>1 DEF Sent
      <3> QED
        BY <2>1, <3>1, <3>2, <1>5, <1>6
    <2> QED
      BY <2>1, <1>2 DEF Sent
  <1>11. LossOnlyByOvertaking'
    BY <1>2, <1>4 DEF LossOnlyByOvertaking
  <1> QED
    BY <1>6, <1>7, <1>8, <1>9, <1>10, <1>11

LEMMA DrainInv == IInv /\ Drain => IInv'
  <1> SUFFICES ASSUME IInv, Drain PROVE IInv'
    OBVIOUS
  <1> USE ConstantsAssumption DEF IInv, Conns, Seqs
  <1>1. PICK n \in outbox : /\ n > cursor
                            /\ \A t \in outbox : t > cursor => n <= t
                            /\ up' = Send(up, conn, Msg("backlog", n))
                            /\ cursor' = n
    BY DEF Drain
  <1> DEFINE f == Msg("backlog", n)
  <1>2. phase = "drain" /\ UNCHANGED <<lastSeq, outbox, lastAck, phase, conn, open, down, task, work,
                                       hubWs, hubSeq, stored, faults, overtaken>>
    BY DEF Drain, apiVars
  <1>3. f \in UpFrames /\ f.seq = n /\ f.type = "backlog" /\ n \in Seqs /\ n <= lastSeq /\ lastSeq \in Nat
    BY DEF TypeOK, UpFrames, Msg, Numbers
  <1>4. ASSUME conn \in open, NEW s \in Seqs, s < n
        PROVE  Covered(s)' \/ Ahead(conn, s, Len(up[conn]))
    <2>1. CASE s <= cursor
      BY <2>1, <1>2, <1>4 DEF Sent, SentUpTo, Covered
    <2>2. CASE ~(s <= cursor)
      <3>1. s \in 1..lastSeq /\ s \notin outbox
        BY <2>2, <1>1, <1>3, <1>4 DEF TypeOK
      <3> QED
        BY <3>1, <1>2 DEF LossOnlyByOvertaking, Covered
    <2> QED
      BY <2>1, <2>2
  <1>5. /\ up' \in [Conns -> Seq(UpFrames)]
        /\ HelloFirst' /\ Acknowledged' /\ InSequence'
        /\ \A c \in Conns : task[c] = "storing" => work[c] \in 1..lastSeq'
        /\ \A c \in Conns : \A i \in 1..Len(up'[c]) : up'[c][i].type # "hello" => up'[c][i].seq <= lastSeq'
        /\ \A s \in Seqs : Covered(s) => Covered(s)'
        /\ conn \in open => \A s \in Seqs : s = n \/ Ahead(conn, s, Len(up[conn])) =>
                                               Ahead(conn, s, Len(up[conn]))'
    <2> HIDE DEF f
    <2>1. f.type # "hello" /\ lastSeq' \in Nat /\ lastSeq <= lastSeq' /\ f.seq <= lastSeq'
      BY <1>2, <1>3
    <2>2. up' = Send(up, conn, f)
      BY <1>1 DEF f
    <2> QED
      BY AppendStep, <2>1, <2>2, <1>2, <1>3, <1>4
  <1>6. TypeOK'
    BY <1>1, <1>2, <1>3, <1>5, SMTT(30) DEF TypeOK
  <1>7. Wires'
    BY <1>2 DEF Wires
  <1>8. Numbers'
    BY <1>2, <1>5 DEF Numbers
  <1>9. Sent'
    <2>1. ASSUME conn \in open, NEW s \in Seqs, s <= n
          PROVE  Covered(s)' \/ Ahead(conn, s, Len(up[conn]))'
      BY <2>1, <1>3, <1>4, <1>5
    <2> QED
      BY <2>1, <1>1, <1>2 DEF Sent, SentUpTo
  <1>10. LossOnlyByOvertaking'
    BY <1>2 DEF LossOnlyByOvertaking
  <1> QED
    BY <1>5, <1>6, <1>7, <1>8, <1>9, <1>10

-----------------------------------------------------------------------------
\* The API takes the first frame off a connection.
LEMMA TailStep ==
  ASSUME IInv,
         NEW c \in Conns, up[c] # <<>>, task[c] \in {"accepted", "idle"},
         up' = [up EXCEPT ![c] = Tail(@)],
         NEW t \in Tasks, t # "accepted", task' = [task EXCEPT ![c] = t],
         \A d \in Conns : d # c => work'[d] = work[d],
         UNCHANGED <<conn, phase, cursor, lastSeq, outbox, stored, overtaken>>,
         open' \subseteq open, t = "gone" => c \notin open',
         t = "storing" => up[c][1].type # "hello" /\ work'[c] = up[c][1].seq,
         t \notin {"storing", "gone"} /\ up[c][1].type # "hello" => Covered(up[c][1].seq)
  PROVE  /\ up' \in [Conns -> Seq(UpFrames)]
         /\ Numbers' /\ HelloFirst' /\ InSequence' /\ Sent'
         /\ \A d \in Conns : \A i \in 1..Len(up'[d]) : up'[d][i].type = "hello" => d # c /\ up'[d] = up[d]
  <1> USE ConstantsAssumption DEF IInv, Conns, Seqs
  <1>1. \A d \in Conns : Len(up[d]) \in Nat
    BY UpFacts
  <1>2. /\ up' \in [Conns -> Seq(UpFrames)]
        /\ \A d \in Conns : d # c => up'[d] = up[d] /\ task'[d] = task[d]
        /\ task'[c] = t
        /\ Len(up'[c]) = Len(up[c]) - 1
        /\ Len(up[c]) >= 1
        /\ \A i \in 1..Len(up'[c]) : up'[c][i] = up[c][i + 1]
    <2>1. up[c] \in Seq(UpFrames)
      BY UpFacts
    <2>2. /\ Tail(up[c]) \in Seq(UpFrames)
          /\ Len(Tail(up[c])) = Len(up[c]) - 1
          /\ Len(up[c]) \in Nat \ {0}
          /\ \A i \in 1..Len(Tail(up[c])) : Tail(up[c])[i] = up[c][i + 1]
      BY <2>1, TailFacts
    <2> QED
      BY <2>1, <2>2 DEF TypeOK
  <1>3. \A i \in 1..Len(up'[c]) : i + 1 \in 1..Len(up[c]) /\ up'[c][i] = up[c][i + 1] /\ up'[c][i].type # "hello"
    BY <1>1, <1>2 DEF HelloFirst
  <1>4. \A d \in Conns : \A i \in 1..Len(up'[d]) : up'[d][i].type = "hello" => d # c /\ up'[d] = up[d]
    BY <1>2, <1>3
  <1>5. HelloFirst'
    <2>1. \A d \in open' : d \in open
      OBVIOUS
    <2> QED
      BY <2>1, <1>2, <1>3 DEF HelloFirst
  <1>6. Numbers'
    <2>1. \A d \in Conns : \A i \in 1..Len(up[d]) :
             up[d][i].type # "hello" => up[d][i].seq \in 1..lastSeq
      <3>1. ASSUME NEW d \in Conns, NEW i \in 1..Len(up[d]), up[d][i].type # "hello"
            PROVE  up[d][i].seq \in 1..lastSeq
        <4>1. up[d][i].seq \in Seqs
          BY <3>1, UpFacts
        <4>2. lastSeq \in Nat
          BY DEF TypeOK
        <4> QED
          BY <3>1, <4>1, <4>2 DEF Numbers
      <3> QED
        BY <3>1
    <2>2. \A d \in Conns : task'[d] = "storing" => work'[d] \in 1..lastSeq
      <3>1. task'[c] = "storing" => work'[c] \in 1..lastSeq
        <4>1. 1 \in 1..Len(up[c])
          BY <1>2, UpFacts
        <4> QED
          BY <4>1, <1>2, <2>1
      <3>2. ASSUME NEW d \in Conns, d # c, task'[d] = "storing" PROVE work'[d] \in 1..lastSeq
        <4>1. task[d] = "storing" /\ work'[d] = work[d]
          BY <3>2, <1>2
        <4> QED
          BY <3>2, <4>1 DEF Numbers
      <3> QED
        BY <3>1, <3>2
    <2>3. \A d \in Conns : \A i \in 1..Len(up'[d]) : up'[d][i].type # "hello" => up'[d][i].seq <= lastSeq
      <3>1. ASSUME NEW d \in Conns, NEW i \in 1..Len(up'[d]), up'[d][i].type # "hello"
            PROVE  up'[d][i].seq \in 1..lastSeq /\ up'[d][i].seq <= lastSeq
        <4>1. CASE d = c
          <5>1. i \in 1..Len(up'[c]) /\ up'[c][i].type # "hello"
            BY <4>1, <3>1
          <5>2. i + 1 \in 1..Len(up[c]) /\ up'[c][i] = up[c][i + 1]
            BY <5>1, <1>3
          <5>3. up[c][i + 1].seq \in 1..lastSeq
            BY <5>1, <5>2, <2>1
          <5>4. lastSeq \in Nat
            BY DEF TypeOK
          <5> QED
            BY <4>1, <5>2, <5>3, <5>4
        <4>2. CASE d # c
          BY <4>2, <3>1, <2>1, <1>2
        <4> QED
          BY <4>1, <4>2
      <3> QED
        BY <3>1
    <2> QED
      BY <2>2, <2>3 DEF Numbers
  <1>7. \A s : Covered(s)' <=> Covered(s)
    BY DEF Covered
  <1>8. ASSUME NEW d \in Conns, task'[d] # "gone", NEW s \in Seqs, NEW k \in Nat, k <= Len(up[d]), Ahead(d, s, k)
        PROVE  Covered(s) \/ Ahead(d, s, IF d = c THEN k - 1 ELSE k)'
    <2>1. CASE d # c
      BY <2>1, <1>2, <1>8 DEF Ahead
    <2>2. CASE d = c
      <3>1. PICK j \in 1..Len(up[c]) : j <= k /\ up[c][j].seq = s /\ up[c][j].type # "hello"
        BY <2>2, <1>8 DEF Ahead
      <3>2. CASE j = 1
        BY <3>1, <3>2, <2>2, <1>2, <1>8 DEF Ahead
      <3>3. CASE j # 1
        <4>1. j - 1 \in 1..Len(up'[c]) /\ j - 1 <= k - 1 /\ up'[c][j - 1] = up[c][j]
          BY <3>1, <3>3, <1>1, <1>2
        <4> QED
          BY <4>1, <3>1, <2>2 DEF Ahead
      <3> QED
        BY <3>2, <3>3
    <2> QED
      BY <2>1, <2>2
  <1>9. InSequence'
    <2>1. ASSUME NEW d \in Conns, task'[d] = "storing", NEW s \in Seqs, s < work'[d]
          PROVE  Covered(s)
      <3>1. CASE d # c
        BY <3>1, <2>1, <1>2 DEF InSequence
      <3>2. CASE d = c
        <4>1. 1 \in 1..Len(up[c]) /\ up[c][1].type # "hello" /\ s < up[c][1].seq
          BY <3>2, <2>1, <1>1, <1>2
        <4>2. Covered(s) \/ Ahead(c, s, 1 - 1)
          BY <4>1 DEF InSequence
        <4>3. ~ Ahead(c, s, 1 - 1)
          BY DEF Ahead
        <4> QED
          BY <4>2, <4>3
      <3> QED
        BY <3>1, <3>2
    <2>2. ASSUME NEW d \in Conns, task'[d] # "gone", NEW i \in 1..Len(up'[d]), up'[d][i].type # "hello",
                 NEW s \in Seqs, s < up'[d][i].seq
          PROVE  Covered(s) \/ Ahead(d, s, i - 1)'
      <3>1. CASE d # c
        <4>1. Covered(s) \/ Ahead(d, s, i - 1)
          BY <3>1, <2>2, <1>2 DEF InSequence
        <4>2. i - 1 \in Nat /\ i - 1 <= Len(up[d])
          BY <3>1, <1>1, <1>2
        <4> QED
          BY <4>1, <4>2, <3>1, <2>2, <1>8
      <3>2. CASE d = c
        <4>1. Covered(s) \/ Ahead(c, s, (i + 1) - 1)
          <5>1. i \in 1..Len(up'[c]) /\ up'[c][i].type # "hello" /\ s < up'[c][i].seq
            BY <3>2, <2>2
          <5>2. i + 1 \in 1..Len(up[c]) /\ up'[c][i] = up[c][i + 1]
            BY <5>1, <1>3
          <5>3. up[c][i + 1].type # "hello" /\ s < up[c][i + 1].seq /\ task[c] # "gone"
            BY <5>1, <5>2, <1>1
          <5> QED
            BY <5>2, <5>3 DEF InSequence
        <4>2. i \in Nat /\ i <= Len(up[c]) /\ (i + 1) - 1 = i
          BY <3>2, <1>1, <1>2
        <4> QED
          BY <4>1, <4>2, <3>2, <2>2, <1>8
      <3> QED
        BY <3>1, <3>2
    <2> QED
      BY <2>1, <2>2, <1>7 DEF InSequence
  <1>10. Sent'
    <2>1. ASSUME conn \in open', NEW s \in Seqs, s <= SentUpTo
          PROVE  Covered(s) \/ Ahead(conn, s, Len(up[conn]))'
      <3>1. conn \in Conns /\ task'[conn] # "gone"
        BY <2>1, <1>2 DEF TypeOK, Wires
      <3>2. Covered(s) \/ Ahead(conn, s, Len(up[conn]))
        BY <2>1 DEF Sent
      <3>3. PICK k \in Nat : k = Len(up[conn])
        BY <3>1, <1>1
      <3>4. PICK d \in Conns : d = conn
        BY <3>1
      <3>5. Len(up'[d]) = IF d = c THEN k - 1 ELSE k
        BY <3>3, <3>4, <1>2
      <3>6. Ahead(d, s, k) => Covered(s) \/ Ahead(d, s, IF d = c THEN k - 1 ELSE k)'
        BY <3>1, <3>3, <3>4, <1>8
      <3> QED
        BY <3>2, <3>3, <3>4, <3>5, <3>6
    <2> QED
      BY <2>1, <1>7 DEF Sent, SentUpTo
  <1> QED
    BY <1>2, <1>4, <1>5, <1>6, <1>9, <1>10

LEMMA DownFacts ==
  ASSUME TypeOK, NEW c \in Conns, NEW m \in DownFrames
  PROVE  /\ Send(down, c, m) \in [Conns -> Seq(DownFrames)]
         /\ \A d \in Conns : \A i \in 1..Len(Send(down, c, m)[d]) :
               \/ Send(down, c, m)[d][i] = m
               \/ i \in 1..Len(down[d]) /\ Send(down, c, m)[d][i] = down[d][i]
  <1>1. /\ down \in [Conns -> Seq(DownFrames)]
        /\ down[c] \in Seq(DownFrames)
        /\ \A d \in Conns : Len(down[d]) \in Nat
    BY ElementFacts DEF TypeOK
  <1>2. /\ Append(down[c], m) \in Seq(DownFrames)
        /\ Len(Append(down[c], m)) = Len(down[c]) + 1
        /\ \A i \in 1..Len(down[c]) : Append(down[c], m)[i] = down[c][i]
        /\ Append(down[c], m)[Len(down[c]) + 1] = m
    BY <1>1, AppendFacts
  <1>3. CASE c \in open
    <2>1. Send(down, c, m) = [down EXCEPT ![c] = Append(down[c], m)]
      BY <1>3 DEF Send
    <2> QED
      BY <1>1, <1>2, <2>1
  <1>4. CASE c \notin open
    BY <1>1, <1>4 DEF Send
  <1> QED
    BY <1>3, <1>4

\* What the API sends names covered frames only.
LEMMA AcknowledgedStep ==
  ASSUME IInv,
         NEW c \in Conns, NEW m \in DownFrames,
         down' = Send(down, c, m) \/ down' = down,
         UNCHANGED <<lastAck, overtaken>>, stored \subseteq stored',
         down' # down => CoveredUpTo(IF m.type = "ack" THEN m.seq ELSE m.seq - 1)',
         CoveredUpTo(hubSeq)',
         \A d \in Conns : \A i \in 1..Len(up'[d]) : up'[d][i].type = "hello" => up'[d] = up[d],
         \A d \in Conns : task'[d] = "closing" => CoveredUpTo(work[d])'
  PROVE  down' \in [Conns -> Seq(DownFrames)] /\ Acknowledged'
  <1> USE DEF IInv
  <1>1. \A n : CoveredUpTo(n) => CoveredUpTo(n)'
    BY DEF CoveredUpTo, Covered
  <1>2. /\ down' \in [Conns -> Seq(DownFrames)]
        /\ \A d \in Conns : \A i \in 1..Len(down'[d]) :
              \/ down' # down /\ down'[d][i] = m
              \/ i \in 1..Len(down[d]) /\ down'[d][i] = down[d][i]
    <2>1. CASE down' = down
      BY <2>1 DEF TypeOK
    <2>2. CASE down' # down
      BY <2>2, DownFacts, SMTT(30)
    <2> QED
      BY <2>1, <2>2
  <1>3. CoveredUpTo(lastAck)'
    BY <1>1 DEF Acknowledged, CoveredUpTo
  <1>4. ASSUME NEW d \in Conns, NEW i \in 1..Len(up'[d]), up'[d][i].type = "hello"
        PROVE  CoveredUpTo(up[d][i].seq)'
    <2>1. up'[d] = up[d]
      BY <1>4
    <2>2. PICK n : n = up[d][i].seq
      OBVIOUS
    <2>3. CoveredUpTo(n)
      BY <1>4, <2>1, <2>2 DEF Acknowledged
    <2> QED
      BY <2>1, <2>2, <2>3, <1>1
  <1>5. ASSUME NEW d \in Conns, NEW i \in 1..Len(down'[d])
        PROVE  (IF down[d][i].type = "ack" THEN CoveredUpTo(down[d][i].seq)
                                           ELSE CoveredUpTo(down[d][i].seq - 1))'
    <2>1. CASE down' # down /\ down'[d][i] = m
      BY <2>1 DEF CoveredUpTo
    <2>2. CASE i \in 1..Len(down[d]) /\ down'[d][i] = down[d][i]
      BY <2>2, <1>1 DEF Acknowledged, CoveredUpTo
    <2> QED
      BY <1>2, <2>1, <2>2
  <1> QED
    BY <1>2, <1>3, <1>4, <1>5 DEF Acknowledged

-----------------------------------------------------------------------------
\* A task moves on without reading a frame.
LEMMA TaskStep ==
  ASSUME IInv,
         NEW c \in Conns, NEW t \in {"idle", "gone"}, task' = [task EXCEPT ![c] = t],
         t = "idle" => task[c] # "accepted",
         t = "idle" /\ task[c] = "storing" => work[c] \in stored',
         UNCHANGED <<up, work, conn, phase, cursor, lastSeq, outbox, overtaken>>,
         stored \subseteq stored',
         task[c] # "gone",
         open' \subseteq open, t = "gone" => c \notin open'
  PROVE  Numbers' /\ HelloFirst' /\ InSequence' /\ Sent'
  <1> USE DEF IInv, Conns
  <1>1. /\ \A d \in Conns : d # c => task'[d] = task[d]
        /\ task'[c] = t
        /\ \A d \in open' : d \in open
    BY DEF TypeOK
  <1>2. \A s : Covered(s) => Covered(s)'
    BY DEF Covered
  <1>3. Numbers'
    BY <1>1 DEF Numbers
  <1>4. HelloFirst'
    BY <1>1 DEF HelloFirst
  <1>5. ASSUME NEW d \in Conns, task'[d] # "gone", NEW s, NEW k, Ahead(d, s, k)
        PROVE  Covered(s)' \/ Ahead(d, s, k)'
    BY <1>1, <1>5 DEF Ahead, Covered
  <1>6. InSequence'
    <2>1. ASSUME NEW d \in Conns, task'[d] = "storing", NEW s \in Seqs, s < work[d]
          PROVE  Covered(s)'
      BY <2>1, <1>1, <1>2 DEF InSequence
    <2>2. ASSUME NEW d \in Conns, task'[d] # "gone", NEW i \in 1..Len(up[d]), up[d][i].type # "hello",
                 NEW s \in Seqs, s < up[d][i].seq
          PROVE  Covered(s)' \/ Ahead(d, s, i - 1)'
      <3>1. Covered(s) \/ Ahead(d, s, i - 1)
        BY <2>2, <1>1 DEF InSequence
      <3> QED
        BY <3>1, <2>2, <1>2, <1>5
    <2> QED
      BY <2>1, <2>2 DEF InSequence
  <1>7. Sent'
    <2>1. ASSUME conn \in open', NEW s \in Seqs, s <= SentUpTo
          PROVE  Covered(s)' \/ Ahead(conn, s, Len(up[conn]))'
      <3>1. conn \in Conns /\ task'[conn] # "gone"
        BY <2>1, <1>1 DEF TypeOK, Wires
      <3>2. Covered(s) \/ Ahead(conn, s, Len(up[conn]))
        BY <2>1 DEF Sent
      <3>3. PICK d \in Conns : d = conn
        BY <3>1
      <3>4. PICK k : k = Len(up[d])
        OBVIOUS
      <3>5. Ahead(d, s, k) => Covered(s)' \/ Ahead(d, s, k)'
        BY <3>1, <3>3, <1>5
      <3> QED
        BY <3>2, <3>3, <3>4, <3>5, <1>2
    <2> QED
      BY <2>1 DEF Sent, SentUpTo
  <1> QED
    BY <1>3, <1>4, <1>6, <1>7

-----------------------------------------------------------------------------
\* The steps of a task bridge_ws, one lemma each

LEMMA WelcomeFacts ==
  ASSUME NEW n \in 0..MaxSeq
  PROVE  /\ Msg("welcome", n + 1) \in DownFrames
         /\ Msg("welcome", n + 1).type = "welcome"
         /\ Msg("welcome", n + 1).seq - 1 = n
  <1>1. n + 1 \in 1..MaxSeq+1 /\ (n + 1) - 1 = n
    BY ConstantsAssumption
  <1> QED
    BY <1>1 DEF Msg, DownFrames

LEMMA RecvHelloInv == ASSUME IInv, NEW c \in Conns, RecvHello(c) PROVE IInv'
  <1> USE ConstantsAssumption DEF IInv, Conns, Seqs
  <1>1. /\ up[c] # <<>> /\ task[c] = "accepted" /\ Head(up[c]) = up[c][1]
        /\ up[c][1].type = "hello" /\ up[c][1].seq \in 0..MaxSeq
        /\ 1 \in 1..Len(up[c])
    <2>1. up[c] # <<>> /\ task[c] = "accepted"
      BY DEF RecvHello
    <2>2. up[c] \in Seq(UpFrames) /\ Len(up[c]) > 0 /\ Len(up[c]) \in Nat
      BY <2>1, UpFacts
    <2>3. Head(up[c]) = up[c][1] /\ 1 \in 1..Len(up[c])
      BY <2>1, <2>2, TailFacts
    <2> QED
      BY <2>1, <2>3, UpFacts DEF HelloFirst
  <1>2. PICK n \in 0..MaxSeq : n = up[c][1].seq
    BY <1>1
  <1> DEFINE t == IF hubWs = 0 THEN "idle" ELSE "closing"
             m == Msg("welcome", n + 1)
  <1>3. /\ task' = [task EXCEPT ![c] = t]
        /\ up' = [up EXCEPT ![c] = Tail(@)]
        /\ work' = [work EXCEPT ![c] = n]
        /\ open' \subseteq open
        /\ UNCHANGED <<lastSeq, outbox, lastAck, phase, conn, cursor, stored, faults, overtaken>>
    BY <1>1, <1>2 DEF RecvHello, Enter, bridgeVars
  <1>4. /\ hubWs' \in 0..MaxConn
        /\ hubSeq' = IF hubWs = 0 THEN n ELSE hubSeq
        /\ down' = IF hubWs = 0 THEN Send(down, c, m) ELSE down
    <2>1. CASE hubWs = 0
      BY <2>1, <1>1, <1>2 DEF RecvHello, Enter, SeenOnHello
    <2>2. CASE hubWs # 0
      BY <2>2 DEF RecvHello, HubWhileClosing, TypeOK
    <2> QED
      BY <2>1, <2>2
  <1>5. /\ up' \in [Conns -> Seq(UpFrames)]
        /\ Numbers' /\ HelloFirst' /\ InSequence' /\ Sent'
        /\ \A d \in Conns : \A i \in 1..Len(up'[d]) : up'[d][i].type = "hello" => d # c /\ up'[d] = up[d]
    <2>1. t \in Tasks /\ t \notin {"accepted", "gone", "storing"}
      BY DEF Tasks
    <2>2. \A d \in Conns : d # c => work'[d] = work[d]
      BY <1>3 DEF TypeOK
    <2> HIDE DEF t
    <2> QED
      BY TailStep, <1>1, <1>3, <2>1, <2>2
  <1>6. CoveredUpTo(n) /\ CoveredUpTo(n)'
    <2>1. CoveredUpTo(n)
      BY <1>1, <1>2 DEF Acknowledged
    <2> QED
      BY <2>1, <1>3 DEF CoveredUpTo, Covered
  <1>7. down' \in [Conns -> Seq(DownFrames)] /\ Acknowledged'
    <2>1. m \in DownFrames /\ m.type = "welcome" /\ m.seq - 1 = n
      BY WelcomeFacts
    <2>2. CoveredUpTo(hubSeq)'
      BY <1>3, <1>4, <1>6 DEF Acknowledged, CoveredUpTo, Covered
    <2>3. ASSUME NEW d \in Conns, task'[d] = "closing" PROVE CoveredUpTo(work[d])'
      BY <2>3, <1>3, <1>6 DEF Acknowledged, CoveredUpTo, Covered, TypeOK
    <2> HIDE DEF m
    <2>4. CoveredUpTo(m.seq - 1)'
      BY <2>1, <1>6
    <2> QED
      BY AcknowledgedStep, <1>3, <1>4, <1>5, <2>1, <2>2, <2>3, <2>4
  <1>8. TypeOK'
    <2>1. task' \in [Conns -> Tasks] /\ work' \in [Conns -> 0..MaxSeq] /\ hubSeq' \in 0..MaxSeq
      BY <1>3, <1>4 DEF TypeOK, Tasks
    <2> QED
      BY <2>1, <1>3, <1>4, <1>5, <1>7 DEF TypeOK
  <1>9. Wires'
    BY <1>1, <1>3 DEF Wires, TypeOK
  <1>10. LossOnlyByOvertaking'
    BY <1>3 DEF LossOnlyByOvertaking
  <1> QED
    BY <1>5, <1>7, <1>8, <1>9, <1>10

LEMMA SupersededInv == ASSUME IInv, NEW c \in Conns, Superseded(c) PROVE IInv'
  <1> DEFINE m == Msg("welcome", work[c] + 1)
  <1> USE ConstantsAssumption DEF IInv, Conns, Seqs
  <1>1. /\ task[c] = "closing" /\ task' = [task EXCEPT ![c] = "idle"]
        /\ hubWs' = c /\ hubSeq' = work[c] /\ down' = Send(down, c, m)
        /\ UNCHANGED <<lastSeq, outbox, lastAck, phase, conn, cursor, work, stored, open, up,
                       faults, overtaken>>
    BY DEF Superseded, Enter, SeenOnHello, bridgeVars
  <1>2. Numbers' /\ HelloFirst' /\ InSequence' /\ Sent'
    BY TaskStep, <1>1
  <1>3. down' \in [Conns -> Seq(DownFrames)] /\ Acknowledged'
    <2>1. m \in DownFrames /\ m.type = "welcome" /\ m.seq - 1 = work[c]
      BY WelcomeFacts DEF TypeOK
    <2>2. CoveredUpTo(work[c])' /\ CoveredUpTo(hubSeq)' /\ CoveredUpTo(m.seq - 1)'
      BY <1>1, <2>1 DEF Acknowledged, CoveredUpTo, Covered
    <2>3. ASSUME NEW d \in Conns, task'[d] = "closing" PROVE CoveredUpTo(work[d])'
      BY <2>3, <1>1 DEF Acknowledged, CoveredUpTo, Covered, TypeOK
    <2> HIDE DEF m
    <2> QED
      BY AcknowledgedStep, <1>1, <2>1, <2>2, <2>3
  <1>4. TypeOK'
    <2>1. task' \in [Conns -> Tasks] /\ hubWs' \in 0..MaxConn /\ hubSeq' \in 0..MaxSeq
      BY <1>1 DEF TypeOK, Tasks
    <2> QED
      BY <2>1, <1>1, <1>3 DEF TypeOK
  <1>5. Wires' /\ LossOnlyByOvertaking'
    BY <1>1 DEF Wires, LossOnlyByOvertaking, TypeOK
  <1> QED
    BY <1>2, <1>3, <1>4, <1>5

LEMMA RecvFrameInv == ASSUME IInv, NEW c \in Conns, RecvFrame(c) PROVE IInv'
  <1> DEFINE h == up[c][1]
  <1> USE ConstantsAssumption DEF IInv, Conns, Seqs
  <1>1. /\ up[c] # <<>> /\ task[c] = "idle" /\ Head(up[c]) = h
        /\ h.type # "hello" /\ h.seq \in Seqs
    <2>1. up[c] # <<>> /\ task[c] = "idle"
      BY DEF RecvFrame
    <2>2. up[c] \in Seq(UpFrames) /\ 1 \in 1..Len(up[c])
      BY <2>1, UpFacts
    <2>3. Head(up[c]) = h
      BY <2>1, <2>2, TailFacts
    <2> QED
      BY <2>1, <2>2, <2>3, UpFacts DEF HelloFirst
  <1>2. /\ task' = [task EXCEPT ![c] = "storing"]
        /\ up' = [up EXCEPT ![c] = Tail(@)]
        /\ work' = [work EXCEPT ![c] = h.seq]
        /\ UNCHANGED <<lastSeq, outbox, lastAck, phase, conn, cursor, hubWs, hubSeq, stored, open,
                       down, faults, overtaken>>
    BY <1>1 DEF RecvFrame, bridgeVars
  <1>3. /\ up' \in [Conns -> Seq(UpFrames)]
        /\ Numbers' /\ HelloFirst' /\ InSequence' /\ Sent'
        /\ \A d \in Conns : \A i \in 1..Len(up'[d]) : up'[d][i].type = "hello" => d # c /\ up'[d] = up[d]
    <2>1. /\ "storing" \in Tasks
          /\ \A d \in Conns : d # c => work'[d] = work[d]
          /\ work'[c] = h.seq
      BY <1>2 DEF TypeOK, Tasks
    <2> HIDE DEF h
    <2> QED
      BY TailStep, <1>1, <1>2, <2>1 DEF h
  <1>4. Acknowledged'
    <2>1. UNCHANGED <<stored, overtaken, lastAck, hubSeq, down>>
      BY <1>2
    <2>2. \A d \in Conns : task'[d] = "closing" => task[d] = "closing" /\ work'[d] = work[d]
      BY <1>2 DEF TypeOK
    <2>3. \A d \in Conns : \A i \in 1..Len(up'[d]) : up'[d][i].type = "hello" => CoveredUpTo(up'[d][i].seq)
      BY <1>3 DEF Acknowledged
    <2> QED
      BY <2>1, <2>2, <2>3 DEF Acknowledged, CoveredUpTo, Covered
  <1>5. TypeOK'
    <2>1. task' \in [Conns -> Tasks] /\ work' \in [Conns -> 0..MaxSeq]
      <3>1. h.seq \in 0..MaxSeq /\ "storing" \in Tasks
        BY <1>1 DEF Tasks
      <3> HIDE DEF h
      <3> QED
        BY <3>1, <1>2 DEF TypeOK
    <2> QED
      BY <2>1, <1>2, <1>3 DEF TypeOK
  <1>6. Wires' /\ LossOnlyByOvertaking'
    BY <1>2 DEF Wires, LossOnlyByOvertaking, TypeOK
  <1> QED
    BY <1>3, <1>4, <1>5, <1>6

\* An acknowledgement of s, or its failure.
LEMMA AckFacts ==
  ASSUME TypeOK, NEW c \in Conns, NEW s \in Seqs, Ack(c, s)
  PROVE  \E t \in {"idle", "gone"} :
            /\ task' = [task EXCEPT ![c] = t]
            /\ t = "gone" => c \notin open'
            /\ open' \subseteq open /\ open' \subseteq Conns
            /\ hubWs' \in 0..MaxConn
            /\ down' = down \/ \E d \in Conns : down' = Send(down, d, Msg("ack", s))
  <1> USE ConstantsAssumption DEF Conns, TypeOK
  <1>1. CASE task' = [task EXCEPT ![c] = "idle"] /\ UNCHANGED <<hubWs, open>>
               /\ down' = IF hubWs = 0 THEN down ELSE Send(down, hubWs, Msg("ack", s))
    <2>1. hubWs = 0 \/ hubWs \in Conns
      OBVIOUS
    <2> QED
      BY <1>1, <2>1
  <1>2. CASE Leave(c) /\ open' = open \ {c} /\ UNCHANGED down
    <2>1. /\ task' = [task EXCEPT ![c] = "gone"]
          /\ c \notin open' /\ open' \subseteq open /\ open' \subseteq Conns
          /\ hubWs' \in 0..MaxConn /\ down' = down
      BY <1>2 DEF Leave, HubWithout
    <2> QED
      BY <2>1
  <1> QED
    BY <1>1, <1>2 DEF Ack

LEMMA AckFrame ==
  ASSUME NEW s \in Seqs
  PROVE  Msg("ack", s) \in DownFrames /\ Msg("ack", s).type = "ack" /\ Msg("ack", s).seq = s
  BY DEF Msg, DownFrames

LEMMA SkipFrameInv == ASSUME IInv, NEW c \in Conns, SkipFrame(c) PROVE IInv'
  <1> USE ConstantsAssumption DEF IInv, Conns, Seqs
  <1>1. /\ up[c] # <<>> /\ task[c] = "idle" /\ Head(up[c]) = up[c][1]
        /\ up[c][1].type = "telemetry" /\ up[c][1].seq \in Seqs /\ up[c][1].seq <= hubSeq
    <2>1. up[c] # <<>> /\ task[c] = "idle"
      BY DEF SkipFrame
    <2>2. up[c] \in Seq(UpFrames) /\ 1 \in 1..Len(up[c])
      BY <2>1, UpFacts
    <2>3. Head(up[c]) = up[c][1]
      BY <2>1, <2>2, TailFacts
    <2>4. up[c][1].type = "telemetry" /\ up[c][1].seq <= hubSeq
      BY <2>3 DEF SkipFrame
    <2> QED
      BY <2>1, <2>2, <2>3, <2>4, UpFacts
  <1>2. PICK n \in Seqs : n = up[c][1].seq
    BY <1>1
  <1>3. /\ Ack(c, n)
        /\ up' = [up EXCEPT ![c] = Tail(@)]
        /\ UNCHANGED <<lastSeq, outbox, lastAck, phase, conn, cursor, work, hubSeq, stored,
                       faults, overtaken>>
    BY <1>1, <1>2 DEF SkipFrame, bridgeVars
  <1>4. PICK t \in {"idle", "gone"} :
            /\ task' = [task EXCEPT ![c] = t]
            /\ t = "gone" => c \notin open'
            /\ open' \subseteq open /\ open' \subseteq Conns
            /\ hubWs' \in 0..MaxConn
            /\ down' = down \/ \E d \in Conns : down' = Send(down, d, Msg("ack", n))
    BY <1>3, AckFacts
  <1>5. Covered(n) /\ CoveredUpTo(n) /\ CoveredUpTo(n)'
    <2>1. CoveredUpTo(hubSeq) /\ n <= hubSeq /\ hubSeq \in Nat
      BY <1>1, <1>2 DEF Acknowledged, TypeOK
    <2>2. CoveredUpTo(n) /\ Covered(n)
      BY <2>1 DEF CoveredUpTo
    <2> QED
      BY <2>2, <1>3 DEF CoveredUpTo, Covered
  <1>6. /\ up' \in [Conns -> Seq(UpFrames)]
        /\ Numbers' /\ HelloFirst' /\ InSequence' /\ Sent'
        /\ \A d \in Conns : \A i \in 1..Len(up'[d]) : up'[d][i].type = "hello" => d # c /\ up'[d] = up[d]
    <2>1. t \in Tasks /\ t # "accepted" /\ t # "storing"
      BY DEF Tasks
    <2> QED
      BY TailStep, <1>1, <1>2, <1>3, <1>4, <1>5, <2>1
  <1>7. down' \in [Conns -> Seq(DownFrames)] /\ Acknowledged'
    <2>1. CoveredUpTo(hubSeq)'
      BY <1>3 DEF Acknowledged, CoveredUpTo, Covered
    <2>2. ASSUME NEW d \in Conns, task'[d] = "closing" PROVE CoveredUpTo(work[d])'
      BY <2>2, <1>3, <1>4 DEF Acknowledged, CoveredUpTo, Covered, TypeOK
    <2>3. PICK d \in Conns : down' = down \/ down' = Send(down, d, Msg("ack", n))
      BY <1>4
    <2>4. \A e \in Conns : \A i \in 1..Len(up'[e]) : up'[e][i].type = "hello" => up'[e] = up[e]
      BY <1>6
    <2> QED
      BY AcknowledgedStep, AckFrame, <1>3, <1>5, <2>1, <2>2, <2>3, <2>4
  <1>8. TypeOK'
    <2>1. task' \in [Conns -> Tasks]
      BY <1>4 DEF TypeOK, Tasks
    <2> QED
      BY <2>1, <1>3, <1>4, <1>6, <1>7 DEF TypeOK
  <1>9. Wires' /\ LossOnlyByOvertaking'
    BY <1>3, <1>4 DEF Wires, LossOnlyByOvertaking, TypeOK
  <1> QED
    BY <1>6, <1>7, <1>8, <1>9

LEMMA StoredInv == ASSUME IInv, NEW c \in Conns, Stored(c) PROVE IInv'
  <1> USE ConstantsAssumption DEF IInv, Conns, Seqs
  <1>1. task[c] = "storing" /\ work[c] \in Seqs /\ work[c] <= lastSeq
    BY DEF Stored, Numbers, TypeOK
  <1>2. PICK n \in Seqs : n = work[c]
    BY <1>1
  <1>3. /\ Ack(c, n)
        /\ stored' = stored \cup {n}
        /\ hubSeq' = IF n > hubSeq THEN n ELSE hubSeq
        /\ UNCHANGED <<lastSeq, outbox, lastAck, phase, conn, cursor, work, up, faults, overtaken>>
    BY <1>2 DEF Stored, bridgeVars
  <1>4. PICK t \in {"idle", "gone"} :
            /\ task' = [task EXCEPT ![c] = t]
            /\ t = "gone" => c \notin open'
            /\ open' \subseteq open /\ open' \subseteq Conns
            /\ hubWs' \in 0..MaxConn
            /\ down' = down \/ \E d \in Conns : down' = Send(down, d, Msg("ack", n))
    BY <1>3, AckFacts
  <1>5. Numbers' /\ HelloFirst' /\ InSequence' /\ Sent'
    BY TaskStep, <1>1, <1>2, <1>3, <1>4
  <1>6. CoveredUpTo(n)'
    <2>1. \A s \in Seqs : s < n => Covered(s)
      BY <1>1, <1>2 DEF InSequence
    <2> QED
      BY <2>1, <1>3 DEF CoveredUpTo, Covered
  <1>7. down' \in [Conns -> Seq(DownFrames)] /\ Acknowledged'
    <2>1. CoveredUpTo(hubSeq)'
      BY <1>3, <1>6 DEF Acknowledged, CoveredUpTo, Covered
    <2>2. ASSUME NEW d \in Conns, task'[d] = "closing" PROVE CoveredUpTo(work[d])'
      BY <2>2, <1>3, <1>4 DEF Acknowledged, CoveredUpTo, Covered, TypeOK
    <2>3. PICK d \in Conns : down' = down \/ down' = Send(down, d, Msg("ack", n))
      BY <1>4
    <2> QED
      BY AcknowledgedStep, AckFrame, <1>3, <1>6, <2>1, <2>2, <2>3
  <1>8. TypeOK'
    <2>1. task' \in [Conns -> Tasks] /\ hubSeq' \in 0..MaxSeq /\ stored' \subseteq Seqs
      BY <1>3, <1>4 DEF TypeOK, Tasks
    <2> QED
      BY <2>1, <1>3, <1>4, <1>7 DEF TypeOK
  <1>9. Wires' /\ LossOnlyByOvertaking'
    BY <1>3, <1>4 DEF Wires, LossOnlyByOvertaking, TypeOK
  <1> QED
    BY <1>5, <1>7, <1>8, <1>9

LEMMA LeaveInv == ASSUME IInv, NEW c \in Conns, StoreFails(c) \/ Disconnected(c) PROVE IInv'
  <1> USE ConstantsAssumption DEF IInv, Conns, Seqs
  <1>1. /\ task[c] # "gone" /\ task' = [task EXCEPT ![c] = "gone"]
        /\ open' \subseteq open /\ c \notin open'
        /\ hubWs' \in 0..MaxConn /\ faults' \in 0..MaxFaults
        /\ UNCHANGED <<lastSeq, outbox, lastAck, phase, conn, cursor, work, hubSeq, stored, up, down,
                       overtaken>>
    <2>1. CASE StoreFails(c)
      BY <2>1 DEF StoreFails, Leave, HubWithout, TypeOK, bridgeVars
    <2>2. CASE Disconnected(c)
      BY <2>2 DEF Disconnected, Leave, HubWithout, TypeOK, bridgeVars, wireVars
    <2> QED
      BY <2>1, <2>2
  <1>2. Numbers' /\ HelloFirst' /\ InSequence' /\ Sent'
    BY TaskStep, <1>1
  <1>3. Acknowledged'
    BY <1>1 DEF Acknowledged, CoveredUpTo, Covered, TypeOK
  <1>4. TypeOK'
    <2>1. task' \in [Conns -> Tasks]
      BY <1>1 DEF TypeOK, Tasks
    <2> QED
      BY <2>1, <1>1 DEF TypeOK
  <1>5. Wires' /\ LossOnlyByOvertaking'
    BY <1>1 DEF Wires, LossOnlyByOvertaking, TypeOK
  <1> QED
    BY <1>2, <1>3, <1>4, <1>5

-----------------------------------------------------------------------------
\* The bridge's other steps

LEMMA EndSessionInv ==
  IInv /\ (ConnectionLost \/ SeesClose \/ BridgeRestart) => IInv'
  <1> SUFFICES ASSUME IInv, ConnectionLost \/ SeesClose \/ BridgeRestart PROVE IInv'
    OBVIOUS
  <1> USE ConstantsAssumption DEF IInv, Conns, Seqs
  <1>1. /\ conn \in Conns /\ EndSession
        /\ lastAck' \in {lastAck, 0} /\ faults' \in 0..MaxFaults
        /\ UNCHANGED <<lastSeq, outbox, conn, cursor, task, work, hubWs, hubSeq, stored, overtaken>>
    <2>1. CASE ConnectionLost
      <3>1. faults' \in 0..MaxFaults
        BY <2>1 DEF ConnectionLost, TypeOK
      <3> QED
        BY <2>1, <3>1 DEF ConnectionLost, Wires, apiVars
    <2>2. CASE SeesClose
      <3>1. faults' \in 0..MaxFaults
        BY <2>2 DEF SeesClose, TypeOK
      <3> QED
        BY <2>2, <3>1 DEF SeesClose, Wires, apiVars
    <2>3. CASE BridgeRestart
      <3>1. faults' \in 0..MaxFaults /\ conn \in Conns
        BY <2>3 DEF BridgeRestart, TypeOK
      <3> QED
        BY <2>3, <3>1 DEF BridgeRestart, apiVars
    <2> QED
      BY <2>1, <2>2, <2>3
  <1>2. PICK p \in Prefixes(up[conn]) : up' = [up EXCEPT ![conn] = p]
    BY <1>1 DEF EndSession
  <1>3. /\ p \in Seq(UpFrames) /\ Len(p) <= Len(up[conn]) /\ Len(p) \in Nat
        /\ \A i \in 1..Len(p) : p[i] = up[conn][i]
        /\ p = <<>> <=> Len(p) = 0
    <2>1. up[conn] \in Seq(UpFrames)
      BY <1>1, UpFacts
    <2>2. p \in Seq(UpFrames)
      BY <2>1, <1>2, PrefixFacts
    <2> QED
      BY <2>1, <2>2, <1>2, PrefixFacts, ElementFacts
  <1>4. /\ up' \in [Conns -> Seq(UpFrames)]
        /\ \A c \in Conns : c # conn => up'[c] = up[c]
        /\ up'[conn] = p
        /\ \A c \in Conns : Len(up[c]) \in Nat /\ (up[c] = <<>> <=> Len(up[c]) = 0)
    BY <1>1, <1>2, <1>3, UpFacts DEF TypeOK
  <1>5. \A c \in Conns : /\ Len(up'[c]) \in Nat /\ Len(up'[c]) <= Len(up[c])
                         /\ \A i \in 1..Len(up'[c]) : i \in 1..Len(up[c]) /\ up'[c][i] = up[c][i]
    BY <1>1, <1>3, <1>4, SMTT(30)
  <1>6. /\ phase' = "off" /\ open' = {}
        /\ down' \in [Conns -> Seq(DownFrames)]
        /\ \A c \in Conns : \A i \in 1..Len(down'[c]) : i \in 1..Len(down[c]) /\ down'[c][i] = down[c][i]
    <2>1. phase' = "off" /\ open' = open \ {conn} /\ down' = [down EXCEPT ![conn] = <<>>]
      BY <1>1 DEF EndSession
    <2>2. <<>> \in Seq(DownFrames) /\ Len(<<>>) = 0
      OBVIOUS
    <2>3. open' = {}
      BY <2>1 DEF Wires
    <2> QED
      BY <2>1, <2>2, <2>3, <1>1 DEF TypeOK
  <1>7. TypeOK'
    <2>1. lastAck' \in 0..MaxSeq
      BY <1>1 DEF TypeOK
    <2>2. phase' \in Phases /\ open' \subseteq Conns
      BY <1>6 DEF Phases
    <2>3. /\ lastSeq' \in 0..MaxSeq /\ outbox' \subseteq Seqs /\ conn' \in 0..MaxConn /\ cursor' \in 0..MaxSeq
          /\ task' \in [Conns -> Tasks] /\ work' \in [Conns -> 0..MaxSeq]
      BY <1>1 DEF TypeOK
    <2>4. /\ hubWs' \in 0..MaxConn /\ hubSeq' \in 0..MaxSeq /\ stored' \subseteq Seqs /\ overtaken' \subseteq Seqs
      BY <1>1 DEF TypeOK
    <2> QED
      BY <1>1, <1>4, <1>6, <2>1, <2>2, <2>3, <2>4 DEF TypeOK
  <1>8. Wires'
    BY <1>6 DEF Wires
  <1>9. Numbers'
    BY <1>1, <1>5 DEF Numbers
  <1>10. HelloFirst'
    <2>1. \A c \in Conns : up'[c] # <<>> => 1 \in 1..Len(up'[c])
      BY <1>4, <1>5, ElementFacts
    <2>2. \A c \in Conns : \A i \in 1..Len(up'[c]) : up'[c][i].type = "hello" => i = 1 /\ task[c] \in {"accepted", "gone"}
      BY <1>5 DEF HelloFirst
    <2>3. ASSUME NEW c \in Conns, task[c] = "accepted", up'[c] # <<>>
          PROVE  up'[c][1].type = "hello"
      <3>1. 1 \in 1..Len(up[c]) /\ up'[c][1] = up[c][1]
        BY <2>1, <2>3, <1>5
      <3>2. up[c] # <<>>
        BY <3>1, <1>4
      <3> QED
        BY <2>3, <3>1, <3>2 DEF HelloFirst
    <2> QED
      BY <2>2, <2>3, <1>1, <1>6 DEF HelloFirst
  <1>11. \A n : CoveredUpTo(n) => CoveredUpTo(n)'
    BY <1>1 DEF CoveredUpTo, Covered
  <1>12. Acknowledged'
    <2>1. CoveredUpTo(lastAck)'
      BY <1>1 DEF Acknowledged, CoveredUpTo, Covered
    <2>2. \A c \in Conns : \A i \in 1..Len(up'[c]) : up'[c][i].type = "hello" => CoveredUpTo(up[c][i].seq)'
      BY <1>5, <1>11 DEF Acknowledged, CoveredUpTo
    <2>3. \A c \in Conns : \A i \in 1..Len(down'[c]) :
             (IF down[c][i].type = "ack" THEN CoveredUpTo(down[c][i].seq)
                                         ELSE CoveredUpTo(down[c][i].seq - 1))'
      BY <1>6, <1>11 DEF Acknowledged, CoveredUpTo
    <2> QED
      BY <1>1, <2>1, <2>2, <2>3, <1>11 DEF Acknowledged, CoveredUpTo
  <1>13. InSequence'
    <2>1. ASSUME NEW c \in Conns, NEW i \in 1..Len(up'[c]), NEW s, Ahead(c, s, i - 1)
          PROVE  Ahead(c, s, i - 1)'
      <3>1. CASE task[c] = "storing" /\ work[c] = s
        BY <3>1, <1>1 DEF Ahead
      <3>2. CASE \E j \in 1..Len(up[c]) : j <= i - 1 /\ up[c][j].seq = s /\ up[c][j].type # "hello"
        <4>1. PICK j \in 1..Len(up[c]) : j <= i - 1 /\ up[c][j].seq = s /\ up[c][j].type # "hello"
          BY <3>2
        <4>2. j \in 1..Len(up'[c])
          BY <4>1, <1>5
        <4> QED
          BY <4>1, <4>2, <1>5 DEF Ahead
      <3> QED
        BY <2>1, <3>1, <3>2 DEF Ahead
    <2>2. ASSUME NEW c \in Conns, task[c] # "gone", NEW i \in 1..Len(up'[c]), up'[c][i].type # "hello",
                 NEW s \in Seqs, s < up'[c][i].seq
          PROVE  Covered(s)' \/ Ahead(c, s, i - 1)'
      <3>1. Covered(s) \/ Ahead(c, s, i - 1)
        BY <2>2, <1>5 DEF InSequence
      <3> QED
        BY <3>1, <2>1, <1>1 DEF Covered
    <2> QED
      BY <2>2, <1>1 DEF InSequence, Covered
  <1>14. Sent' /\ LossOnlyByOvertaking'
    BY <1>1, <1>6 DEF Sent, LossOnlyByOvertaking
  <1> QED
    BY <1>7, <1>8, <1>9, <1>10, <1>12, <1>13, <1>14

LEMMA ConnectInv == IInv /\ Connect => IInv'
  <1> SUFFICES ASSUME IInv, Connect PROVE IInv'
    OBVIOUS
  <1> USE ConstantsAssumption DEF IInv, Conns, Seqs
  <1>1. PICK c \in Conns : c = conn + 1
    BY DEF Connect, TypeOK
  <1>2. PICK h \in UpFrames : h = Msg("hello", lastAck) /\ h.type = "hello" /\ h.seq = lastAck
    <2>1. lastAck \in 0..MaxSeq
      BY DEF TypeOK
    <2>2. \A n \in 0..MaxSeq : [type |-> "hello", seq |-> n] \in UpFrames
      BY DEF UpFrames
    <2> QED
      BY <2>1, <2>2 DEF Msg
  <1>3. /\ conn' = c /\ phase' = "hello" /\ cursor' = lastAck /\ open' = {c}
        /\ up' = [up EXCEPT ![c] = <<h>>]
        /\ task' = [task EXCEPT ![c] = "accepted"]
        /\ UNCHANGED <<lastSeq, outbox, lastAck, down, work, hubWs, hubSeq, stored, faults, overtaken>>
    BY <1>1, <1>2 DEF Connect, Wires
  <1>4. /\ up' \in [Conns -> Seq(UpFrames)] /\ task' \in [Conns -> Tasks]
        /\ \A d \in Conns : d # c => up'[d] = up[d] /\ task'[d] = task[d]
        /\ up'[c] # <<>> /\ Len(up'[c]) = 1 /\ up'[c][1] = h
        /\ task'[c] = "accepted"
    <2>1. <<h>> \in Seq(UpFrames) /\ Len(<<h>>) = 1 /\ <<h>>[1] = h /\ <<h>> # <<>>
      OBVIOUS
    <2> QED
      BY <2>1, <1>3 DEF TypeOK, Tasks
  <1>5. \A i \in 1..Len(up'[c]) : i = 1 /\ up'[c][i] = h
    BY <1>4
  <1>6. TypeOK'
    BY <1>3, <1>4 DEF TypeOK, Phases
  <1>7. Wires'
    BY <1>3, <1>4 DEF Wires
  <1>8. Numbers'
    BY <1>2, <1>3, <1>4, <1>5 DEF Numbers
  <1>9. HelloFirst'
    BY <1>2, <1>3, <1>4, <1>5 DEF HelloFirst
  <1>10. \A n : CoveredUpTo(n) => CoveredUpTo(n)'
    BY <1>3 DEF CoveredUpTo, Covered
  <1>11. CoveredUpTo(lastAck) /\ CoveredUpTo(lastAck)'
    BY <1>3 DEF Acknowledged, CoveredUpTo, Covered
  <1>12. Acknowledged'
    <2>1. ASSUME NEW d \in Conns, NEW i \in 1..Len(up'[d]), up'[d][i].type = "hello"
          PROVE  CoveredUpTo(up[d][i].seq)'
      <3>1. PICK n : n = up'[d][i].seq
        OBVIOUS
      <3>2. CASE d = c
        <4>1. n = lastAck
          BY <3>1, <3>2, <1>2, <1>5
        <4> QED
          BY <3>1, <4>1, <1>3, <1>11 DEF CoveredUpTo, Covered
      <3>3. CASE d # c
        <4>1. CoveredUpTo(n)
          BY <2>1, <3>1, <3>3, <1>4 DEF Acknowledged
        <4> QED
          BY <3>1, <4>1, <1>3 DEF CoveredUpTo, Covered
      <3> QED
        BY <3>2, <3>3
    <2>2. \A d \in Conns : task'[d] = "closing" => CoveredUpTo(work[d])'
      BY <1>3, <1>4 DEF Acknowledged, CoveredUpTo, Covered
    <2>3. CoveredUpTo(hubSeq)'
      BY <1>3 DEF Acknowledged, CoveredUpTo, Covered
    <2>4. \A d \in Conns : \A i \in 1..Len(down'[d]) :
             (IF down[d][i].type = "ack" THEN CoveredUpTo(down[d][i].seq)
                                         ELSE CoveredUpTo(down[d][i].seq - 1))'
      BY <1>3 DEF Acknowledged, CoveredUpTo, Covered
    <2> QED
      BY <2>1, <2>2, <2>3, <2>4, <1>11 DEF Acknowledged
  <1>13. InSequence'
    <2>1. \A d \in Conns : d # c => \A s, k : Ahead(d, s, k) => Ahead(d, s, k)'
      BY <1>3, <1>4 DEF Ahead
    <2> QED
      BY <2>1, <1>2, <1>3, <1>4, <1>5 DEF InSequence, Covered
  <1>14. Sent'
    BY <1>3, <1>11 DEF Sent, SentUpTo, CoveredUpTo
  <1>15. LossOnlyByOvertaking'
    BY <1>3 DEF LossOnlyByOvertaking
  <1> QED
    BY <1>6, <1>7, <1>8, <1>9, <1>12, <1>13, <1>14, <1>15

\* A step of the bridge that sends nothing.
LEMMA ReceiveStep ==
  ASSUME IInv, TypeOK',
         UNCHANGED <<lastSeq, conn, open, up, task, work, hubWs, hubSeq, stored, overtaken>>,
         phase # "off", phase' # "off",
         outbox' \subseteq outbox,
         CoveredUpTo(lastAck'),
         LossOnlyByOvertaking', Sent',
         \A c \in Conns : \A i \in 1..Len(down'[c]) :
            \E j \in 1..Len(down[c]) : down'[c][i] = down[c][j]
  PROVE  IInv'
  <1> USE DEF IInv, Conns
  <1>1. \A n : CoveredUpTo(n) <=> CoveredUpTo(n)'
    BY DEF CoveredUpTo, Covered
  <1>2. Wires' /\ Numbers' /\ HelloFirst'
    BY DEF Wires, Numbers, HelloFirst
  <1>3. InSequence'
    <2>1. InSequence /\ UNCHANGED <<up, task, work, stored, overtaken>>
      OBVIOUS
    <2> HIDE DEF IInv
    <2> QED
      BY ONLY <2>1, SMTT(30) DEF InSequence, Covered, Ahead
  <1>4. Acknowledged'
    <2>1. CoveredUpTo(lastAck)'
      BY DEF CoveredUpTo, Covered
    <2>2. CoveredUpTo(hubSeq)'
      BY DEF Acknowledged, CoveredUpTo, Covered
    <2>3. \A c \in Conns : \A i \in 1..Len(up[c]) : up[c][i].type = "hello" => CoveredUpTo(up[c][i].seq)'
      BY <1>1 DEF Acknowledged
    <2>4. \A c \in Conns : task[c] = "closing" => CoveredUpTo(work[c])'
      BY <1>1 DEF Acknowledged
    <2>5. ASSUME NEW c \in Conns, NEW i \in 1..Len(down'[c])
          PROVE  (IF down[c][i].type = "ack" THEN CoveredUpTo(down[c][i].seq)
                                             ELSE CoveredUpTo(down[c][i].seq - 1))'
      <3>1. PICK m : m = down'[c][i]
        OBVIOUS
      <3>2. IF m.type = "ack" THEN CoveredUpTo(m.seq) ELSE CoveredUpTo(m.seq - 1)
        BY <3>1, SMTT(30) DEF Acknowledged
      <3> QED
        BY <3>1, <3>2 DEF CoveredUpTo, Covered
    <2> QED
      BY <2>1, <2>2, <2>3, <2>4, <2>5 DEF Acknowledged
  <1> QED
    BY <1>2, <1>3, <1>4

\* The bridge takes the first frame off its connection.
LEMMA DownTail ==
  ASSUME TypeOK, NEW c \in Conns, down[c] # <<>>, down' = [down EXCEPT ![c] = Tail(@)]
  PROVE  /\ down' \in [Conns -> Seq(DownFrames)]
         /\ Head(down[c]) = down[c][1] /\ 1 \in 1..Len(down[c]) /\ down[c][1] \in DownFrames
         /\ \A d \in Conns : \A i \in 1..Len(down'[d]) :
               \E j \in 1..Len(down[d]) : down'[d][i] = down[d][j]
  <1>1. down[c] \in Seq(DownFrames) /\ down \in [Conns -> Seq(DownFrames)]
    BY DEF TypeOK
  <1>2. /\ Tail(down[c]) \in Seq(DownFrames)
        /\ Len(Tail(down[c])) = Len(down[c]) - 1
        /\ Len(down[c]) \in Nat \ {0}
        /\ \A i \in 1..Len(Tail(down[c])) : Tail(down[c])[i] = down[c][i + 1]
        /\ Head(down[c]) = down[c][1]
        /\ Head(down[c]) \in DownFrames
    BY <1>1, TailFacts
  <1>3. /\ down' \in [Conns -> Seq(DownFrames)]
        /\ down'[c] = Tail(down[c])
        /\ \A d \in Conns : d # c => down'[d] = down[d]
    BY <1>1, <1>2
  <1>4. ASSUME NEW i \in 1..Len(down'[c]) PROVE \E j \in 1..Len(down[c]) : down'[c][i] = down[c][j]
    <2>1. i + 1 \in 1..Len(down[c]) /\ down'[c][i] = down[c][i + 1]
      BY <1>2, <1>3
    <2> QED
      BY <2>1
  <1> QED
    BY <1>2, <1>3, <1>4

LEMMA DownFrameFacts ==
  ASSUME NEW m \in DownFrames
  PROVE  /\ m.type \in {"ack", "welcome"}
         /\ m.type = "ack" => m.seq \in Seqs
         /\ m.type = "welcome" => m.seq - 1 \in 0..MaxSeq
  BY ConstantsAssumption DEF DownFrames, Seqs

LEMMA RecvWelcomeInv == IInv /\ RecvWelcome => IInv'
  <1> SUFFICES ASSUME IInv, RecvWelcome PROVE IInv'
    OBVIOUS
  <1> USE ConstantsAssumption DEF IInv, Conns, Seqs
  <1>1. PICK c \in Conns : c = conn
    BY DEF RecvWelcome, Wires
  <1>2. /\ phase = "hello" /\ phase' = "drain"
        /\ down[c] # <<>> /\ Head(down[c]).type = "welcome"
        /\ cursor' = Head(down[c]).seq - 1
        /\ down' = [down EXCEPT ![c] = Tail(@)]
        /\ UNCHANGED <<lastSeq, outbox, lastAck, conn, open, up, task, work, hubWs, hubSeq, stored,
                       faults, overtaken>>
    BY <1>1 DEF RecvWelcome, ResumeCursor, apiVars
  <1>3. /\ down' \in [Conns -> Seq(DownFrames)]
        /\ Head(down[c]) = down[c][1] /\ 1 \in 1..Len(down[c]) /\ down[c][1] \in DownFrames
        /\ \A d \in Conns : \A i \in 1..Len(down'[d]) :
              \E j \in 1..Len(down[d]) : down'[d][i] = down[d][j]
    BY <1>2, DownTail
  <1>4. cursor' \in 0..MaxSeq
    BY <1>2, <1>3, DownFrameFacts
  <1>5. CoveredUpTo(cursor')
    BY <1>2, <1>3 DEF Acknowledged
  <1>6. TypeOK'
    BY <1>2, <1>3, <1>4 DEF TypeOK, Phases
  <1>7. Sent'
    BY <1>2, <1>5 DEF Sent, SentUpTo, CoveredUpTo, Covered
  <1>8. LossOnlyByOvertaking' /\ CoveredUpTo(lastAck')
    BY <1>2 DEF LossOnlyByOvertaking, Acknowledged
  <1> QED
    BY ReceiveStep, <1>2, <1>3, <1>6, <1>7, <1>8

LEMMA DrainedInv == IInv /\ Drained => IInv'
  <1> SUFFICES ASSUME IInv, Drained PROVE IInv'
    OBVIOUS
  <1> USE ConstantsAssumption DEF IInv, Conns, Seqs
  <1>1. /\ phase = "drain" /\ phase' = "live" /\ \A s \in outbox : s <= cursor
        /\ UNCHANGED <<lastSeq, outbox, lastAck, conn, cursor, open, up, down, task, work, hubWs,
                       hubSeq, stored, faults, overtaken>>
    BY DEF Drained, apiVars, wireVars
  <1>2. TypeOK'
    BY <1>1 DEF TypeOK, Phases
  <1>3. Sent'
    <2>1. ASSUME conn \in open, NEW s \in Seqs, s <= lastSeq
          PROVE  Covered(s) \/ Ahead(conn, s, Len(up[conn]))
      <3>1. CASE s <= cursor
        BY <2>1, <3>1, <1>1 DEF Sent, SentUpTo
      <3>2. CASE ~(s <= cursor)
        <4>1. s \notin outbox /\ s \in 1..lastSeq
          BY <2>1, <3>2, <1>1 DEF TypeOK
        <4> QED
          BY <4>1 DEF LossOnlyByOvertaking, Covered
      <3> QED
        BY <3>1, <3>2
    <2>2. \A s : (Covered(s) => Covered(s)') /\ (Ahead(conn, s, Len(up[conn])) => Ahead(conn, s, Len(up[conn]))')
      BY <1>1 DEF Covered, Ahead
    <2> QED
      BY <2>1, <2>2, <1>1 DEF Sent, SentUpTo
  <1>4. LossOnlyByOvertaking' /\ CoveredUpTo(lastAck')
    BY <1>1 DEF LossOnlyByOvertaking, Acknowledged
  <1>5. \A c \in Conns : \A i \in 1..Len(down'[c]) :
           \E j \in 1..Len(down[c]) : down'[c][i] = down[c][j]
    BY <1>1
  <1> QED
    BY ReceiveStep, <1>1, <1>2, <1>3, <1>4, <1>5

LEMMA RecvAckInv == IInv /\ RecvAck => IInv'
  <1> SUFFICES ASSUME IInv, RecvAck PROVE IInv'
    OBVIOUS
  <1> USE ConstantsAssumption DEF IInv, Conns, Seqs
  <1>1. PICK c \in Conns : c = conn
    BY DEF RecvAck, Wires
  <1>2. PICK n : n = Head(down[c]).seq
    OBVIOUS
  <1>3. /\ phase = "live" /\ phase' = "live"
        /\ down[c] # <<>> /\ Head(down[c]).type = "ack"
        /\ lastAck' = IF n > lastAck THEN n ELSE lastAck
        /\ outbox' = {s \in outbox : s > n}
        /\ down' = [down EXCEPT ![c] = Tail(@)]
        /\ UNCHANGED <<lastSeq, conn, cursor, open, up, task, work, hubWs, hubSeq, stored,
                       faults, overtaken>>
    BY <1>1, <1>2 DEF RecvAck, Unacknowledged, apiVars
  <1>4. /\ down' \in [Conns -> Seq(DownFrames)]
        /\ Head(down[c]) = down[c][1] /\ 1 \in 1..Len(down[c]) /\ down[c][1] \in DownFrames
        /\ \A d \in Conns : \A i \in 1..Len(down'[d]) :
              \E j \in 1..Len(down[d]) : down'[d][i] = down[d][j]
    BY <1>3, DownTail
  <1>5. n \in Seqs /\ CoveredUpTo(n)
    BY <1>2, <1>3, <1>4, DownFrameFacts DEF Acknowledged
  <1>6. CoveredUpTo(lastAck')
    BY <1>3, <1>5 DEF Acknowledged
  <1>7. TypeOK'
    <2>1. lastAck' \in 0..MaxSeq
      BY <1>3, <1>5 DEF TypeOK
    <2>2. outbox' \subseteq Seqs
      BY <1>3 DEF TypeOK
    <2> QED
      BY <2>1, <2>2, <1>3, <1>4 DEF TypeOK, Phases
  <1>8. Sent'
    BY <1>3 DEF Sent, SentUpTo, Covered, Ahead
  <1>9. LossOnlyByOvertaking'
    <2>1. ASSUME NEW s \in 1..lastSeq PROVE s \in outbox' \cup stored \cup overtaken
      <3>1. s \in Seqs
        BY DEF TypeOK
      <3>2. s \in outbox \/ Covered(s)
        BY DEF LossOnlyByOvertaking, Covered
      <3> QED
        BY <3>1, <3>2, <1>3, <1>5 DEF CoveredUpTo, Covered
    <2> QED
      BY <2>1, <1>3 DEF LossOnlyByOvertaking
  <1> QED
    BY ReceiveStep, <1>3, <1>4, <1>6, <1>7, <1>8, <1>9

LEMMA ApiRestartInv == IInv /\ ApiRestart => IInv'
  <1> SUFFICES ASSUME IInv, ApiRestart PROVE IInv'
    OBVIOUS
  <1> USE ConstantsAssumption DEF IInv, Conns, Seqs
  <1>1. /\ faults' \in 0..MaxFaults /\ open' = {} /\ hubWs' = 0 /\ hubSeq' = 0
        /\ up' = [c \in Conns |-> <<>>]
        /\ task' = [c \in Conns |-> IF task[c] = "none" THEN "none" ELSE "gone"]
        /\ UNCHANGED <<lastSeq, outbox, lastAck, phase, conn, cursor, work, stored, down, overtaken>>
    BY DEF ApiRestart, bridgeVars, TypeOK
  <1>2. \A c \in Conns : up'[c] = <<>> /\ Len(up'[c]) = 0 /\ task'[c] \in {"none", "gone"}
    BY <1>1
  <1>3. TypeOK'
    <2>1. task' \in [Conns -> Tasks] /\ up' \in [Conns -> Seq(UpFrames)] /\ open' \subseteq Conns
      BY <1>1 DEF Tasks
    <2> QED
      BY <2>1, <1>1 DEF TypeOK
  <1>4. Wires' /\ Numbers' /\ HelloFirst'
    BY <1>1, <1>2 DEF Wires, Numbers, HelloFirst
  <1>5. Acknowledged'
    BY <1>1, <1>2 DEF Acknowledged, CoveredUpTo, Covered
  <1>6. InSequence' /\ Sent' /\ LossOnlyByOvertaking'
    BY <1>1, <1>2 DEF InSequence, Sent, LossOnlyByOvertaking
  <1> QED
    BY <1>3, <1>4, <1>5, <1>6

LEMMA StutterInv == IInv /\ UNCHANGED vars => IInv'
  <1> SUFFICES ASSUME IInv, UNCHANGED vars PROVE IInv'
    OBVIOUS
  <1> USE DEF vars, bridgeVars, apiVars, wireVars, IInv
  <1>1. TypeOK' /\ Wires' /\ Numbers' /\ HelloFirst' /\ LossOnlyByOvertaking'
    BY DEF TypeOK, Wires, Numbers, HelloFirst, LossOnlyByOvertaking
  <1>2. Acknowledged'
    BY DEF Acknowledged, CoveredUpTo, Covered
  <1>3. InSequence' /\ Sent'
    BY DEF InSequence, Sent, SentUpTo, Covered, Ahead
  <1> QED
    BY <1>1, <1>2, <1>3

LEMMA NextInv == IInv /\ [Next]_vars => IInv'
  <1> SUFFICES ASSUME IInv, [Next]_vars PROVE IInv'
    OBVIOUS
  <1>1. CASE Publish
    BY <1>1, PublishInv
  <1>2. CASE Bridge
    BY <1>2, ConnectInv, RecvWelcomeInv, DrainInv, DrainedInv, RecvAckInv, EndSessionInv DEF Bridge
  <1>3. CASE Fault
    <2>1. CASE \E c \in Conns : StoreFails(c)
      BY <2>1, LeaveInv
    <2> QED
      BY <1>3, <2>1, EndSessionInv, ApiRestartInv DEF Fault
  <1>4. ASSUME NEW c \in Conns, Api(c) PROVE IInv'
    BY <1>4, RecvHelloInv, SupersededInv, RecvFrameInv, SkipFrameInv, StoredInv, LeaveInv DEF Api
  <1>5. CASE UNCHANGED vars
    BY <1>5, StutterInv
  <1> QED
    BY <1>1, <1>2, <1>3, <1>4, <1>5 DEF Next

-----------------------------------------------------------------------------
\* The inductive invariant holds in every reachable state.
THEOREM Invariance == Spec => []IInv
  <1>1. Init => IInv
    BY InitInv
  <1>2. IInv /\ [Next]_vars => IInv'
    BY NextInv
  <1> QED
    BY <1>1, <1>2, PTL DEF Spec

\* The variables keep their types: connection and frame numbers stay in range, and the
\* wires carry frames of the protocol only.
THEOREM TypeCorrect == Spec => []TypeOK
  <1>1. IInv => TypeOK
    BY DEF IInv
  <1> QED
    BY <1>1, Invariance, PTL

\* A published telemetry frame that is neither in the outbox nor in the database was
\* overtaken while it waited for the drain.
THEOREM NoOtherLoss == Spec => []LossOnlyByOvertaking
  <1>1. IInv => LossOnlyByOvertaking
    BY DEF IInv
  <1> QED
    BY <1>1, Invariance, PTL

\* A live frame that BridgeHub.handle drops as not new is in the database, or was overtaken.
THEOREM SkippingIsSafe == Spec => []SkipsOnlyStored
  <1>1. IInv => SkipsOnlyStored
    <2> SUFFICES ASSUME IInv, NEW c \in Conns, up[c] # <<>>,
                        Head(up[c]).type = "telemetry", Head(up[c]).seq <= hubSeq
                 PROVE  Head(up[c]).seq \in stored \cup overtaken
      BY DEF SkipsOnlyStored
    <2>1. up[c] \in Seq(UpFrames) /\ TypeOK /\ CoveredUpTo(hubSeq)
      BY UpFacts DEF IInv, Acknowledged
    <2>2. Head(up[c]) = up[c][1] /\ 1 \in 1..Len(up[c])
      BY <2>1, TailFacts
    <2>3. Head(up[c]).seq \in Seqs
      BY <2>1, <2>2, UpFacts
    <2> QED
      BY <2>1, <2>3 DEF CoveredUpTo, Covered
  <1> QED
    BY <1>1, Invariance, PTL

LEMMA PromiseInit == Init => Promise!Init
  BY DEF Init, Promise!Init

LEMMA PromiseStep == IInv /\ [Next]_vars => [Promise!Next]_<<lastSeq, outbox, stored, overtaken>>
  <1> SUFFICES ASSUME IInv, [Next]_vars
               PROVE  [Promise!Next]_<<lastSeq, outbox, stored, overtaken>>
    OBVIOUS
  <1> DEFINE Same == UNCHANGED <<lastSeq, outbox, stored, overtaken>>
  <1>1. CASE Publish
    <2>1. /\ lastSeq < MaxSeq /\ lastSeq' = lastSeq + 1 /\ outbox' = outbox \cup {lastSeq + 1}
          /\ UNCHANGED stored
      BY <1>1 DEF Publish, apiVars
    <2>2. \E w \in SUBSET outbox : overtaken' = overtaken \cup w
      <3>1. CASE UNCHANGED overtaken
        <4>1. {} \in SUBSET outbox /\ overtaken' = overtaken \cup {}
          BY <3>1
        <4> QED
          BY <4>1
      <3>2. CASE overtaken' = overtaken \cup {t \in outbox : t > cursor}
        BY <3>2
      <3> QED
        BY <1>1, <3>1, <3>2 DEF Publish
    <2> QED
      BY <2>1, <2>2 DEF Promise!Next, Promise!Publish
  <1>2. CASE RecvAck
    <2>1. PICK c \in Conns : c = conn
      BY <1>2 DEF RecvAck, Wires, IInv
    <2>2. PICK n : n = Head(down[c]).seq
      OBVIOUS
    <2>3. /\ down[c] # <<>> /\ Head(down[c]).type = "ack" /\ down' = [down EXCEPT ![c] = Tail(@)]
          /\ outbox' = {s \in outbox : s > n}
          /\ UNCHANGED <<lastSeq, stored, overtaken>>
      BY <1>2, <2>1, <2>2 DEF RecvAck, Unacknowledged, apiVars
    <2>4. Head(down[c]) = down[c][1] /\ 1 \in 1..Len(down[c]) /\ down[c][1] \in DownFrames
      BY <2>3, DownTail DEF IInv
    <2>5. n \in Seqs /\ CoveredUpTo(n)
      BY <2>2, <2>3, <2>4, DownFrameFacts DEF Acknowledged, IInv
    <2>6. {s \in outbox : s <= n} \subseteq stored \cup overtaken
      BY <2>5 DEF CoveredUpTo, Covered, IInv, TypeOK
    <2> QED
      BY <2>3, <2>5, <2>6 DEF Promise!Next, Promise!Forget, Seqs
  <1>3. ASSUME NEW c \in Conns, Stored(c) PROVE Promise!Next
    <2>1. work[c] \in 1..lastSeq /\ work[c] \in 1..MaxSeq
      BY <1>3 DEF Stored, IInv, Numbers, TypeOK
    <2>2. stored' = stored \cup {work[c]} /\ UNCHANGED <<lastSeq, outbox, overtaken>>
      BY <1>3 DEF Stored, bridgeVars
    <2> QED
      BY <2>1, <2>2 DEF Promise!Next, Promise!Deliver
  <1>4. CASE Connect \/ RecvWelcome \/ Drain \/ Drained \/ SeesClose
    <2>1. Same
      BY <1>4 DEF Connect, RecvWelcome, Drain, Drained, SeesClose, apiVars
    <2> QED
      BY <2>1
  <1>5. ASSUME NEW c \in Conns,
               RecvHello(c) \/ Superseded(c) \/ RecvFrame(c) \/ SkipFrame(c) \/ Disconnected(c) \/ StoreFails(c)
        PROVE  Same
    BY <1>5 DEF RecvHello, Superseded, RecvFrame, SkipFrame, Disconnected, StoreFails, bridgeVars
  <1>6. CASE ConnectionLost \/ BridgeRestart \/ ApiRestart
    <2>1. Same
      BY <1>6 DEF ConnectionLost, BridgeRestart, ApiRestart, apiVars, bridgeVars
    <2> QED
      BY <2>1
  <1>7. CASE UNCHANGED vars
    BY <1>7 DEF vars, bridgeVars, apiVars
  <1> QED
    BY <1>1, <1>2, <1>3, <1>4, <1>5, <1>6, <1>7 DEF Next, Bridge, Fault, Api

\* The whole path - outbox, session, wires, hub - does what StoreAndForward promises: it
\* deletes a frame only once that frame is in the database or was overtaken.
THEOREM Refinement == Spec => ImplementsPromise
  <1>1. Init => Promise!Init
    BY PromiseInit
  <1>2. IInv /\ [Next]_vars => [Promise!Next]_<<lastSeq, outbox, stored, overtaken>>
    BY PromiseStep
  <1> QED
    BY <1>1, <1>2, Invariance, PTL DEF Spec, ImplementsPromise, Promise!Spec
-----------------------------------------------------------------------------
(* "Neuere gewinnt", as long as hello frames are served in the order of their *)
(* connections.  While the task of a newer connection waits for the old       *)
(* socket's close, no open connection is being served: the one the hub held   *)
(* is closed, and no other may begin.                                         *)

ClosingAlone == \A c, d \in Conns : task[c] = "closing" /\ d \in open => task[d] \notin {"idle", "storing"}
ServedInv == NewestWins /\ ClosingAlone

\* A connection begins to be served where no open one is.
LEMMA EnterServes ==
  ASSUME TypeOK, NEW c \in Conns, NEW n, Enter(c, n), open' = open, ~LateHello, InOrder(c),
         \A d \in open : task[d] \notin {"idle", "storing"}
  PROVE  ServedInv'
  <1>1. task' = [task EXCEPT ![c] = "idle"] /\ hubWs' = c /\ task \in [Conns -> Tasks] /\ open \subseteq Conns
    BY DEF Enter, TypeOK
  <1>2. \A d \in Conns : d # c => task'[d] = task[d]
    BY <1>1
  <1>3. \A d \in open' : task'[d] \in {"idle", "storing"} => d = c
    BY <1>1, <1>2
  <1>4. \A d \in Conns : task'[d] # "closing"
    <2>1. \A d \in Conns : d # c => task[d] # "closing"
      BY DEF InOrder, Conns
    <2>2. task'[c] = "idle"
      BY <1>1
    <2> QED
      BY <1>2, <2>1, <2>2
  <1> QED
    BY <1>1, <1>3, <1>4 DEF ServedInv, NewestWins, ClosingAlone

\* A task that ends, or takes up or gives back a frame, changes nothing for the others.
LEMMA OthersServed ==
  ASSUME TypeOK, ServedInv, NEW c \in Conns, NEW t \in {"idle", "storing", "gone"},
         task' = [task EXCEPT ![c] = t], open' \subseteq open,
         t # "gone" => task[c] \in {"idle", "storing"} /\ hubWs' = hubWs,
         t = "gone" => hubWs' = HubWithout(c)
  PROVE  ServedInv'
  <1>1. task \in [Conns -> Tasks] /\ open \subseteq Conns
    BY DEF TypeOK
  <1>2. task'[c] = t /\ \A d \in Conns : d # c => task'[d] = task[d]
    BY <1>1
  <1>3. \A d \in open' : task'[d] \in {"idle", "storing"} => task[d] \in {"idle", "storing"} /\ hubWs = d
    BY <1>1, <1>2 DEF ServedInv, NewestWins
  <1>4. \A d \in open' : task'[d] \in {"idle", "storing"} => hubWs' = d
    BY <1>1, <1>2, <1>3 DEF HubWithout
  <1>5. \A d \in Conns : task'[d] = "closing" => task[d] = "closing"
    BY <1>2
  <1> QED
    BY <1>1, <1>3, <1>4, <1>5 DEF ServedInv, NewestWins, ClosingAlone

LEMMA ServedHello ==
  ASSUME TypeOK, ServedInv, ~LateHello, NEW c \in Conns, RecvHello(c) \/ Superseded(c)
  PROVE  ServedInv'
  <1>1. InOrder(c) /\ open \subseteq Conns /\ task \in [Conns -> Tasks] /\ hubWs \in 0..MaxConn
    BY DEF RecvHello, Superseded, TypeOK
  <1>2. CASE RecvHello(c) /\ hubWs = 0
    <2>1. Enter(c, Head(up[c]).seq) /\ open' = open
      BY <1>2 DEF RecvHello
    <2>2. \A d \in open : task[d] \notin {"idle", "storing"}
      BY <1>1, <1>2 DEF ServedInv, NewestWins, Conns
    <2> QED
      BY <1>1, <2>1, <2>2, EnterServes
  <1>3. CASE RecvHello(c) /\ hubWs # 0
    <2>1. /\ open' = open \ {hubWs} /\ task' = [task EXCEPT ![c] = "closing"] /\ hubWs' = hubWs
      BY <1>3 DEF RecvHello, HubWhileClosing
    <2>2. \A d \in open' : task[d] \notin {"idle", "storing"}
      BY <2>1 DEF ServedInv, NewestWins
    <2>3. \A d \in open' : task'[d] \notin {"idle", "storing"}
      BY <1>1, <2>1, <2>2
    <2> QED
      BY <2>3 DEF ServedInv, NewestWins, ClosingAlone
  <1>4. CASE Superseded(c)
    <2>1. Enter(c, work[c]) /\ open' = open /\ task[c] = "closing"
      BY <1>4 DEF Superseded
    <2>2. \A d \in open : task[d] \notin {"idle", "storing"}
      BY <1>1, <2>1 DEF ServedInv, ClosingAlone
    <2> QED
      BY <1>1, <2>1, <2>2, EnterServes
  <1> QED
    BY <1>2, <1>3, <1>4

LEMMA ServedStep ==
  ASSUME TypeOK, ServedInv, ~LateHello, [Next]_vars
  PROVE  ServedInv'
  <1>1. task \in [Conns -> Tasks] /\ open \subseteq Conns
    BY DEF TypeOK
  <1>2. CASE /\ UNCHANGED <<task, hubWs>>
             /\ open' \subseteq open
    BY <1>2 DEF ServedInv, NewestWins, ClosingAlone
  <1>3. ASSUME EndSession, UNCHANGED apiVars PROVE ServedInv'
    BY <1>2, <1>3 DEF EndSession, apiVars
  <1>4. CASE UNCHANGED vars \/ Publish \/ RecvWelcome \/ Drain \/ Drained \/ RecvAck
    BY <1>2, <1>4 DEF vars, wireVars, apiVars, Publish, RecvWelcome, Drain, Drained, RecvAck
  <1>5. CASE SeesClose \/ ConnectionLost \/ BridgeRestart
    BY <1>3, <1>5 DEF SeesClose, ConnectionLost, BridgeRestart
  <1>6. CASE Connect
    <2>1. /\ open' = open \cup {conn + 1} /\ task' = [task EXCEPT ![conn + 1] = "accepted"] /\ hubWs' = hubWs
      BY <1>6 DEF Connect
    <2>2. \A d \in Conns : (task'[d] = "accepted" \/ task'[d] = task[d]) /\ (d = conn + 1 => task'[d] = "accepted")
      BY <1>1, <2>1
    <2>3. conn + 1 \in Conns
      BY <1>6, ConstantsAssumption DEF Connect, TypeOK, Conns
    <2>4. \A d \in open' : d \in Conns /\ (task'[d] \in {"idle", "storing"} => d \in open /\ task'[d] = task[d])
      BY <1>1, <2>1, <2>2, <2>3
    <2>5. NewestWins'
      BY <2>1, <2>4 DEF ServedInv, NewestWins
    <2>6. ClosingAlone'
      BY <2>2, <2>4 DEF ServedInv, ClosingAlone
    <2> QED
      BY <2>5, <2>6 DEF ServedInv
  <1>7. ASSUME NEW c \in Conns, RecvHello(c) \/ Superseded(c) PROVE ServedInv'
    BY <1>7, ServedHello
  <1>8. ASSUME NEW c \in Conns, RecvFrame(c) PROVE ServedInv'
    <2>1. task' = [task EXCEPT ![c] = "storing"] /\ task[c] = "idle" /\ hubWs' = hubWs /\ open' = open
      BY <1>8 DEF RecvFrame
    <2> QED
      BY <2>1, OthersServed
  <1>9. ASSUME NEW c \in Conns, SkipFrame(c) \/ Stored(c) PROVE ServedInv'
    <2>1. task[c] \in {"idle", "storing"} /\ \E n \in {Head(up[c]).seq, work[c]} : Ack(c, n)
      BY <1>9 DEF SkipFrame, Stored
    <2>2. \/ task' = [task EXCEPT ![c] = "idle"] /\ hubWs' = hubWs /\ open' = open
          \/ task' = [task EXCEPT ![c] = "gone"] /\ hubWs' = HubWithout(c) /\ open' \subseteq open
      BY <2>1 DEF Ack, Leave
    <2> QED
      BY <2>1, <2>2, OthersServed
  <1>10. ASSUME NEW c \in Conns, StoreFails(c) \/ Disconnected(c) PROVE ServedInv'
    <2>1. task' = [task EXCEPT ![c] = "gone"] /\ hubWs' = HubWithout(c) /\ open' \subseteq open
      BY <1>10 DEF StoreFails, Disconnected, Leave, wireVars
    <2> QED
      BY <2>1, OthersServed
  <1>11. CASE ApiRestart
    <2>1. open' = {}
      BY <1>11 DEF ApiRestart
    <2> QED
      BY <2>1 DEF ServedInv, NewestWins, ClosingAlone
  <1> QED
    BY <1>4, <1>5, <1>6, <1>7, <1>8, <1>9, <1>10, <1>11 DEF Next, Bridge, Fault, Api

\* "Neuere gewinnt": served in the order of the connections, an open connection that got its
\* welcome is the one the hub holds, whatever the closing of the old socket, crashes and
\* failed writes do in between.
THEOREM NewestConnection == ~LateHello => (Spec => []NewestWins)
  <1> SUFFICES ASSUME ~LateHello PROVE Spec => []NewestWins
    OBVIOUS
  <1>1. Init => ServedInv
    BY DEF Init, ServedInv, NewestWins, ClosingAlone
  <1>2. TypeOK /\ ServedInv /\ [Next]_vars => ServedInv'
    BY ServedStep
  <1>3. ServedInv => NewestWins
    BY DEF ServedInv
  <1> QED
    BY <1>1, <1>2, <1>3, TypeCorrect, PTL DEF Spec
=============================================================================
