----------------------------- MODULE HouseProofs -----------------------------
(***************************************************************************)
(* Proofs about the actors and signals of the house, for every number of   *)
(* people, accesses and screens and every period and limit: DoorAccess,    *)
(* StoveControl, ShellyMeter, WatchNotify, LiveFeed and HeatPumpController *)
(* with its history.  The models share no state; each has a section with   *)
(* an inductive invariant of its own.                                      *)
(***************************************************************************)
EXTENDS HeatPumpHistory, DoorAccess, StoveControl, ShellyMeter, LiveFeed, WatchNotify,
        FiniteSetTheorems, SequenceTheorems, TLAPS

----------------------------------------------------------------------------
(***************************************************************************)
(* Proofs about DoorAccess, for every number of people and accesses and    *)
(* every limit: the types, and that the door opens rightly.                *)
(*                                                                         *)
(* While an opening is awaited the access it was decided for keeps what    *)
(* the decision rested on: it is welcome, it has aged by the time since    *)
(* the decision, and its person is not locked.  LockBehind relates what    *)
(* the gate notes, the instant of the decision, to the instant at which    *)
(* the latch was pulled.                                                   *)
(***************************************************************************)

Come == {i \in Accesses : access[i] # NoAccess}

\* The stream holds what came and what was sent again.
StreamBound == Len(stream) <= repeats + Cardinality(Come)

\* What the decision that is being carried out rested on.
DecisionStands ==
  serving # 0 =>
    /\ access[serving].welcome
    /\ access[serving].age <= MaxEventAge + taken
    /\ lastOpen[access[serving].who] >= RepeatLock

\* The gate counts from the decision, at most LockTimeout before the opening.
LockBehind == \A p \in People : lastOpen[p] <= sinceGood[p] + LockTimeout

DoorInv == DoorTypeOK /\ StreamBound /\ DecisionStands /\ LockBehind

----------------------------------------------------------------------------
(* Ages *)

\* The limits of the door are numbers.
LEMMA DoorNumbers ==
  /\ RepeatLock \in Nat /\ MaxEventAge \in Nat /\ LockTimeout \in Nat /\ Repeats \in Nat
  /\ LockTimeout <= RepeatLock
  /\ Long \in Nat /\ Long > RepeatLock /\ Long > MaxEventAge + LockTimeout
  /\ Accesses \subseteq Nat \ {0} /\ IsFiniteSet(Accesses) /\ "nobody" \notin People
  <1>1. /\ RepeatLock \in Nat /\ MaxEventAge \in Nat /\ LockTimeout \in Nat /\ Repeats \in Nat
        /\ LockTimeout <= RepeatLock
        /\ Accesses \subseteq Nat \ {0} /\ IsFiniteSet(Accesses) /\ "nobody" \notin People
    BY DoorAssumption
  <1> QED
    BY <1>1 DEF Long

\* An age grows by one, up to Long, and never beyond what it was by more.
LEMMA LongerFacts ==
  ASSUME NEW a \in 0..Long
  PROVE  Longer(a) \in 0..Long /\ Longer(a) >= a /\ Longer(a) <= a + 1 /\ (a < Long => Longer(a) = a + 1)
  BY DoorNumbers DEF Longer

\* Setting a field to what it is changes nothing.
LEMMA SameAge ==
  ASSUME NEW w, NEW b, NEW a
  PROVE  [[who |-> w, welcome |-> b, age |-> a] EXCEPT !.age = a] = [who |-> w, welcome |-> b, age |-> a]
  BY SMT

\* Nobody has come, however long ago.
LEMMA NobodyAges ==
  ASSUME NEW x, x = NoAccess
  PROVE  [x EXCEPT !.age = Longer(@)] = NoAccess
  <1>1. x = [who |-> x.who, welcome |-> x.welcome, age |-> x.age] /\ x.age = Long
    BY DEF NoAccess
  <1>2. Longer(Long) = Long
    BY DoorNumbers DEF Longer
  <1>3. [x EXCEPT !.age = Long] = x
    BY <1>1, SameAge
  <1> QED
    BY <1>1, <1>2, <1>3

\* Somebody who has come is one of the people.
LEMMA WhoCame ==
  ASSUME DoorTypeOK, NEW i \in Accesses, access[i] # NoAccess
  PROVE  access[i] \in [who : People, welcome : BOOLEAN, age : 0..Long]
  BY DEF DoorTypeOK

\* Those who are welcome have come.
LEMMA WelcomeCame ==
  ASSUME DoorTypeOK, NEW i \in Accesses, access[i].welcome
  PROVE  access[i] # NoAccess
  BY DEF NoAccess

\* The number of those who came is a number, at most the number of accesses.
LEMMA ComeFacts ==
  /\ IsFiniteSet(Come) /\ Cardinality(Come) \in Nat /\ Cardinality(Accesses) \in Nat
  /\ Cardinality(Come) <= Cardinality(Accesses)
  <1>1. Come \subseteq Accesses
    BY DEF Come
  <1>2. IsFiniteSet(Come) /\ Cardinality(Come) <= Cardinality(Accesses)
    BY <1>1, DoorNumbers, FS_Subset
  <1> QED
    BY <1>2, DoorNumbers, FS_CardinalityType

----------------------------------------------------------------------------
(* The invariant is kept *)

LEMMA DoorInitInv == DoorInit => DoorInv
  <1> SUFFICES ASSUME DoorInit PROVE DoorInv
    OBVIOUS
  <1>1. DoorTypeOK
    <2>1. stream \in Seq(Accesses) /\ Len(stream) = 0
      BY DEF DoorInit
    <2>2. Len(stream) <= Repeats + Cardinality(Accesses)
      BY <2>1, DoorNumbers, ComeFacts
    <2>3. lastOpen \in [People -> 0..Long] /\ sinceGood \in [People -> 0..Long] /\ taken \in 0..LockTimeout
      BY DoorNumbers DEF DoorInit
    <2>4. console \in BOOLEAN /\ latched \in BOOLEAN /\ reachable \in BOOLEAN
      BY Zenon DEF DoorInit
    <2>5. repeats \in 0..Repeats
      BY DoorNumbers DEF DoorInit
    <2> QED
      BY <2>1, <2>2, <2>3, <2>4, <2>5 DEF DoorInit, DoorTypeOK
  <1>2. StreamBound
    <2>1. Len(stream) = 0 /\ repeats = 0
      BY DEF DoorInit
    <2> QED
      BY <2>1, ComeFacts DEF StreamBound
  <1>3. DecisionStands /\ LockBehind
    BY DoorNumbers DEF DoorInit, DecisionStands, LockBehind
  <1> QED
    BY <1>1, <1>2, <1>3 DEF DoorInv

LEMMA SomebodyComesInv ==
  ASSUME DoorInv, NEW i \in Accesses, NEW p \in People, NEW w \in BOOLEAN, SomebodyComes(i, p, w)
  PROVE  DoorInv'
  <1> USE DEF DoorInv
  <1> DEFINE new == [who |-> p, welcome |-> w, age |-> 0]
  <1>1. new \in [who : People, welcome : BOOLEAN, age : 0..Long] /\ new # NoAccess
    BY DoorNumbers DEF NoAccess
  <1>2. access' \in [Accesses -> [who : People, welcome : BOOLEAN, age : 0..Long] \cup {NoAccess}]
    BY <1>1 DEF DoorTypeOK, SomebodyComes
  <1>3. Come' = Come \cup {i} /\ i \notin Come
    BY <1>1, <1>2 DEF Come, SomebodyComes, DoorTypeOK
  <1>4. Cardinality(Come') = Cardinality(Come) + 1
    BY <1>3, ComeFacts, FS_AddElement
  <1>5. /\ stream' \in Seq(Accesses) /\ Len(stream') \in Nat /\ Len(stream') <= Len(stream) + 1
        /\ Len(stream) \in Nat
    BY DEF DoorTypeOK, SomebodyComes
  <1>6. StreamBound'
    BY <1>4, <1>5, ComeFacts DEF StreamBound, SomebodyComes, DoorTypeOK
  <1>7. DoorTypeOK'
    <2>1. Cardinality(Come') <= Cardinality(Accesses) /\ Cardinality(Come') \in Nat
      BY ComeFacts, <1>4, <1>3, DoorNumbers, FS_Subset, FS_CardinalityType DEF Come
    <2>2. Len(stream') <= Repeats + Cardinality(Accesses)
      BY <1>5, <1>6, <2>1, ComeFacts, DoorNumbers DEF StreamBound, SomebodyComes, DoorTypeOK
    <2> QED
      BY <1>2, <1>5, <2>2 DEF DoorTypeOK, SomebodyComes, latchVars
  <1>8. DecisionStands'
    <2>1. serving # 0 => serving # i
      BY DEF DecisionStands, SomebodyComes, NoAccess
    <2> QED
      BY <2>1 DEF DecisionStands, SomebodyComes, latchVars, DoorTypeOK
  <1>9. LockBehind'
    BY DEF LockBehind, SomebodyComes, latchVars
  <1> QED
    BY <1>6, <1>7, <1>8, <1>9

\* The stream of an action that leaves the accesses alone stays within its bound.
LEMMA StreamStays ==
  ASSUME DoorInv, UNCHANGED access, stream' \in Seq(Accesses), repeats' \in 0..Repeats,
         Len(stream') - repeats' <= Len(stream) - repeats
  PROVE  StreamBound' /\ Len(stream') <= Repeats + Cardinality(Accesses)
  <1>1. Come' = Come
    BY DEF Come
  <1>2. Len(stream) \in Nat /\ Len(stream') \in Nat /\ repeats \in Nat
    BY DoorNumbers DEF DoorInv, DoorTypeOK
  <1> QED
    BY <1>1, <1>2, ComeFacts, DoorNumbers DEF StreamBound, DoorInv

LEMMA StreamActionsInv ==
  ASSUME DoorInv,
         (\E i \in Accesses : SendsAgain(i)) \/ ConsoleLost \/ ConsoleBack \/ Probe
  PROVE  DoorInv'
  <1> USE DEF DoorInv
  <1>1. Len(stream) \in Nat /\ stream \in Seq(Accesses) /\ repeats \in 0..Repeats /\ repeats \in Nat
    BY DoorNumbers DEF DoorTypeOK
  <1>2. /\ UNCHANGED access /\ stream' \in Seq(Accesses) /\ repeats' \in 0..Repeats
        /\ Len(stream') - repeats' <= Len(stream) - repeats
    <2>1. CASE \E i \in Accesses : SendsAgain(i)
      BY <1>1, <2>1, DoorNumbers DEF SendsAgain
    <2>2. CASE ConsoleLost
      BY <1>1, <2>2 DEF ConsoleLost
    <2>3. CASE ConsoleBack \/ Probe
      BY <1>1, <2>3 DEF ConsoleBack, Probe, consoleVars
    <2> QED
      BY <2>1, <2>2, <2>3
  <1>3. UNCHANGED <<lastOpen, latchVars>> /\ console' \in BOOLEAN /\ reachable' \in BOOLEAN
    BY DEF SendsAgain, ConsoleLost, ConsoleBack, Probe, consoleVars, DoorTypeOK
  <1>4. StreamBound' /\ Len(stream') <= Repeats + Cardinality(Accesses)
    BY <1>2, StreamStays
  <1>5. DoorTypeOK'
    BY <1>2, <1>3, <1>4 DEF DoorTypeOK, latchVars
  <1>6. DecisionStands' /\ LockBehind'
    BY <1>2, <1>3 DEF DecisionStands, LockBehind, latchVars
  <1> QED
    BY <1>4, <1>5, <1>6

LEMMA HandleAccessInv ==
  ASSUME DoorInv, HandleAccess
  PROVE  DoorInv'
  <1> USE DEF DoorInv
  <1>1. Len(stream) \in Nat /\ stream \in Seq(Accesses) /\ stream # <<>> /\ repeats \in 0..Repeats /\ repeats \in Nat
    BY DoorNumbers DEF DoorTypeOK, HandleAccess
  <1>2. Head(stream) \in Accesses /\ stream' \in Seq(Accesses) /\ Len(stream') = Len(stream) - 1
    BY <1>1 DEF HandleAccess
  <1>3. StreamBound' /\ Len(stream') <= Repeats + Cardinality(Accesses)
    BY <1>1, <1>2, StreamStays DEF HandleAccess
  <1>4. DoorTypeOK'
    BY <1>2, <1>3, DoorNumbers DEF DoorTypeOK, HandleAccess
  <1>5. LockBehind'
    BY DEF LockBehind, HandleAccess
  <1>6. DecisionStands'
    <2>1. CASE ~LetsIn(Head(stream))
      BY <2>1 DEF HandleAccess, DecisionStands
    <2>2. CASE LetsIn(Head(stream))
      <3>1. access[Head(stream)] \in [who : People, welcome : BOOLEAN, age : 0..Long]
        BY <1>2, <2>2, WhoCame, WelcomeCame DEF LetsIn
      <3>2. lastOpen[access[Head(stream)].who] \in 0..Long
        BY <3>1 DEF DoorTypeOK
      <3> QED
        BY <1>2, <2>2, <3>1, <3>2, DoorNumbers DEF HandleAccess, DecisionStands, LetsIn, FreshEvent, Locked
    <2> QED
      BY <2>1, <2>2
  <1> QED
    BY <1>3, <1>4, <1>5, <1>6

LEMMA LatchActionsInv ==
  ASSUME DoorInv, PullLatch \/ Opened \/ OpeningFails
  PROVE  DoorInv'
  <1> USE DEF DoorInv
  <1>1. UNCHANGED <<access, stream, repeats, console, reachable>>
    BY DEF PullLatch, Opened, OpeningFails, consoleVars
  <1>2. StreamBound' /\ Come' = Come
    BY <1>1 DEF StreamBound, Come
  <1>3. serving \in Accesses /\ access[serving].welcome
    BY DEF PullLatch, Opened, OpeningFails, DoorTypeOK, DecisionStands
  <1>4. access[serving].who \in People
    BY <1>3, WhoCame, WelcomeCame
  <1>5. CASE PullLatch
    <2>1. DoorTypeOK'
      BY <1>1, <1>3, <1>5 DEF DoorTypeOK, PullLatch
    <2> QED
      BY <1>1, <1>2, <1>5, <2>1 DEF PullLatch, DecisionStands, LockBehind
  <1>6. CASE Opened
    <2>1. taken \in 0..LockTimeout /\ taken \in 0..Long /\ 0 \in 0..Long /\ 0 \in 0..LockTimeout
      BY DoorNumbers DEF DoorTypeOK
    <2>2. lastOpen' \in [People -> 0..Long] /\ sinceGood' \in [People -> 0..Long]
      BY <1>4, <1>6, <2>1 DEF Opened, NoteOpen, DoorTypeOK
    <2>3. DoorTypeOK'
      BY <1>1, <1>6, <2>1, <2>2 DEF DoorTypeOK, Opened
    <2>4. LockBehind'
      BY <1>4, <1>6, <2>1, DoorNumbers DEF LockBehind, Opened, NoteOpen, DoorTypeOK
    <2> QED
      BY <1>2, <1>6, <2>3, <2>4 DEF Opened, DecisionStands
  <1>7. CASE OpeningFails
    <2>1. /\ serving' = 0 /\ taken' = 0 /\ latched' = FALSE
          /\ UNCHANGED <<access, stream, repeats, console, reachable, lastOpen, pulls, sinceGood>>
      BY <1>1, <1>7 DEF OpeningFails
    <2>2. 0 \in 0..LockTimeout
      BY DoorNumbers
    <2>3. DoorTypeOK'
      BY <2>1, <2>2 DEF DoorTypeOK
    <2> QED
      BY <1>1, <1>2, <1>7, <2>3 DEF OpeningFails, DecisionStands, LockBehind
  <1> QED
    BY <1>5, <1>6, <1>7

LEMMA DoorTimeInv ==
  ASSUME DoorInv, DoorTime
  PROVE  DoorInv'
  <1> USE DEF DoorInv
  <1>1. \A i \in Accesses :
          /\ access'[i] = [access[i] EXCEPT !.age = Longer(@)]
          /\ access[i] # NoAccess =>
               /\ access'[i] \in [who : People, welcome : BOOLEAN, age : 0..Long]
               /\ access'[i] # NoAccess
          /\ access[i] = NoAccess => access'[i] = NoAccess
    <2> SUFFICES ASSUME NEW i \in Accesses
                 PROVE  /\ access'[i] = [access[i] EXCEPT !.age = Longer(@)]
                        /\ access[i] # NoAccess =>
                             /\ access'[i] \in [who : People, welcome : BOOLEAN, age : 0..Long]
                             /\ access'[i] # NoAccess
                        /\ access[i] = NoAccess => access'[i] = NoAccess
      OBVIOUS
    <2>1. access'[i] = [access[i] EXCEPT !.age = Longer(@)]
      BY DEF DoorTime
    <2>2. CASE access[i] # NoAccess
      <3>1. access[i] \in [who : People, welcome : BOOLEAN, age : 0..Long]
        BY <2>2, WhoCame
      <3>2. Longer(access[i].age) \in 0..Long
        BY <3>1, LongerFacts
      <3>3. access'[i] \in [who : People, welcome : BOOLEAN, age : 0..Long]
        BY <2>1, <3>1, <3>2
      <3> QED
        BY <2>1, <2>2, <3>3, DoorNumbers DEF NoAccess
    <2>3. CASE access[i] = NoAccess
      BY <2>1, <2>3, NobodyAges
    <2> QED
      BY <2>1, <2>2, <2>3
  <1>2. access' \in [Accesses -> [who : People, welcome : BOOLEAN, age : 0..Long] \cup {NoAccess}]
    <2>1. DOMAIN access' = Accesses /\ access' = [i \in Accesses |-> access'[i]]
      BY DEF DoorTime
    <2> QED
      BY <1>1, <2>1
  <1>3. Come' = Come
    BY <1>1 DEF Come
  <1>4. \A p \in People : /\ lastOpen[p] \in 0..Long /\ sinceGood[p] \in 0..Long
                          /\ lastOpen'[p] = Longer(lastOpen[p]) /\ sinceGood'[p] = Longer(sinceGood[p])
    BY DEF DoorTime, DoorTypeOK
  <1>5. lastOpen' \in [People -> 0..Long] /\ sinceGood' \in [People -> 0..Long]
    BY <1>4, LongerFacts DEF DoorTime
  <1>6. DoorTypeOK'
    <2>1. taken' \in 0..LockTimeout
      BY DoorNumbers DEF DoorTime, DoorTypeOK
    <2> QED
      BY <1>2, <1>5, <2>1 DEF DoorTime, DoorTypeOK
  <1>7. StreamBound'
    BY <1>3 DEF StreamBound, DoorTime
  <1>8. LockBehind'
    BY <1>4, DoorNumbers DEF LockBehind, Longer
  <1>9. DecisionStands'
    <2> SUFFICES ASSUME serving # 0
                 PROVE  /\ access'[serving].welcome
                        /\ access'[serving].age <= MaxEventAge + taken'
                        /\ lastOpen'[access'[serving].who] >= RepeatLock
      BY DEF DecisionStands, DoorTime
    <2>1. serving \in Accesses /\ access[serving] # NoAccess
      BY WelcomeCame DEF DoorTypeOK, DecisionStands
    <2>2. access[serving] \in [who : People, welcome : BOOLEAN, age : 0..Long]
      BY <2>1, WhoCame
    <2>3. access'[serving] = [access[serving] EXCEPT !.age = Longer(@)]
      BY <1>1, <2>1
    <2>4. /\ access'[serving].welcome = access[serving].welcome
          /\ access'[serving].who = access[serving].who
          /\ access'[serving].age = Longer(access[serving].age)
      BY <2>2, <2>3
    <2>5. access'[serving].age <= MaxEventAge + taken'
      <3>1. taken' = taken + 1 /\ taken \in Nat
        BY DoorNumbers DEF DoorTime, DoorTypeOK
      <3>2. access[serving].age \in 0..Long /\ access[serving].age <= MaxEventAge + taken
        BY <2>2 DEF DecisionStands
      <3> QED
        BY <2>4, <3>1, <3>2, LongerFacts, DoorNumbers
    <2>6. lastOpen'[access'[serving].who] >= RepeatLock
      <3>1. lastOpen[access[serving].who] \in 0..Long /\ lastOpen[access[serving].who] >= RepeatLock
        BY <1>4, <2>2 DEF DecisionStands
      <3>2. lastOpen'[access'[serving].who] = Longer(lastOpen[access[serving].who])
        BY <1>4, <2>2, <2>4
      <3> QED
        BY <3>1, <3>2, LongerFacts, DoorNumbers
    <2> QED
      BY <2>4, <2>5, <2>6 DEF DecisionStands
  <1> QED
    BY <1>6, <1>7, <1>8, <1>9

LEMMA DoorInvInductive == DoorInv /\ [DoorNext]_doorVars => DoorInv'
  <1> SUFFICES ASSUME DoorInv, [DoorNext]_doorVars PROVE DoorInv'
    OBVIOUS
  <1>1. CASE UNCHANGED doorVars
    BY <1>1 DEF DoorInv, DoorTypeOK, StreamBound, Come, DecisionStands, LockBehind, doorVars
  <1>2. ASSUME NEW i \in Accesses, NEW p \in People, NEW w \in BOOLEAN, SomebodyComes(i, p, w)
        PROVE  DoorInv'
    BY <1>2, SomebodyComesInv
  <1>3. ASSUME NEW i \in Accesses, SendsAgain(i)
        PROVE  DoorInv'
    BY <1>3, StreamActionsInv
  <1>4. CASE ConsoleLost \/ ConsoleBack \/ Probe
    BY <1>4, StreamActionsInv
  <1>6. CASE HandleAccess
    BY <1>6, HandleAccessInv
  <1>7. CASE PullLatch \/ Opened \/ OpeningFails
    BY <1>7, LatchActionsInv
  <1>8. CASE DoorTime
    BY <1>8, DoorTimeInv
  <1> QED
    BY <1>1, <1>2, <1>3, <1>4, <1>6, <1>7, <1>8 DEF DoorNext

----------------------------------------------------------------------------
\* The invariant holds throughout.
LEMMA DoorInvAlways == DoorSpec => []DoorInv
  BY DoorInitInv, DoorInvInductive, PTL DEF DoorSpec

\* Every variable of the door keeps its type, and the stream its bound.
THEOREM DoorTypes == DoorSpec => []DoorTypeOK
  BY DoorInvAlways, PTL DEF DoorInv

\* Only PullLatch pulls the latch, for the access that is being served.
LEMMA LatchPulledFor ==
  ASSUME DoorInv, [DoorNext]_doorVars, NEW i \in Accesses, pulls'[i] # pulls[i]
  PROVE  i = serving /\ serving # 0
  <1>1. PullLatch
    BY DEF DoorNext, doorVars, latchVars, SomebodyComes, SendsAgain, ConsoleLost, ConsoleBack,
           HandleAccess, Opened, OpeningFails, Probe, DoorTime
  <1> QED
    BY <1>1 DEF PullLatch, DoorInv, DoorTypeOK

\* DoorGate.decide: nobody whom the policy refuses is let in, nobody late, and nobody
\* again before REPEAT_LOCK_S are over, however the events and the answers of the lock
\* are delayed, repeated or lost.
THEOREM DoorOpensRightly == DoorSpec => OpensRightly
  <1>1. DoorInv /\ [DoorNext]_doorVars =>
          [\A i \in Accesses : pulls'[i] # pulls[i] =>
             access[i].welcome /\ access[i].age <= MaxEventAge + LockTimeout]_doorVars
    <2> SUFFICES ASSUME DoorInv, [DoorNext]_doorVars, NEW i \in Accesses, pulls'[i] # pulls[i]
                 PROVE  access[i].welcome /\ access[i].age <= MaxEventAge + LockTimeout
      OBVIOUS
    <2>1. i = serving /\ serving # 0
      BY LatchPulledFor
    <2>2. access[i].welcome /\ access[i].age <= MaxEventAge + taken
      BY <2>1 DEF DoorInv, DecisionStands
    <2>3. access[i].age \in 0..Long
      BY <2>2, WhoCame, WelcomeCame DEF DoorInv
    <2> QED
      BY <2>2, <2>3, DoorNumbers DEF DoorInv, DoorTypeOK
  <1>2. DoorInv /\ [DoorNext]_doorVars =>
          [\A i \in Accesses : pulls'[i] # pulls[i] =>
             sinceGood[access[i].who] + LockTimeout >= RepeatLock]_doorVars
    <2> SUFFICES ASSUME DoorInv, [DoorNext]_doorVars, NEW i \in Accesses, pulls'[i] # pulls[i]
                 PROVE  sinceGood[access[i].who] + LockTimeout >= RepeatLock
      OBVIOUS
    <2>1. i = serving /\ serving # 0
      BY LatchPulledFor
    <2>2. access[i].welcome /\ lastOpen[access[i].who] >= RepeatLock
      BY <2>1 DEF DoorInv, DecisionStands
    <2>3. access[i].who \in People
      BY <2>2, WhoCame, WelcomeCame DEF DoorInv
    <2> QED
      BY <2>2, <2>3, DoorNumbers DEF DoorInv, DoorTypeOK, LockBehind
  <1> QED
    BY <1>1, <1>2, DoorInvAlways, PTL DEF DoorSpec, OpensRightly, NoLateOpening, OpensApart

----------------------------------------------------------------------------
(***************************************************************************)
(* Proofs about StoveControl, for every hold, every duration of a setting  *)
(* by hand and any number of restarts: the types, that a setting by hand   *)
(* holds, and that the planner keeps the stove's times of rest.            *)
(*                                                                         *)
(* Both rest on what can be on the line together: a command of a person    *)
(* and one of the planner at most, and one that the planner gave without   *)
(* knowing of a person's is ahead of it.  So the clocks of the program and *)
(* of the stove differ only while a person's command is unanswered.        *)
(***************************************************************************)

\* One command of a person and one of the planner at most.
OneEach ==
  \A i, j \in DOMAIN orders : (orders[i].by = "person") = (orders[j].by = "person") => i = j

\* The planner that knows of no other command is the first.
PlannerFirst == \A i \in DOMAIN orders : orders[i].by = "planner" => i = 1

\* Commands are carried out in order.
InOrder == \A i, j \in DOMAIN orders : i < j /\ orders[j].done => orders[i].done

\* After a person's command, and while a setting lasts, the planner has not spoken.
HandSpokeLast ==
  /\ \A i \in DOMAIN orders : orders[i].by = "person" /\ orders[i].done => lastWord # "planner"
  /\ endsIn > 0 => lastWord # "planner" /\ \A i \in DOMAIN orders : orders[i].by # "planner"

\* The hold runs from the last command of the planner, or from the last of a person whose
\* answer is not awaited any more.
HoldMeasured ==
  /\ \A i \in DOMAIN orders : orders[i].by # "person" => switchedAgo = 0
  /\ \/ sinceSwitch >= switchedAgo
     \/ \E i \in DOMAIN orders : orders[i].by = "person" /\ orders[i].done

RestBefore(to) == IF to = "off" THEN MinRuntime ELSE MinOfftime

\* What the planner has decided and the stove has not done keeps the time of rest.
RestKept ==
  \A i \in DOMAIN orders :
    orders[i].by = "planner" /\ ~orders[i].done => sinceSwitch >= RestBefore(orders[i].to)

StoveInv == StoveTypeOK /\ OneEach /\ PlannerFirst /\ InOrder /\ HandSpokeLast /\ HoldMeasured /\ RestKept

Orders == [by : Senders, to : OnOff, done : BOOLEAN]

----------------------------------------------------------------------------
(* The line *)

\* The limits of the stove are numbers.
LEMMA StoveNumbers ==
  /\ MinRuntime \in Nat /\ MinOfftime \in Nat /\ StoveRestarts \in Nat /\ HandFor \in Nat \ {0}
  /\ StoveAges \in Nat /\ StoveAges > MinRuntime /\ StoveAges > MinOfftime
  <1>1. MinRuntime \in Nat /\ MinOfftime \in Nat /\ StoveRestarts \in Nat /\ HandFor \in Nat \ {0}
    BY StoveAssumption
  <1> QED
    BY <1>1 DEF StoveAges

\* The commands on the line, one by one.
LEMMA LineFacts ==
  ASSUME StoveInv
  PROVE  /\ orders \in Seq(Orders) /\ Len(orders) \in 0..2 /\ DOMAIN orders = 1..Len(orders)
         /\ \A i \in DOMAIN orders : orders[i] \in Orders
  <1>1. orders \in Seq(Orders) /\ Len(orders) <= 2
    BY DEF StoveInv, StoveTypeOK, Orders
  <1>2. Len(orders) \in Nat /\ DOMAIN orders = 1..Len(orders)
    BY <1>1, LenProperties
  <1> QED
    BY <1>1, <1>2, ElementOfSeq

\* A command that is appended to the line.
LEMMA AppendFacts ==
  ASSUME StoveInv, NEW o \in Orders
  PROVE  LET line == Append(orders, o) IN
         /\ line \in Seq(Orders) /\ Len(line) = Len(orders) + 1 /\ DOMAIN line = 1..(Len(orders) + 1)
         /\ \A i \in DOMAIN orders : line[i] = orders[i]
         /\ line[Len(orders) + 1] = o
  BY LineFacts

\* The line without its first command.
LEMMA TailFacts ==
  ASSUME StoveInv, orders # <<>>
  PROVE  LET line == Tail(orders) IN
         /\ line \in Seq(Orders) /\ Len(line) = Len(orders) - 1 /\ DOMAIN line = 1..(Len(orders) - 1)
         /\ \A i \in DOMAIN line : i + 1 \in DOMAIN orders /\ line[i] = orders[i + 1]
         /\ Head(orders) = orders[1] /\ 1 \in DOMAIN orders
  BY LineFacts

\* With one command of each there are two at most.
LEMMA TwoAtMost ==
  ASSUME NEW line \in Seq(Orders),
         \A i, j \in DOMAIN line : (line[i].by = "person") = (line[j].by = "person") => i = j
  PROVE  Len(line) <= 2
  <1> SUFFICES ASSUME Len(line) > 2 PROVE FALSE
    OBVIOUS
  <1>1. 1 \in DOMAIN line /\ 2 \in DOMAIN line /\ 3 \in DOMAIN line
    OBVIOUS
  <1> QED
    BY <1>1

----------------------------------------------------------------------------
(* The invariant is kept *)

LEMMA StoveInitInv == StoveInit => StoveInv
  <1> SUFFICES ASSUME StoveInit PROVE StoveInv
    OBVIOUS
  <1>1. orders \in Seq(Orders) /\ Len(orders) = 0 /\ DOMAIN orders = {}
    BY DEF StoveInit
  <1>2. burning \in BOOLEAN /\ maestro \in BOOLEAN
    BY Zenon DEF StoveInit
  <1>3. StoveTypeOK
    BY <1>1, <1>2, StoveNumbers DEF StoveInit, StoveTypeOK, Orders, OnOff
  <1>4. endsIn = 0 /\ sinceSwitch = switchedAgo /\ switchedAgo \in Nat
    BY StoveNumbers DEF StoveInit
  <1> QED
    BY <1>1, <1>3, <1>4
    DEF StoveInv, OneEach, PlannerFirst, InOrder, HandSpokeLast, HoldMeasured, RestKept

\* What the planner decides keeps the hold, and is told apart from a decision that
\* crosses a person's.
LEMMA ApplyStovePlanInv ==
  ASSUME StoveInv, ApplyStovePlan
  PROVE  StoveInv'
  <1> DEFINE o == Order(IF Waits("person") THEN "crossing" ELSE "planner", stovePlan)
             n == Len(orders) + 1
  <1>1. o \in Orders /\ o.by # "person" /\ o.done = FALSE /\ o.to = stovePlan
        /\ (o.by = "planner" <=> ~Waits("person"))
    BY DEF ApplyStovePlan, PlannerSwitches, StoveInv, StoveTypeOK, Orders, Order, Senders
  <1>2. \A i \in DOMAIN orders : orders[i].by = "person"
    BY LineFacts DEF ApplyStovePlan, Waits, Orders, Senders
  <1> HIDE DEF o
  <1>3. orders' = Append(orders, o)
    BY DEF ApplyStovePlan, o
  <1>4. /\ orders' \in Seq(Orders) /\ DOMAIN orders' = 1..n /\ n \in Nat /\ DOMAIN orders = 1..(n - 1)
        /\ \A i \in DOMAIN orders : orders'[i] = orders[i]
        /\ orders'[n] = o
    BY <1>1, <1>3, AppendFacts, LineFacts
  <1>5. OneEach'
    BY <1>1, <1>2, <1>4 DEF StoveInv, OneEach
  <1>6. StoveTypeOK'
    <2>1. Len(orders') <= 2
      BY <1>4, <1>5, TwoAtMost DEF OneEach
    <2>2. switchedAgo' = 0 /\ 0 \in 0..StoveAges
      BY StoveNumbers DEF ApplyStovePlan
    <2> QED
      BY <1>4, <2>1, <2>2 DEF StoveInv, StoveTypeOK, ApplyStovePlan, stoveWorld, stoveHand, Orders
  <1>7. o.by = "planner" => n = 1
    BY <1>1, <1>2, <1>4 DEF Waits
  <1>8. PlannerFirst' /\ InOrder'
    BY <1>1, <1>2, <1>4, <1>7 DEF StoveInv, PlannerFirst, InOrder
  <1>9. endsIn = 0 /\ UNCHANGED <<endsIn, lastWord, sinceSwitch>> /\ switchedAgo' = 0
    BY DEF ApplyStovePlan, PlannerSwitches, StoveInv, StoveTypeOK, stoveWorld, stoveHand, OnOff
  <1>10. HandSpokeLast'
    BY <1>1, <1>4, <1>9 DEF StoveInv, HandSpokeLast
  <1>11. sinceSwitch \in 0..StoveAges /\ switchedAgo \in 0..StoveAges
    BY DEF StoveInv, StoveTypeOK
  <1>12. HoldMeasured'
    BY <1>9, <1>11 DEF HoldMeasured
  <1>13. RestKept'
    <2>1. ASSUME o.by = "planner" PROVE sinceSwitch >= RestBefore(stovePlan)
      <3>1. DOMAIN orders = {}
        BY <1>4, <1>7, <2>1
      <3>2. sinceSwitch >= switchedAgo
        BY <3>1 DEF StoveInv, HoldMeasured
      <3>3. switchedAgo >= RestBefore(stovePlan)
        BY DEF ApplyStovePlan, PlannerSwitches, OverHold, RestBefore, StoveInv, StoveTypeOK, OnOff
      <3>4. RestBefore(stovePlan) \in Nat
        BY StoveNumbers DEF RestBefore
      <3> QED
        BY <1>11, <3>2, <3>3, <3>4, StoveNumbers
    <2> QED
      BY <1>1, <1>2, <1>4, <1>9, <2>1 DEF RestKept
  <1> QED
    BY <1>5, <1>6, <1>8, <1>10, <1>12, <1>13 DEF StoveInv

LEMMA SetStoveInv ==
  ASSUME StoveInv, NEW to \in OnOff, SetStove(to)
  PROVE  StoveInv'
  <1> DEFINE o == Order("person", to)
             n == Len(orders) + 1
  <1>1. o \in Orders /\ o.by = "person" /\ o.done = FALSE
    BY DEF Orders, Order, Senders
  <1>2. \A i \in DOMAIN orders : orders[i].by # "person"
    BY DEF SetStove, Waits
  <1> HIDE DEF o
  <1>3. orders' = Append(orders, o)
    BY DEF SetStove, o
  <1>4. /\ orders' \in Seq(Orders) /\ DOMAIN orders' = 1..n /\ n \in Nat /\ DOMAIN orders = 1..(n - 1)
        /\ \A i \in DOMAIN orders : orders'[i] = orders[i]
        /\ orders'[n] = o
    BY <1>1, <1>3, AppendFacts, LineFacts
  <1>5. OneEach'
    BY <1>1, <1>2, <1>4 DEF StoveInv, OneEach
  <1>6. UNCHANGED <<burning, maestro, stoveSeen, stoveMode, endsIn, switchedAgo, stovePlan, stoveRestarts,
                    sinceSwitch, lastWord>>
    BY DEF SetStove, stoveWorld, stoveHand
  <1>7. StoveTypeOK'
    <2>1. Len(orders') <= 2
      BY <1>4, <1>5, TwoAtMost DEF OneEach
    <2> QED
      BY <1>4, <1>6, <2>1 DEF StoveInv, StoveTypeOK, Orders
  <1>8. PlannerFirst' /\ InOrder'
    BY <1>1, <1>2, <1>4 DEF StoveInv, PlannerFirst, InOrder
  <1>9. HandSpokeLast' /\ HoldMeasured' /\ RestKept'
    BY <1>1, <1>2, <1>4, <1>6 DEF StoveInv, HandSpokeLast, HoldMeasured, RestKept
  <1> QED
    BY <1>5, <1>7, <1>8, <1>9 DEF StoveInv

\* The oldest command leaves the line with its answer.
LEMMA ReplyInv ==
  ASSUME StoveInv, NEW ok \in BOOLEAN, Reply(ok)
  PROVE  StoveInv'
  <1> DEFINE n == Len(orders)
             o == orders[1]
  <1>1. /\ orders' \in Seq(Orders) /\ n \in 1..2 /\ DOMAIN orders = 1..n /\ DOMAIN orders' = 1..(n - 1)
        /\ \A i \in DOMAIN orders' : i + 1 \in DOMAIN orders /\ orders'[i] = orders[i + 1]
        /\ Head(orders) = o /\ o \in Orders /\ Len(orders') = n - 1
    BY TailFacts, LineFacts DEF Reply
  <1>2. /\ ok => o.done
        /\ IF ok /\ o.by = "person" THEN stoveMode' = o.to /\ endsIn' = HandFor ELSE UNCHANGED stoveHand
        /\ switchedAgo' = IF ok /\ o.by = "person" THEN 0 ELSE switchedAgo
        /\ sinceSwitch' = IF o.by = "person" /\ ~ok THEN StoveAges ELSE sinceSwitch
        /\ UNCHANGED <<burning, maestro, lastWord, stoveSeen, stovePlan, stoveRestarts>>
    BY <1>1 DEF Reply, HoldRestarts
  <1> HIDE DEF n
  <1>3. switchedAgo' \in 0..StoveAges /\ sinceSwitch' \in 0..StoveAges
    BY <1>2, StoveNumbers DEF StoveInv, StoveTypeOK
  <1>4. StoveTypeOK'
    <2>1. /\ stoveMode' \in OnOff \cup {"auto"} /\ endsIn' \in 0..HandFor
          /\ (stoveMode' # "off" => (endsIn' = 0 <=> stoveMode' = "auto"))
      BY <1>1, <1>2, StoveNumbers DEF StoveInv, StoveTypeOK, stoveHand, Orders, OnOff
    <2> QED
      BY <1>1, <1>2, <1>3, <2>1 DEF StoveInv, StoveTypeOK, Orders
  <1>5. OneEach' /\ PlannerFirst' /\ InOrder'
    BY <1>1 DEF StoveInv, OneEach, PlannerFirst, InOrder
  <1>6. HandSpokeLast'
    BY <1>1, <1>2 DEF StoveInv, HandSpokeLast, PlannerFirst, stoveHand
  <1>7. HoldMeasured'
    <2>0. sinceSwitch \in 0..StoveAges /\ switchedAgo \in 0..StoveAges
      BY DEF StoveInv, StoveTypeOK
    <2>1. \A i \in DOMAIN orders' : orders'[i].by # "person" => switchedAgo' = 0
      BY <1>1, <1>2 DEF StoveInv, HoldMeasured
    <2>2. CASE o.by = "person"
      <3>1. sinceSwitch' >= switchedAgo'
        BY <1>2, <1>3, <2>0, <2>2, StoveNumbers
      <3> QED
        BY <2>1, <3>1 DEF HoldMeasured
    <2>3. CASE o.by # "person"
      <3>1. ASSUME NEW i \in DOMAIN orders, orders[i].by = "person", orders[i].done
            PROVE  \E j \in DOMAIN orders' : orders'[j].by = "person" /\ orders'[j].done
        <4>1. i # 1 /\ i \in 1..n
          BY <1>1, <2>3, <3>1
        <4>2. i - 1 \in DOMAIN orders' /\ orders'[i - 1] = orders[i]
          BY <1>1, <4>1
        <4> QED
          BY <3>1, <4>2
      <3> QED
        BY <1>2, <2>1, <2>3, <3>1 DEF StoveInv, HoldMeasured
    <2> QED
      BY <2>2, <2>3
  <1>8. RestKept'
    BY <1>1 DEF StoveInv, PlannerFirst, RestKept
  <1> QED
    BY <1>4, <1>5, <1>6, <1>7, <1>8 DEF StoveInv

\* The next command on the line is carried out.
LEMMA ObeyInv ==
  ASSUME StoveInv, Obey
  PROVE  StoveInv'
  <1>1. PICK i \in DOMAIN orders :
          /\ ~orders[i].done /\ \A j \in 1..i-1 : orders[j].done
          /\ orders' = [orders EXCEPT ![i].done = TRUE]
          /\ burning' = (orders[i].to = "on")
          /\ lastWord' = orders[i].by
    BY DEF Obey
  <1>2. sinceSwitch' = 0 /\ UNCHANGED <<maestro, stoveSeen, stoveMode, endsIn, switchedAgo, stovePlan, stoveRestarts>>
    BY DEF Obey, stoveHand
  <1>3. /\ orders' \in Seq(Orders) /\ DOMAIN orders' = DOMAIN orders /\ Len(orders') = Len(orders)
        /\ \A j \in DOMAIN orders : /\ orders'[j].by = orders[j].by /\ orders'[j].to = orders[j].to
                                    /\ orders'[j].done = (orders[j].done \/ j = i)
    <2>1. \A j \in DOMAIN orders : orders'[j] = IF j = i THEN [orders[j] EXCEPT !.done = TRUE] ELSE orders[j]
      BY <1>1
    <2>2. \A j \in DOMAIN orders : orders'[j] \in Orders
      BY <2>1, LineFacts DEF Orders
    <2>3. DOMAIN orders' = DOMAIN orders
      BY <1>1
    <2>4. orders' \in Seq(Orders) /\ Len(orders') = Len(orders)
      <3>1. [orders[i] EXCEPT !.done = TRUE] \in Orders
        BY <2>1, <2>2
      <3>2. orders' = [orders EXCEPT ![i] = [orders[i] EXCEPT !.done = TRUE]]
        BY <1>1
      <3> QED
        BY <3>1, <3>2, LineFacts, ExceptSeq
    <2> QED
      BY <2>1, <2>3, <2>4, LineFacts DEF Orders
  <1>4. DOMAIN orders = 1..Len(orders) /\ Len(orders) \in 0..2
    BY LineFacts
  <1>5. StoveTypeOK'
    <2>1. burning' \in BOOLEAN /\ maestro' \in BOOLEAN
      BY <1>1, <1>2 DEF StoveInv, StoveTypeOK
    <2> QED
      BY <1>2, <1>3, <2>1, StoveNumbers DEF StoveInv, StoveTypeOK, Orders
  <1>6. OneEach' /\ PlannerFirst'
    BY <1>3 DEF StoveInv, OneEach, PlannerFirst
  <1>7. InOrder'
    BY <1>1, <1>3, <1>4 DEF StoveInv, InOrder
  <1>8. HandSpokeLast'
    <2>1. ASSUME orders[i].by = "planner"
          PROVE  /\ endsIn = 0 \/ ~(endsIn > 0)
                 /\ \A j \in DOMAIN orders : orders[j].by = "person" => ~orders[j].done /\ j # i
      BY <1>1, <1>4, <2>1 DEF StoveInv, HandSpokeLast, PlannerFirst, InOrder
    <2> QED
      BY <1>1, <1>2, <1>3, <2>1 DEF StoveInv, HandSpokeLast
  <1>9. HoldMeasured'
    BY <1>1, <1>2, <1>3 DEF StoveInv, HoldMeasured
  <1>10. RestKept'
    BY <1>1, <1>3, <1>4 DEF StoveInv, RestKept, PlannerFirst
  <1> QED
    BY <1>5, <1>6, <1>7, <1>8, <1>9, <1>10 DEF StoveInv

\* A step that leaves the line, the clocks and the hand alone.
LEMMA ElsewhereInv ==
  ASSUME StoveInv, UNCHANGED <<orders, switchedAgo, sinceSwitch, endsIn, stoveMode, stoveRestarts>>,
         burning' \in BOOLEAN, maestro' \in BOOLEAN, stoveSeen' \in OnOff \cup {"unknown"},
         stovePlan' \in OnOff \cup {"none"}, lastWord' \in {lastWord, "nobody"}
  PROVE  StoveInv'
  <1>1. StoveTypeOK'
    BY DEF StoveInv, StoveTypeOK
  <1>2. OneEach' /\ PlannerFirst' /\ InOrder' /\ HoldMeasured' /\ RestKept'
    BY DEF StoveInv, OneEach, PlannerFirst, InOrder, HoldMeasured, RestKept
  <1>3. HandSpokeLast'
    BY DEF StoveInv, HandSpokeLast
  <1> QED
    BY <1>1, <1>2, <1>3 DEF StoveInv

\* An empty line.
LEMMA EmptyLineInv ==
  ASSUME StoveTypeOK', orders' = <<>>, endsIn' > 0 => lastWord' # "planner", sinceSwitch' >= switchedAgo'
  PROVE  StoveInv'
  <1>1. DOMAIN orders' = {}
    OBVIOUS
  <1> QED
    BY <1>1 DEF StoveInv, OneEach, PlannerFirst, InOrder, HandSpokeLast, HoldMeasured, RestKept

LEMMA StoveTimeInv ==
  ASSUME StoveInv, StoveTime
  PROVE  StoveInv'
  <1>1. orders = <<>> /\ orders' = <<>> /\ DOMAIN orders = {}
    BY DEF StoveTime
  <1>2. sinceSwitch \in 0..StoveAges /\ switchedAgo \in 0..StoveAges /\ endsIn \in 0..HandFor
    BY DEF StoveInv, StoveTypeOK
  <1>3. sinceSwitch >= switchedAgo
    BY <1>1 DEF StoveInv, HoldMeasured
  <1>4. sinceSwitch' \in 0..StoveAges /\ switchedAgo' \in 0..StoveAges /\ sinceSwitch' >= switchedAgo'
    BY <1>2, <1>3, StoveNumbers DEF StoveTime, StoveAged
  <1>5. endsIn' \in 0..HandFor /\ (endsIn' > 0 => endsIn > 0)
    BY <1>2, StoveNumbers DEF StoveTime
  <1>6. endsIn' > 0 => lastWord' # "planner"
    BY <1>5 DEF StoveTime, StoveInv, HandSpokeLast
  <1>7. /\ stoveMode' \in OnOff \cup {"auto"}
        /\ (stoveMode' # "off" => (endsIn' = 0 <=> stoveMode' = "auto"))
    BY <1>2, StoveNumbers DEF StoveTime, Lapsed, StoveInv, StoveTypeOK, OnOff
  <1>8. StoveTypeOK'
    BY <1>1, <1>4, <1>5, <1>7 DEF StoveTime, StoveInv, StoveTypeOK
  <1> QED
    BY <1>1, <1>4, <1>6, <1>8, EmptyLineInv

LEMMA RestartStoveInv ==
  ASSUME StoveInv, RestartStove
  PROVE  StoveInv'
  <1>1. burning' \in BOOLEAN /\ maestro' \in BOOLEAN
    BY DEF RestartStove, StoveInv, StoveTypeOK
  <1>2. orders' \in Seq(Orders) /\ Len(orders') = 0 /\ orders' = <<>>
    BY DEF RestartStove
  <1>3. stoveRestarts' \in 0..StoveRestarts
    BY StoveNumbers DEF RestartStove, StoveInv, StoveTypeOK
  <1>4. StoveTypeOK'
    BY <1>1, <1>2, <1>3, StoveNumbers DEF RestartStove, StoveTypeOK, Orders, OnOff
  <1>5. endsIn' = 0 /\ sinceSwitch' >= switchedAgo'
    BY StoveNumbers DEF RestartStove
  <1> QED
    BY <1>2, <1>4, <1>5, EmptyLineInv

LEMMA SetStoveAutoInv ==
  ASSUME StoveInv, SetStoveAuto
  PROVE  StoveInv'
  <1>1. endsIn' = 0 /\ stoveMode' = "auto"
        /\ UNCHANGED <<burning, maestro, sinceSwitch, lastWord, stoveSeen, switchedAgo, stovePlan, orders, stoveRestarts>>
    BY DEF SetStoveAuto, stoveWorld
  <1>2. StoveTypeOK'
    BY <1>1, StoveNumbers DEF StoveInv, StoveTypeOK
  <1> QED
    BY <1>1, <1>2 DEF StoveInv, OneEach, PlannerFirst, InOrder, HandSpokeLast, HoldMeasured, RestKept

LEMMA StoveInvInductive == StoveInv /\ [StoveNext]_stoveVars => StoveInv'
  <1> SUFFICES ASSUME StoveInv, [StoveNext]_stoveVars PROVE StoveInv'
    OBVIOUS
  <1>0. /\ burning \in BOOLEAN /\ maestro \in BOOLEAN /\ stoveSeen \in OnOff \cup {"unknown"}
        /\ stovePlan \in OnOff \cup {"none"}
    BY DEF StoveInv, StoveTypeOK
  <1>1. CASE UNCHANGED stoveVars
    BY <1>0, <1>1, ElsewhereInv DEF stoveVars
  <1>2. CASE RefreshStovePlan
    BY <1>0, <1>2, ElsewhereInv DEF RefreshStovePlan, stoveWorld, stoveHand
  <1>3. CASE StoveReports
    <2>1. State(burning) \in OnOff
      BY DEF State, OnOff
    <2> QED
      BY <1>0, <1>3, <2>1, ElsewhereInv DEF StoveReports, stoveWorld, stoveHand
  <1>4. CASE MaestroLost \/ MaestroBack
    <2>1. /\ UNCHANGED <<orders, switchedAgo, sinceSwitch, endsIn, stoveMode, stoveRestarts, burning, stovePlan, lastWord>>
          /\ stoveSeen' \in OnOff \cup {"unknown"}
      BY <1>0, <1>4 DEF MaestroLost, MaestroBack, stoveHand
    <2>2. maestro' \in BOOLEAN
      BY <1>4, Zenon DEF MaestroLost, MaestroBack
    <2> QED
      BY <1>0, <2>1, <2>2, ElsewhereInv
  <1>5. CASE StoveByItself
    BY <1>0, <1>5, ElsewhereInv DEF StoveByItself, stoveHand
  <1> QED
    BY <1>1, <1>2, <1>3, <1>4, <1>5, ApplyStovePlanInv, SetStoveAutoInv, SetStoveInv, ReplyInv,
       RestartStoveInv, ObeyInv, StoveTimeInv DEF StoveNext

----------------------------------------------------------------------------
\* The invariant holds throughout.
LEMMA StoveInvAlways == StoveSpec => []StoveInv
  BY StoveInitInv, StoveInvInductive, PTL DEF StoveSpec

\* Every variable of the stove keeps its type, and two commands at most are on the line.
THEOREM StoveTypes == StoveSpec => []StoveTypeOK
  BY StoveInvAlways, PTL DEF StoveInv

\* set_stove_mode and effective_mode: while a setting by hand lasts, the planner has not
\* switched the stove, unless it decided while that setting was on its way.
THEOREM StoveHandHolds == StoveSpec => []HandHolds
  <1>1. StoveInv => HandHolds
    BY DEF StoveInv, HandSpokeLast, HandHolds
  <1> QED
    BY <1>1, StoveInvAlways, PTL

\* decide_switch: the planner keeps min_runtime_min and min_offtime_min, measured at the
\* stove, although it only knows what it was answered.
THEOREM StovePlannerRests == StoveSpec => PlannerRests
  <1>1. StoveInv /\ [StoveNext]_stoveVars =>
          [burning' # burning /\ lastWord' = "planner" =>
             sinceSwitch >= IF burning THEN MinRuntime ELSE MinOfftime]_stoveVars
    <2> SUFFICES ASSUME StoveInv, [StoveNext]_stoveVars, burning' # burning, lastWord' = "planner"
                 PROVE  sinceSwitch >= IF burning THEN MinRuntime ELSE MinOfftime
      OBVIOUS
    <2>1. Obey
      BY DEF StoveNext, stoveVars, stoveWorld, RefreshStovePlan, ApplyStovePlan, SetStoveAuto, SetStove,
             Reply, RestartStove, StoveReports, MaestroLost, MaestroBack, StoveByItself, StoveTime
    <2>2. PICK i \in DOMAIN orders :
            ~orders[i].done /\ burning' = (orders[i].to = "on") /\ lastWord' = orders[i].by
      BY <2>1 DEF Obey
    <2>3. sinceSwitch >= RestBefore(orders[i].to)
      BY <2>2 DEF StoveInv, RestKept
    <2>4. orders[i].to \in {"on", "off"} /\ burning \in BOOLEAN
      BY LineFacts DEF Orders, OnOff, StoveInv, StoveTypeOK
    <2>5. orders[i].to = "off" <=> burning
      BY <2>2, <2>4
    <2> QED
      BY <2>3, <2>5 DEF RestBefore
  <1> QED
    BY <1>1, StoveInvAlways, PTL DEF StoveSpec, PlannerRests

----------------------------------------------------------------------------
(* The meter.                                                                 *)

MeterTyped ==
    /\ phaseAge \in [MeterPhases -> 0..Gone] /\ messageAge \in 0..Gone /\ upRounds \in 0..Gone
    /\ usableAge \in 0..(2 * Gone) /\ online \in {"unknown", "yes", "no"}
    /\ deadFor \in 0..(Covered + 1)
    /\ news \in BOOLEAN /\ unavailableSent \in BOOLEAN /\ emitted \in BOOLEAN /\ haRead \in BOOLEAN

\* The notice that the meter is offline is its last sign of life.
MessageOld == deadFor > 1 => messageAge = Gone \/ messageAge + 1 >= deadFor

MeterInv == MeterTyped /\ MessageOld /\ SilenceCovered

----------------------------------------------------------------------------
(* The screen.                                                                *)

FeedStates == 0..FeedChanges
FeedMessages == [kind : {"snapshot", "other"}, state : FeedStates]

FeedTyped ==
    /\ current \in FeedStates /\ sentState \in FeedStates /\ shown \in FeedStates
    /\ screenQueue \in Seq(FeedMessages) /\ Len(screenQueue) <= QueueSize
    /\ sentAgo2 \in 0..MaxGap /\ frameAgo \in 0..StaleAfter /\ heardAgo \in 0..StaleAfter
    /\ lag \in 0..StaleAfter /\ others \in 0..OtherEvents /\ stalls \in 0..Stalls
    /\ stalled \in BOOLEAN

StateOnItsWay == screenQueue # <<>> /\ Head(screenQueue).kind = "snapshot"

\* A screen that has never stalled: it is behind because nothing was due, or what it
\* has not been told is on its way.
FeedFlows ==
    /\ ~stalled /\ shown <= current /\ sentState <= current
    /\ lag <= MinGap /\ Len(screenQueue) \in {0, 1}
    /\ StateOnItsWay => /\ Head(screenQueue).state = sentState /\ shown <= sentState
                        /\ shown = sentState => lag = 0
    /\ ~StateOnItsWay => sentState <= shown /\ (lag > 0 => lag <= sentAgo2 /\ sentAgo2 < MinGap)

FeedInv == FeedTyped /\ (stalls = 0 => FeedFlows)

----------------------------------------------------------------------------
(* The telephone.                                                             *)

WatchTyped ==
    /\ quiet \in 0..Longest /\ upFor \in 0..Longest /\ sentAgo \in 0..Longest /\ calm \in 0..Longest
    /\ known \in BOOLEAN /\ open \in BOOLEAN /\ looked \in BOOLEAN /\ lost \in BOOLEAN
    /\ told \in {"nothing", "alarm", "back"} /\ watchRestarts \in 0..WatchRestarts

\* While every message could be stored, the rule's state is what was told last, and a
\* change that has not been told yet finds the pause over.
WatchKeepsUp ==
    /\ open = (told = "alarm") /\ calm <= sentAgo
    /\ open # Silent(quiet) => ~looked /\ calm = 0 /\ sentAgo >= ReportPause

WatchInv == WatchTyped /\ known /\ (~lost => WatchKeepsUp)

----------------------------------------------------------------------------
(* The meter's proof.                                                         *)

\* An age goes up by one, or stays at its greatest.
LEMMA PassedTyped ==
  ASSUME NEW most \in Nat, NEW age \in 0..most
  PROVE  /\ Passed(age, most) \in 0..most /\ Passed(age, most) >= age
         /\ Passed(age, most) = most \/ Passed(age, most) = age + 1
BY DEF Passed

LEMMA MeterNumbers == MeterStale \in Nat /\ Gone = MeterStale + 1 /\ Covered = MeterStale + 2
BY MeterAssumption DEF MeterAssumption, Gone, Covered

LEMMA MeterStarts == MeterInit => MeterInv
<1> SUFFICES ASSUME MeterInit PROVE MeterInv
  OBVIOUS
<1>1. MeterTyped
  <2>1. phaseAge \in [MeterPhases -> 0..Gone] /\ messageAge \in 0..Gone /\ upRounds \in 0..Gone
        /\ usableAge \in 0..(2 * Gone) /\ deadFor \in 0..(Covered + 1)
    BY MeterNumbers DEF MeterInit
  <2>2. online \in {"unknown", "yes", "no"} /\ news \in BOOLEAN /\ unavailableSent \in BOOLEAN
    BY DEF MeterInit
  <2>3. emitted \in BOOLEAN /\ haRead \in BOOLEAN
    BY DEF MeterInit
  <2> QED BY <2>1, <2>2, <2>3 DEF MeterTyped
<1> QED BY <1>1, MeterNumbers DEF MeterInit, MeterInv, MessageOld, SilenceCovered

LEMMA MeterStep == MeterInv /\ [MeterNext]_meterVars => MeterInv'
<1> SUFFICES ASSUME MeterInv, [MeterNext]_meterVars PROVE MeterInv'
  OBVIOUS
<1>0. MeterTyped /\ MessageOld /\ SilenceCovered
  BY DEF MeterInv
<1> USE MeterNumbers
<1>1. CASE UNCHANGED meterVars
  BY <1>0, <1>1 DEF meterVars, MeterInv, MeterTyped, MessageOld, SilenceCovered
<1>2. ASSUME NEW p \in MeterPhases, PowerArrives(p) PROVE MeterInv'
  <2>1. /\ deadFor' = deadFor /\ deadFor = 0 /\ phaseAge' = [phaseAge EXCEPT ![p] = 0] /\ messageAge' = 0
        /\ UNCHANGED <<upRounds, online, unavailableSent, emitted, haRead, usableAge>>
    BY <1>2 DEF PowerArrives
  <2>2. news' \in BOOLEAN
    BY <1>2 DEF PowerArrives
  <2>3. MeterTyped'
    BY <1>0, <2>1, <2>2 DEF MeterTyped
  <2> QED BY <1>0, <2>1, <2>3 DEF MeterInv, MessageOld, SilenceCovered
<1>3. ASSUME NEW flag \in {"yes", "no"}, OnlineArrives(flag) PROVE MeterInv'
  <2>1. /\ deadFor <= 1 /\ online' = flag /\ messageAge' = 0
        /\ UNCHANGED <<phaseAge, upRounds, unavailableSent, emitted, haRead, usableAge, deadFor>>
    BY <1>3 DEF OnlineArrives
  <2>2. news' \in BOOLEAN
    BY <1>3 DEF OnlineArrives
  <2>3. MeterTyped'
    BY <1>0, <2>1, <2>2 DEF MeterTyped
  <2> QED BY <1>0, <2>1, <2>3 DEF MeterInv, MeterTyped, MessageOld, SilenceCovered
<1>4. CASE RefusedArrives
  <2>1. UNCHANGED <<phaseAge, messageAge, upRounds, online, unavailableSent, emitted, haRead, usableAge, deadFor>>
    BY <1>4 DEF RefusedArrives
  <2>2. news' \in BOOLEAN
    BY <1>4 DEF RefusedArrives
  <2> QED BY <1>0, <2>1, <2>2 DEF MeterInv, MeterTyped, MessageOld, SilenceCovered
<1>5. CASE MeterStops \/ MeterReturns
  <2>1. /\ deadFor' \in 0..1
        /\ UNCHANGED <<phaseAge, messageAge, upRounds, online, news, unavailableSent, emitted, haRead, usableAge>>
    BY <1>5 DEF MeterStops, MeterReturns
  <2>2. MeterTyped'
    BY <1>0, <2>1 DEF MeterTyped
  <2> QED BY <2>1, <2>2 DEF MeterInv, MessageOld, SilenceCovered
<1>6. CASE EmitRound
  <2>1. UNCHANGED <<phaseAge, messageAge, upRounds, online, haRead, deadFor>>
    BY <1>6 DEF EmitRound
  <2>2. emitted' \in BOOLEAN
    BY <1>6 DEF EmitRound
  <2>3. news' \in BOOLEAN
    BY <1>0, <1>6, Zenon DEF EmitRound, MeterTyped
  <2>4. unavailableSent' \in BOOLEAN
    BY <1>0, <1>6, Zenon DEF EmitRound, MeterTyped
  <2>5. usableAge' = usableAge \/ usableAge' = 0
    BY <1>6 DEF EmitRound
  <2>6. MeterTyped'
    BY <1>0, <2>1, <2>2, <2>3, <2>4, <2>5 DEF MeterTyped
  <2> QED BY <1>0, <2>1, <2>5, <2>6 DEF MeterInv, MessageOld, SilenceCovered
<1>7. CASE HomeAssistantRead
  <2>1. /\ usableAge' = IF HasFresh THEN usableAge ELSE 0
        /\ UNCHANGED <<phaseAge, messageAge, upRounds, online, news, unavailableSent, emitted, deadFor>>
    BY <1>7 DEF HomeAssistantRead
  <2>2. haRead' \in BOOLEAN
    BY <1>7 DEF HomeAssistantRead
  <2>3. deadFor > Covered => ~HasFresh
    BY <1>0 DEF MeterTyped, MessageOld, HasFresh
  <2>4. MeterTyped'
    BY <1>0, <2>1, <2>2 DEF MeterTyped
  <2> QED BY <1>0, <2>1, <2>3, <2>4 DEF MeterInv, MessageOld, SilenceCovered
<1>8. CASE NextRound
  <2>1. /\ phaseAge' = [p \in MeterPhases |-> Passed(phaseAge[p], Gone)]
        /\ messageAge' = Passed(messageAge, Gone) /\ upRounds' = Passed(upRounds, Gone)
        /\ usableAge' = Passed(usableAge, 2 * Gone)
        /\ deadFor' = IF deadFor = 0 THEN 0 ELSE Passed(deadFor, Covered + 1)
        /\ UNCHANGED <<online, news, unavailableSent>>
    BY <1>8 DEF NextRound
  <2>2. emitted' = FALSE /\ haRead' = FALSE
    BY <1>8 DEF NextRound
  <2>3. Gone \in Nat /\ 2 * Gone \in Nat /\ Covered + 1 \in Nat
    OBVIOUS
  <2>4. phaseAge' \in [MeterPhases -> 0..Gone]
    BY <1>0, <2>1, <2>3, PassedTyped DEF MeterTyped
  <2>5. /\ messageAge' \in 0..Gone
        /\ messageAge' = Gone \/ messageAge' = messageAge + 1
        /\ upRounds' \in 0..Gone /\ usableAge' \in 0..(2 * Gone)
    BY <1>0, <2>1, <2>3, PassedTyped DEF MeterTyped
  <2>6. deadFor' \in 0..(Covered + 1) /\ deadFor' <= deadFor + 1 /\ (deadFor = 0 => deadFor' = 0)
    <3>1. deadFor \in 0..(Covered + 1)
      BY <1>0 DEF MeterTyped
    <3> QED BY <2>1, <3>1 DEF Passed
  <2>7. emitted' \in BOOLEAN /\ haRead' \in BOOLEAN
    BY <2>2
  <2>8. MeterTyped'
    <3>1. online' \in {"unknown", "yes", "no"} /\ news' \in BOOLEAN /\ unavailableSent' \in BOOLEAN
      BY <1>0, <2>1 DEF MeterTyped
    <3> QED BY <2>4, <2>5, <2>6, <2>7, <3>1 DEF MeterTyped
  <2>9. MessageOld'
    <3>1. messageAge \in 0..Gone /\ deadFor \in 0..(Covered + 1)
      BY <1>0 DEF MeterTyped
    <3> QED BY <1>0, <2>1, <2>6, <3>1 DEF MessageOld, Passed
  <2> QED BY <2>2, <2>8, <2>9 DEF MeterInv, SilenceCovered
<1> QED BY <1>1, <1>2, <1>3, <1>4, <1>5, <1>6, <1>7, <1>8 DEF MeterNext

\* The cloud gets Home Assistant's power once the meter has been silent for a little
\* longer than the time a value counts (mqtt_stale_s), however long that is: also when
\* the last thing heard of the meter was that it is offline.
THEOREM MeterSilenceCovered == MeterSpec => [](MeterTypeOK /\ SilenceCovered)
<1>1. MeterInit => MeterInv
  BY MeterStarts
<1>2. MeterInv /\ [MeterNext]_meterVars => MeterInv'
  BY MeterStep
<1>3. MeterInv => MeterTypeOK /\ SilenceCovered
  BY DEF MeterInv, MeterTyped, MeterTypeOK
<1> QED BY <1>1, <1>2, <1>3, PTL DEF MeterSpec

----------------------------------------------------------------------------
(* The proof of the telephone.                                                *)

\* What the bounds of a behaviour have to say: the time a signal was last seen
\* survives a restart, and a signal stays as it is for at least the pause.
SignalsAreSteady == Remembered /\ ReportPause <= CalmFor

LEMMA WatchNumbers ==
  /\ SilenceMin \in Nat /\ ReportPause \in Nat /\ CalmFor \in Nat /\ WatchRestarts \in Nat
  /\ Longest \in Nat /\ Longest >= SilenceMin /\ Longest >= ReportPause
<1>1. SilenceMin \in Nat /\ ReportPause \in Nat /\ CalmFor \in Nat /\ WatchRestarts \in Nat
  BY WatchAssumption DEF WatchAssumption
<1> QED BY <1>1 DEF Longest

LEMMA WatchOlderTyped ==
  ASSUME NEW age \in 0..Longest
  PROVE  /\ WatchOlder(age) \in 0..Longest /\ WatchOlder(age) >= age
         /\ \A other \in 0..Longest : age <= other => WatchOlder(age) <= WatchOlder(other)
         /\ Silent(WatchOlder(age)) <=> Silent(age + 1)
BY WatchNumbers DEF WatchOlder, Silent

LEMMA WatchStarts == WatchInit => WatchInv
<1> SUFFICES ASSUME WatchInit PROVE WatchInv
  OBVIOUS
<1> USE WatchNumbers
<1>1. /\ quiet \in 0..Longest /\ upFor \in 0..Longest /\ sentAgo \in 0..Longest /\ calm \in 0..Longest
      /\ told \in {"nothing", "alarm", "back"} /\ watchRestarts \in 0..WatchRestarts
  BY DEF WatchInit
<1>2. known \in BOOLEAN /\ open \in BOOLEAN /\ looked \in BOOLEAN /\ lost \in BOOLEAN
  BY DEF WatchInit
<1>3. open = (told = "alarm")
  BY DEF WatchInit
<1> QED BY <1>1, <1>2, <1>3 DEF WatchInit, WatchInv, WatchTyped, WatchKeepsUp

LEMMA NotifyKeeps ==
  ASSUME WatchInv, WatchNotify
  PROVE  WatchInv' /\ (sentAgo' < sentAgo => told' # told \/ lost')
<1> USE WatchNumbers
<1>0. WatchTyped /\ known
  BY DEF WatchInv
<1>1. Finding = Silent(quiet) /\ Finding \in BOOLEAN
  BY <1>0 DEF Finding, Silent
<1>2. looked' = TRUE /\ open' = Finding /\ UNCHANGED <<quiet, known, upFor, calm, watchRestarts>>
  BY DEF WatchNotify
<1>3. open' \in BOOLEAN /\ looked' \in BOOLEAN /\ known'
  BY <1>0, <1>1, <1>2
<1>4. CASE Finding = open \/ sentAgo < ReportPause
  <2>1. UNCHANGED <<sentAgo, told, lost>>
    BY <1>4 DEF WatchNotify
  <2>2. WatchTyped'
    BY <1>0, <1>2, <1>3, <2>1 DEF WatchTyped
  <2>3. ASSUME ~lost PROVE Finding = open /\ open = (told = "alarm") /\ calm <= sentAgo
    BY <1>1, <1>4, <2>3 DEF WatchInv, WatchKeepsUp, WatchTyped
  <2>4. ASSUME ~lost' PROVE WatchKeepsUp'
    BY <1>1, <1>2, <2>1, <2>3, <2>4 DEF WatchKeepsUp
  <2>5. ~(sentAgo' < sentAgo)
    BY <1>0, <2>1 DEF WatchTyped
  <2> QED BY <1>3, <2>2, <2>4, <2>5 DEF WatchInv
<1>5. CASE ~(Finding = open \/ sentAgo < ReportPause)
  <2>1. sentAgo' = 0 /\ \/ told' = Reported(Finding) /\ lost' = lost
                        \/ told' = told /\ lost' = TRUE
    BY <1>5 DEF WatchNotify
  <2>2. told' \in {"nothing", "alarm", "back"} /\ lost' \in BOOLEAN
    BY <1>0, <2>1 DEF Reported, WatchTyped
  <2>3. WatchTyped'
    BY <1>0, <1>2, <1>3, <2>1, <2>2 DEF WatchTyped
  <2>4. ASSUME ~lost' PROVE WatchKeepsUp' /\ told' # told
    <3>1. told' = Reported(Finding) /\ ~lost
      BY <2>1, <2>4
    <3>2. open # Silent(quiet) /\ open = (told = "alarm") /\ calm = 0
      BY <1>1, <1>5, <3>1 DEF WatchInv, WatchKeepsUp
    <3>3. Finding = (told' = "alarm")
      BY <1>1, <3>1 DEF Reported
    <3>4. told' # told
      BY <1>1, <3>2, <3>3
    <3>5. open' = (told' = "alarm") /\ open' = Silent(quiet')
      BY <1>1, <1>2, <3>3
    <3> QED BY <1>2, <2>1, <3>2, <3>4, <3>5 DEF WatchKeepsUp
  <2> QED BY <1>3, <2>3, <2>4 DEF WatchInv
<1> QED BY <1>4, <1>5

LEMMA SignalKeeps ==
  ASSUME WatchInv, SignalsAreSteady, SignalComes
  PROVE  WatchInv'
<1> USE WatchNumbers
<1>0. WatchTyped /\ known
  BY DEF WatchInv
<1>1. /\ Silent(quiet) => calm >= CalmFor
      /\ quiet' = 0
      /\ calm' = (IF Silent(quiet) THEN 0 ELSE calm)
      /\ UNCHANGED <<upFor, open, sentAgo, told, lost, watchRestarts>>
  BY DEF SignalComes
<1>2. known' = TRUE /\ looked' = FALSE
  BY DEF SignalComes
<1>3. known' \in BOOLEAN /\ looked' \in BOOLEAN /\ quiet' \in 0..Longest /\ calm' \in 0..Longest
  <2>1. quiet' \in 0..Longest /\ calm' \in 0..Longest
    BY <1>0, <1>1 DEF WatchTyped
  <2> QED BY <1>2, <2>1
<1>4. WatchTyped'
  BY <1>0, <1>1, <1>3 DEF WatchTyped
<1>5. ASSUME ~lost PROVE WatchKeepsUp'
  <2>1. open = (told = "alarm") /\ calm <= sentAgo
        /\ (open # Silent(quiet) => calm = 0 /\ sentAgo >= ReportPause)
    BY <1>5 DEF WatchInv, WatchKeepsUp
  <2>2. calm \in 0..Longest /\ sentAgo \in 0..Longest /\ quiet \in 0..Longest
    BY <1>0 DEF WatchTyped
  <2>3. CASE Silent(quiet)
    <3>1. calm' = 0 /\ sentAgo' >= ReportPause /\ calm' <= sentAgo'
      BY <1>1, <2>1, <2>2, <2>3 DEF SignalsAreSteady
    <3> QED BY <1>1, <1>2, <2>1, <3>1 DEF WatchKeepsUp
  <2>4. CASE ~Silent(quiet)
    <3>1. Silent(quiet') = Silent(quiet)
      BY <1>1, <2>2, <2>4 DEF Silent
    <3> QED BY <1>1, <1>2, <2>1, <2>4, <3>1 DEF WatchKeepsUp
  <2> QED BY <2>3, <2>4
<1> QED BY <1>1, <1>2, <1>4, <1>5 DEF WatchInv

LEMMA MinuteKeeps ==
  ASSUME WatchInv, SignalsAreSteady, WatchMinute
  PROVE  WatchInv' /\ sentAgo' >= sentAgo
<1> USE WatchNumbers
<1>0. WatchTyped /\ known
  BY DEF WatchInv
<1> DEFINE Falls == Silent(quiet + 1) /\ ~Silent(quiet)
<1>1. /\ quiet' = WatchOlder(quiet) /\ upFor' = WatchOlder(upFor) /\ sentAgo' = WatchOlder(sentAgo)
      /\ calm' = (IF Falls THEN 0 ELSE WatchOlder(calm)) /\ (Falls => calm >= CalmFor)
      /\ UNCHANGED <<known, open, told, lost, watchRestarts>>
  BY DEF WatchMinute
<1>2. looked /\ looked' = FALSE
  BY DEF WatchMinute
<1>3. calm \in 0..Longest /\ sentAgo \in 0..Longest /\ quiet \in 0..Longest /\ upFor \in 0..Longest
  BY <1>0 DEF WatchTyped
<1>4. /\ WatchOlder(quiet) \in 0..Longest /\ WatchOlder(upFor) \in 0..Longest
      /\ WatchOlder(sentAgo) \in 0..Longest /\ WatchOlder(calm) \in 0..Longest
      /\ WatchOlder(sentAgo) >= sentAgo /\ (calm <= sentAgo => WatchOlder(calm) <= WatchOlder(sentAgo))
      /\ (Silent(WatchOlder(quiet)) <=> Silent(quiet + 1))
  BY <1>3, WatchOlderTyped
<1>5. /\ quiet' \in 0..Longest /\ upFor' \in 0..Longest /\ sentAgo' \in 0..Longest /\ calm' \in 0..Longest
  BY <1>1, <1>4
<1>6. looked' \in BOOLEAN
  BY <1>2
<1>7. known' \in BOOLEAN /\ open' \in BOOLEAN /\ lost' \in BOOLEAN
  BY <1>0, <1>1, Zenon DEF WatchTyped
<1>8. WatchTyped'
  BY <1>0, <1>1, <1>5, <1>6, <1>7 DEF WatchTyped
<1>9. ASSUME ~lost PROVE WatchKeepsUp'
  <2>1. open = (told = "alarm") /\ calm <= sentAgo /\ open = Silent(quiet)
    BY <1>2, <1>9 DEF WatchInv, WatchKeepsUp
  <2>2. open' = (told' = "alarm") /\ calm' <= sentAgo'
    BY <1>1, <1>4, <1>5, <2>1
  <2>3. CASE Falls
    <3>1. calm' = 0 /\ sentAgo' >= ReportPause
      BY <1>1, <1>3, <1>4, <2>1, <2>3 DEF SignalsAreSteady
    <3> QED BY <1>2, <2>2, <3>1 DEF WatchKeepsUp
  <2>4. CASE ~Falls
    <3>1. Silent(quiet') <=> Silent(quiet)
      BY <1>1, <1>3, <1>4, <2>4 DEF Silent
    <3>2. open' = Silent(quiet')
      BY <1>1, <2>1, <3>1 DEF Silent
    <3> QED BY <2>2, <3>2 DEF WatchKeepsUp
  <2> QED BY <2>3, <2>4
<1> QED BY <1>0, <1>1, <1>4, <1>8, <1>9 DEF WatchInv

LEMMA LoadKeeps ==
  ASSUME WatchInv, SignalsAreSteady, LoadWatchState
  PROVE  WatchInv' /\ sentAgo' >= sentAgo
<1> USE WatchNumbers
<1>0. WatchTyped /\ known
  BY DEF WatchInv
<1>1. /\ sentAgo' = Longest /\ upFor' = 0 /\ watchRestarts < WatchRestarts
      /\ watchRestarts' = watchRestarts + 1
      /\ UNCHANGED <<quiet, told, lost, calm>>
  BY DEF LoadWatchState
<1>2. open' = (told = "alarm") /\ looked' = FALSE /\ known' = (known /\ Remembered)
  BY DEF LoadWatchState
<1>3. known' /\ known' \in BOOLEAN /\ open' \in BOOLEAN /\ looked' \in BOOLEAN
  BY <1>0, <1>2 DEF SignalsAreSteady
<1>4. upFor' \in 0..Longest /\ sentAgo' \in 0..Longest /\ watchRestarts' \in 0..WatchRestarts
  BY <1>0, <1>1 DEF WatchTyped
<1>5. quiet' \in 0..Longest /\ calm' \in 0..Longest /\ told' \in {"nothing", "alarm", "back"} /\ lost' \in BOOLEAN
  BY <1>0, <1>1 DEF WatchTyped
<1>6. WatchTyped'
  BY <1>3, <1>4, <1>5 DEF WatchTyped
<1>7. ASSUME ~lost PROVE WatchKeepsUp'
  <2>1. open = (told = "alarm") /\ (open # Silent(quiet) => calm = 0)
    BY <1>7 DEF WatchInv, WatchKeepsUp
  <2>2. open' = open /\ open' = (told' = "alarm")
    BY <1>1, <1>2, <2>1
  <2>3. calm' <= sentAgo' /\ sentAgo' >= ReportPause
    BY <1>0, <1>1 DEF WatchTyped
  <2> QED BY <1>1, <1>2, <2>1, <2>2, <2>3 DEF WatchKeepsUp
<1> QED BY <1>0, <1>1, <1>3, <1>6, <1>7 DEF WatchInv, WatchTyped

LEMMA WatchStep ==
  ASSUME WatchInv, SignalsAreSteady, [WatchNext]_watchVars
  PROVE  WatchInv' /\ (sentAgo' < sentAgo => told' # told \/ lost')
<1>1. CASE UNCHANGED watchVars
  <2>1. WatchInv'
    BY <1>1 DEF watchVars, WatchInv, WatchTyped, WatchKeepsUp, Silent
  <2>2. ~(sentAgo' < sentAgo)
    BY <1>1 DEF watchVars, WatchInv, WatchTyped
  <2> QED BY <2>1, <2>2
<1>2. CASE WatchNotify
  BY <1>2, NotifyKeeps
<1>3. CASE SignalComes
  <2>1. ~(sentAgo' < sentAgo)
    BY <1>3 DEF SignalComes, WatchInv, WatchTyped
  <2> QED BY <1>3, <2>1, SignalKeeps
<1>4. CASE WatchMinute \/ LoadWatchState
  <2>1. WatchInv' /\ sentAgo' >= sentAgo
    BY <1>4, MinuteKeeps, LoadKeeps
  <2>2. sentAgo \in Int /\ sentAgo' \in Int
    BY <2>1, WatchNumbers DEF WatchInv, WatchTyped
  <2> QED BY <2>1, <2>2
<1> QED BY <1>1, <1>2, <1>3, <1>4 DEF WatchNext

\* The telephone is told the truth, and is told it once ("Einmal, wenn er auftritt, und
\* einmal, wenn er geht", _watch_notify), as long as signals last for the pause and a
\* restart knows when they last came; a message that could not be stored excuses.
THEOREM WatchToldOnce == SignalsAreSteady => (WatchSpec => ToldOnce)
<1> SUFFICES ASSUME SignalsAreSteady PROVE WatchSpec => ToldOnce
  OBVIOUS
<1>1. WatchInit => WatchInv
  BY WatchStarts
<1>2. WatchInv /\ [WatchNext]_watchVars => WatchInv'
  BY WatchStep
<1>3. WatchInv => MessageIsTrue
  BY DEF WatchInv, WatchTyped, WatchKeepsUp, MessageIsTrue
<1>4. WatchInv /\ [WatchNext]_watchVars => [sentAgo' < sentAgo => told' # told \/ lost']_watchVars
  BY WatchStep
<1> QED BY <1>1, <1>2, <1>3, <1>4, PTL DEF WatchSpec, ToldOnce, NoEcho

----------------------------------------------------------------------------
(* The proof of the screen.                                                   *)

LEMMA FeedNumbers ==
  /\ MinGap \in Nat /\ MaxGap \in Nat /\ StaleAfter \in Nat /\ FeedChanges \in Nat
  /\ OtherEvents \in Nat /\ Stalls \in Nat /\ 0 < MinGap /\ MinGap <= MaxGap
  /\ QueueSize \in Nat /\ QueueSize >= 1
<1>1. /\ MinGap \in Nat /\ MaxGap \in Nat /\ StaleAfter \in Nat /\ FeedChanges \in Nat
      /\ OtherEvents \in Nat /\ Stalls \in Nat
  BY FeedAssumption DEF FeedAssumption
<1>2. 0 < MinGap /\ MinGap <= MaxGap /\ QueueSize \in Nat \ {0}
  BY FeedAssumption DEF FeedAssumption
<1>3. QueueSize \in Nat /\ QueueSize >= 1
  BY <1>2
<1> QED BY <1>1, <1>2, <1>3

LEMMA TickedTyped ==
  ASSUME NEW most \in Nat, NEW age \in 0..most
  PROVE  Ticked(age, most) \in 0..most /\ Ticked(age, most) = IF age < most THEN age + 1 ELSE age
BY DEF Ticked

\* SseBroker.publish never lets a queue grow, and in an empty one the message is the
\* only one.
LEMMA PublishedTyped ==
  ASSUME NEW queue \in Seq(FeedMessages), Len(queue) <= QueueSize, NEW message \in FeedMessages
  PROVE  /\ Published(queue, message) \in Seq(FeedMessages) /\ Len(Published(queue, message)) <= QueueSize
         /\ queue = <<>> => Len(Published(queue, message)) = 1 /\ Published(queue, message)[1] = message
<1> USE FeedNumbers
<1>1. CASE Len(queue) < QueueSize
  <2>1. Published(queue, message) = Append(queue, message)
    BY <1>1 DEF Published
  <2>2. /\ Append(queue, message) \in Seq(FeedMessages) /\ Len(Append(queue, message)) = Len(queue) + 1
        /\ Append(queue, message)[Len(queue) + 1] = message
    BY AppendProperties
  <2>3. queue = <<>> => Len(queue) = 0
    BY EmptySeq
  <2> QED BY <1>1, <2>1, <2>2, <2>3, LenProperties
<1>2. CASE ~(Len(queue) < QueueSize)
  <2>1. Len(queue) = QueueSize /\ queue # <<>>
    BY <1>2, LenProperties, EmptySeq
  <2>2. Tail(queue) \in Seq(FeedMessages) /\ Len(Tail(queue)) = Len(queue) - 1 /\ Head(queue) \in FeedMessages
    BY <2>1, HeadTailProperties
  <2>3. \E m \in FeedMessages : Published(queue, message) = Append(Tail(queue), m)
    BY <1>2, <2>2 DEF Published
  <2>4. \A m \in FeedMessages : Append(Tail(queue), m) \in Seq(FeedMessages)
                                /\ Len(Append(Tail(queue), m)) = Len(Tail(queue)) + 1
    BY <2>2, AppendProperties
  <2> QED BY <2>1, <2>2, <2>3, <2>4
<1> QED BY <1>1, <1>2

LEMMA MessagesTyped ==
  /\ Notice \in FeedMessages /\ Notice.kind = "other"
  /\ \A s \in FeedStates : Snapshot(s) \in FeedMessages /\ Snapshot(s).kind = "snapshot" /\ Snapshot(s).state = s
BY FeedNumbers DEF Notice, Snapshot, FeedMessages, FeedStates

LEMMA FeedStarts == FeedInit => FeedInv
<1> SUFFICES ASSUME FeedInit PROVE FeedInv
  OBVIOUS
<1> USE FeedNumbers
<1>1. /\ current \in FeedStates /\ sentState \in FeedStates /\ shown \in FeedStates
      /\ sentAgo2 \in 0..MaxGap /\ frameAgo \in 0..StaleAfter /\ heardAgo \in 0..StaleAfter
      /\ lag \in 0..StaleAfter /\ others \in 0..OtherEvents /\ stalls \in 0..Stalls
  BY DEF FeedInit, FeedStates
<1>2. screenQueue \in Seq(FeedMessages) /\ Len(screenQueue) = 0 /\ screenQueue = <<>>
  BY EmptySeq DEF FeedInit
<1>3. stalled \in BOOLEAN /\ ~stalled
  BY DEF FeedInit
<1>4. ~StateOnItsWay
  BY <1>2 DEF StateOnItsWay
<1> QED BY <1>1, <1>2, <1>3, <1>4 DEF FeedInit, FeedInv, FeedTyped, FeedFlows

\* A state is put into the queue of a screen that has taken everything so far.
LEMMA StatePublished ==
  ASSUME FeedInv, screenQueue = <<>>, current' \in FeedStates, stalls' = stalls, stalled' = stalled,
         screenQueue' = Published(screenQueue, Snapshot(current')), sentState' = current',
         shown' = shown, current' >= current, lag' \in 0..StaleAfter, lag' <= MinGap, stalls = 0,
         shown = current' => lag' = 0
  PROVE  FeedFlows'
<1> USE FeedNumbers
<1>1. FeedTyped /\ FeedFlows
  BY DEF FeedInv
<1>2. /\ Snapshot(current') \in FeedMessages /\ Snapshot(current').kind = "snapshot"
      /\ Snapshot(current').state = current'
  BY MessagesTyped
<1>3. Len(screenQueue') = 1 /\ screenQueue'[1] = Snapshot(current') /\ screenQueue' \in Seq(FeedMessages)
  BY <1>1, <1>2, PublishedTyped DEF FeedTyped
<1>4. screenQueue' # <<>> /\ Head(screenQueue') = Snapshot(current')
  BY <1>3, EmptySeq
<1>5. StateOnItsWay'
  BY <1>2, <1>4 DEF StateOnItsWay
<1>6. shown \in Nat /\ current \in Nat /\ current' \in Nat /\ shown <= current
  BY <1>1 DEF FeedTyped, FeedFlows, FeedStates
<1>7. (stalled' = FALSE) /\ shown' = shown /\ sentState' = current' /\ shown' <= current'
  BY <1>1, <1>6 DEF FeedFlows
<1>8. Head(screenQueue').state = sentState'
  BY <1>2, <1>4, <1>7
<1>9. lag' <= MinGap
  OBVIOUS
<1>10. Len(screenQueue') \in {0, 1}
  BY <1>3, Zenon
<1>11. shown' = current' => lag' = 0
  BY <1>7
<1> QED BY <1>1, <1>3, <1>5, <1>6, <1>7, <1>8, <1>9, <1>10, <1>11 DEF FeedFlows

LEMMA FeedTickKeeps ==
  ASSUME FeedInv, FeedTick
  PROVE  FeedInv'
<1> USE FeedNumbers
<1>0. FeedTyped
  BY DEF FeedInv
<1> DEFINE age == Ticked(sentAgo2, MaxGap)
<1>1. /\ frameAgo' = Ticked(frameAgo, StaleAfter)
      /\ heardAgo' = (IF stalled THEN Ticked(heardAgo, StaleAfter) ELSE 0)
      /\ lag' = (IF stalled \/ shown = current THEN 0 ELSE Ticked(lag, StaleAfter))
      /\ UNCHANGED <<current, others, shown, stalled, stalls>>
  BY DEF FeedTick
<1>2. age \in 0..MaxGap /\ age = (IF sentAgo2 < MaxGap THEN sentAgo2 + 1 ELSE sentAgo2)
  BY <1>0, TickedTyped DEF FeedTyped
<1>3. /\ frameAgo' \in 0..StaleAfter /\ heardAgo' \in 0..StaleAfter
      /\ lag' \in 0..StaleAfter /\ lag' <= lag + 1
  BY <1>0, <1>1 DEF FeedTyped, Ticked
<1>4. CASE Due(current, age)
  <2>1. sentAgo2' = 0 /\ sentState' = current /\ screenQueue' = Published(screenQueue, Snapshot(current))
    BY <1>4 DEF FeedTick
  <2>2. screenQueue' \in Seq(FeedMessages) /\ Len(screenQueue') <= QueueSize
    BY <1>0, <2>1, PublishedTyped, MessagesTyped DEF FeedTyped
  <2>3. FeedTyped'
    BY <1>0, <1>1, <1>3, <2>1, <2>2 DEF FeedTyped
  <2>4. ASSUME stalls = 0 PROVE FeedFlows'
    <3>1. FeedFlows
      BY <2>4 DEF FeedInv
    <3>2. screenQueue = <<>>
      BY <3>1 DEF FeedTick, Room, FeedFlows
    <3>3. ~StateOnItsWay
      BY <3>2 DEF StateOnItsWay
    <3>4. lag = 0 \/ lag + 1 <= MinGap
      BY <1>0, <3>1, <3>3 DEF FeedFlows, FeedTyped
    <3>5. lag' <= MinGap
      BY <1>0, <1>3, <3>4 DEF FeedTyped
    <3>6. current' \in FeedStates /\ current' >= current
      BY <1>0, <1>1 DEF FeedTyped, FeedStates
    <3> QED BY <1>1, <1>3, <2>1, <2>4, <3>1, <3>2, <3>5, <3>6, StatePublished
  <2> QED BY <1>1, <2>3, <2>4 DEF FeedInv
<1>5. CASE ~Due(current, age)
  <2>1. sentAgo2' = age /\ sentState' = sentState /\ screenQueue' = screenQueue
    BY <1>5 DEF FeedTick
  <2>2. FeedTyped'
    BY <1>0, <1>1, <1>2, <1>3, <2>1 DEF FeedTyped
  <2>3. ASSUME stalls = 0 PROVE FeedFlows'
    <3>1. FeedFlows
      BY <2>3 DEF FeedInv
    <3>2. screenQueue = <<>>
      BY <3>1 DEF FeedTick, Room, FeedFlows
    <3>3. ~StateOnItsWay /\ ~StateOnItsWay'
      BY <2>1, <3>2 DEF StateOnItsWay
    <3>4. sentState <= shown /\ (lag > 0 => lag <= sentAgo2 /\ sentAgo2 < MinGap)
      BY <3>1, <3>3 DEF FeedFlows
    <3>5. lag' > 0 => lag' <= sentAgo2' /\ sentAgo2' < MinGap
      <4>1. CASE shown = current
        BY <1>1, <4>1
      <4>2. CASE shown # current
        <5>1. sentState # current
          BY <1>0, <3>1, <3>4, <4>2 DEF FeedFlows, FeedTyped, FeedStates
        <5>2. age < MinGap
          BY <1>0, <1>2, <1>5, <5>1 DEF Due
        <5>3. age = sentAgo2 + 1 /\ sentAgo2 \in 0..MaxGap /\ lag \in 0..StaleAfter
          BY <1>0, <1>2, <5>2 DEF FeedTyped
        <5> QED BY <1>3, <2>1, <3>4, <5>2, <5>3
      <4> QED BY <4>1, <4>2
    <3>6. lag' <= MinGap
      BY <1>2, <1>3, <2>1, <3>5
    <3> QED BY <1>1, <2>1, <3>1, <3>3, <3>4, <3>5, <3>6 DEF FeedFlows
  <2> QED BY <1>1, <2>2, <2>3 DEF FeedInv
<1> QED BY <1>4, <1>5

LEMMA ForcedKeeps ==
  ASSUME FeedInv, ForcedState
  PROVE  FeedInv'
<1> USE FeedNumbers
<1>0. FeedTyped
  BY DEF FeedInv
<1>1. /\ current < FeedChanges /\ current' = current + 1 /\ sentAgo2' = 0 /\ sentState' = current'
      /\ screenQueue' = Published(screenQueue, Snapshot(current'))
      /\ UNCHANGED <<others, shown, frameAgo, heardAgo, lag, stalled, stalls>>
  BY DEF ForcedState
<1>2. current \in Nat /\ current' \in FeedStates /\ current' > current /\ shown \in Nat
  BY <1>0, <1>1 DEF FeedTyped, FeedStates
<1>3. screenQueue' \in Seq(FeedMessages) /\ Len(screenQueue') <= QueueSize
  BY <1>0, <1>1, <1>2, PublishedTyped, MessagesTyped DEF FeedTyped
<1>4. FeedTyped'
  BY <1>0, <1>1, <1>2, <1>3 DEF FeedTyped
<1>5. ASSUME stalls = 0 PROVE FeedFlows'
  <2>1. FeedFlows
    BY <1>5 DEF FeedInv
  <2>2. screenQueue = <<>>
    BY <2>1 DEF ForcedState, Room, FeedFlows
  <2>3. shown # current' /\ lag' <= MinGap /\ lag' \in 0..StaleAfter
    BY <1>0, <1>1, <1>2, <2>1 DEF FeedFlows, FeedTyped
  <2>4. current' >= current
    BY <1>1, <1>2
  <2> QED BY <1>1, <1>2, <1>5, <2>2, <2>3, <2>4, StatePublished
<1> QED BY <1>1, <1>4, <1>5 DEF FeedInv

LEMMA OtherKeeps ==
  ASSUME FeedInv, PublishOther
  PROVE  FeedInv'
<1> USE FeedNumbers
<1>0. FeedTyped
  BY DEF FeedInv
<1>1. /\ others < OtherEvents /\ others' = others + 1 /\ screenQueue' = Published(screenQueue, Notice)
      /\ UNCHANGED <<current, sentAgo2, sentState, shown, frameAgo, heardAgo, lag, stalled, stalls>>
  BY DEF PublishOther
<1>2. screenQueue' \in Seq(FeedMessages) /\ Len(screenQueue') <= QueueSize
      /\ (screenQueue = <<>> => Len(screenQueue') = 1 /\ screenQueue'[1] = Notice)
  BY <1>0, <1>1, PublishedTyped, MessagesTyped DEF FeedTyped
<1>3. others' \in 0..OtherEvents
  BY <1>0, <1>1 DEF FeedTyped
<1>4. FeedTyped'
  BY <1>0, <1>1, <1>2, <1>3 DEF FeedTyped
<1>5. ASSUME stalls = 0 PROVE FeedFlows'
  <2>1. FeedFlows
    BY <1>5 DEF FeedInv
  <2>2. screenQueue = <<>>
    BY <2>1 DEF PublishOther, Room, FeedFlows
  <2>3. ~StateOnItsWay /\ ~StateOnItsWay'
    BY <1>2, <2>2, MessagesTyped DEF StateOnItsWay
  <2>4. Len(screenQueue') = 1
    BY <1>2, <2>2
  <2> QED BY <1>1, <2>1, <2>3, <2>4 DEF FeedFlows
<1> QED BY <1>1, <1>4, <1>5 DEF FeedInv

LEMMA StreamKeeps ==
  ASSUME FeedInv, StreamMessage
  PROVE  FeedInv'
<1> USE FeedNumbers
<1>0. FeedTyped
  BY DEF FeedInv
<1>1. /\ screenQueue # <<>> /\ screenQueue' = Tail(screenQueue) /\ heardAgo' = 0
      /\ lag' = (IF shown' > shown THEN 0 ELSE lag)
      /\ UNCHANGED <<current, sentAgo2, sentState, others, stalled, stalls>>
  BY DEF StreamMessage
<1>2. /\ screenQueue' \in Seq(FeedMessages) /\ Len(screenQueue') = Len(screenQueue) - 1
      /\ Head(screenQueue) \in FeedMessages
  BY <1>0, <1>1, HeadTailProperties DEF FeedTyped
<1>3. \/ StateOnItsWay /\ shown' = Head(screenQueue).state /\ frameAgo' = 0
      \/ ~StateOnItsWay /\ shown' = shown /\ frameAgo' = frameAgo
  BY <1>1 DEF StreamMessage, StateOnItsWay, Show
<1>4. shown' \in FeedStates /\ frameAgo' \in 0..StaleAfter /\ lag' \in 0..StaleAfter
  BY <1>0, <1>1, <1>2, <1>3 DEF FeedTyped, FeedMessages
<1>5. Len(screenQueue') <= QueueSize /\ heardAgo' \in 0..StaleAfter
  BY <1>0, <1>1, <1>2, LenProperties DEF FeedTyped
<1>6. FeedTyped'
  BY <1>0, <1>1, <1>2, <1>4, <1>5 DEF FeedTyped
<1>7. ASSUME stalls = 0 PROVE FeedFlows'
  <2>1. FeedFlows
    BY <1>7 DEF FeedInv
  <2>2. Len(screenQueue') = 0
    BY <1>0, <1>1, <1>2, <2>1, LenProperties, EmptySeq DEF FeedTyped, FeedFlows
  <2>3. ~StateOnItsWay'
    BY <1>2, <2>2, EmptySeq DEF StateOnItsWay
  <2>4. lag \in 0..StaleAfter /\ shown \in Nat /\ sentState \in Nat /\ current \in Nat
    BY <1>0 DEF FeedTyped, FeedStates
  <2>5. CASE StateOnItsWay
    <3>1. shown' = sentState /\ shown <= sentState /\ (shown = sentState => lag = 0)
      BY <1>3, <2>1, <2>5 DEF FeedFlows
    <3>2. lag' = 0
      BY <1>1, <2>4, <3>1
    <3> QED BY <1>1, <2>1, <2>2, <2>3, <2>4, <3>1, <3>2 DEF FeedFlows
  <2>6. CASE ~StateOnItsWay
    <3>1. shown' = shown /\ lag' = lag
      BY <1>1, <1>3, <2>4, <2>6
    <3> QED BY <1>1, <2>1, <2>2, <2>3, <2>6, <3>1 DEF FeedFlows
  <2> QED BY <2>5, <2>6
<1> QED BY <1>1, <1>6, <1>7 DEF FeedInv

LEMMA FeedStep == FeedInv /\ [FeedNext]_feedVars => FeedInv'
<1> SUFFICES ASSUME FeedInv, [FeedNext]_feedVars PROVE FeedInv'
  OBVIOUS
<1> USE FeedNumbers
<1>0. FeedTyped
  BY DEF FeedInv
<1>1. CASE UNCHANGED feedVars
  BY <1>1 DEF feedVars, FeedInv, FeedTyped, FeedFlows, StateOnItsWay
<1>2. CASE StateChanges
  <2>1. /\ current < FeedChanges /\ current' = current + 1 /\ sentAgo2' = sentAgo2
        /\ UNCHANGED <<sentState, screenQueue, others, shown, frameAgo, heardAgo, lag, stalled, stalls>>
    BY <1>2 DEF StateChanges, AgeKept
  <2>2. current \in Nat /\ current' \in FeedStates /\ shown \in Nat /\ sentState \in Nat
    BY <1>0, <2>1 DEF FeedTyped, FeedStates
  <2>3. FeedTyped'
    BY <1>0, <2>1, <2>2 DEF FeedTyped
  <2>4. stalls = 0 => FeedFlows'
    BY <2>1, <2>2 DEF FeedInv, FeedFlows, StateOnItsWay
  <2> QED BY <2>1, <2>3, <2>4 DEF FeedInv
<1>3. CASE Watchdog \/ BeginAgain
  <2>1. /\ shown' = current /\ frameAgo' = 0 /\ screenQueue' = <<>> /\ heardAgo' = 0 /\ lag' = 0
        /\ UNCHANGED <<current, sentAgo2, sentState, others, stalls>>
    BY <1>3 DEF Watchdog, BeginAgain, Reconnected, Show
  <2>2. (stalled' = stalled) \/ (stalled /\ stalled' = FALSE)
    BY <1>3 DEF Watchdog, BeginAgain
  <2>3. stalled' \in BOOLEAN
    BY <1>0, <2>2 DEF FeedTyped
  <2>4. screenQueue' \in Seq(FeedMessages) /\ Len(screenQueue') = 0
    BY <2>1, EmptySeq
  <2>5. FeedTyped'
    BY <1>0, <2>1, <2>3, <2>4 DEF FeedTyped
  <2>6. ASSUME stalls = 0 PROVE FeedFlows'
    <3>1. FeedFlows
      BY <2>6 DEF FeedInv
    <3>2. ~stalled' /\ ~StateOnItsWay'
      BY <2>1, <2>2, <3>1 DEF FeedFlows, StateOnItsWay
    <3> QED BY <1>0, <2>1, <2>4, <3>1, <3>2 DEF FeedFlows, FeedTyped, FeedStates
  <2> QED BY <2>1, <2>5, <2>6 DEF FeedInv
<1>4. CASE Stall
  <2>1. /\ stalls < Stalls /\ stalls' = stalls + 1
        /\ UNCHANGED <<current, sentAgo2, sentState, screenQueue, others, shown, frameAgo, heardAgo, lag>>
    BY <1>4 DEF Stall
  <2>2. stalled' \in BOOLEAN
    BY <1>4 DEF Stall
  <2>3. stalls' \in 0..Stalls /\ stalls' # 0
    BY <1>0, <2>1 DEF FeedTyped
  <2> QED BY <1>0, <2>1, <2>2, <2>3 DEF FeedInv, FeedTyped
<1>5. CASE ReadOn
  <2>1. UNCHANGED <<current, sentAgo2, sentState, screenQueue, others, shown, frameAgo, heardAgo, lag, stalls>>
    BY <1>5 DEF ReadOn
  <2>2. stalled /\ stalled' \in BOOLEAN
    BY <1>5 DEF ReadOn
  <2>3. stalls # 0
    BY <2>2 DEF FeedInv, FeedFlows
  <2> QED BY <1>0, <2>1, <2>2, <2>3 DEF FeedInv, FeedTyped
<1> QED BY <1>1, <1>2, <1>3, <1>4, <1>5, FeedTickKeeps, ForcedKeeps, OtherKeeps, StreamKeeps DEF FeedNext

\* A screen that takes what it is sent is never behind for longer than the least gap
\* (live_push_min_s), whatever Takt holds back and however the state changes meanwhile.
THEOREM FeedOnTime == FeedSpec => [](FeedTypeOK /\ OnTime)
<1>1. FeedInit => FeedInv
  BY FeedStarts
<1>2. FeedInv /\ [FeedNext]_feedVars => FeedInv'
  BY FeedStep
<1>3. FeedInv => FeedTypeOK /\ OnTime
  BY DEF FeedInv, FeedTyped, FeedFlows, FeedStates, FeedTypeOK, OnTime
<1> QED BY <1>1, <1>2, <1>3, PTL DEF FeedSpec

----------------------------------------------------------------------------
(***************************************************************************)
(* Proofs about HeatPumpController, for every value of the limits:         *)
(* the types, that a release is earned, that a run is not cut short, and   *)
(* that K1 changes no more often than it may.                              *)
(*                                                                         *)
(* The invariant relates each instant the controller remembers to the      *)
(* history it stands for.  TickDecides says what all branches of tick()    *)
(* have in common, so that the invariant is shown for one decision instead *)
(* of for every branch.                                                    *)
(***************************************************************************)

Releasing == {"ARMING", "RELEASED", "RUNNING_RELEASED"}

\* The on delay is measured from an instant since which there was a trigger and no blocker.
DelayMeasured == state = "ARMING" => timer.arming # None /\ readyFor >= timer.arming

\* The grace is measured from an instant since which a sensor has been missing.
GraceMeasured == state \in Releasing /\ timer.sensorBad # None => badFor >= timer.sensorBad

\* In FAILSAFE, the changes of the last hour happened before the pause began; otherwise the
\* controller knows them all.
ChangesKnown ==
  IF state = "FAILSAFE"
  THEN /\ k1 = FALSE /\ changes = {} /\ timer.failsafe # None
       /\ \A a \in switches : a >= timer.failsafe
       /\ Cardinality(switches) <= MaxToggles + 1
  ELSE /\ timer.failsafe = None
       /\ switches \subseteq changes
       /\ Cardinality(changes) <= MaxToggles

\* A released pump is asked to run.
Asked == state \in {"RELEASED", "RUNNING_RELEASED"} => k1 = TRUE

IInv == HTypeOK /\ DelayMeasured /\ GraceMeasured /\ ChangesKnown /\ Asked

----------------------------------------------------------------------------
(* Ages and limits *)

LEMMA LimitFacts ==
  /\ Horizon \in Nat /\ Debounce \in Nat /\ MaxStarts \in Nat
  /\ Gap \in Nat \ {0} /\ MaxToggles \in Nat
  /\ OnDelay \in Nat /\ OffDelay \in Nat /\ MinRun \in Nat /\ MinOff \in Nat
  /\ StartTimeout \in Nat /\ SensorGrace \in Nat /\ OwnControl \in Nat /\ StopConfirm \in Nat
  /\ Hour \in Nat /\ FailsafeHold \in Nat /\ Hour <= FailsafeHold
  /\ FailsafeHold <= Horizon
  <1>1. Horizon \in Nat /\ Debounce \in Nat /\ MaxStarts \in Nat
    BY TrackerAssumption
  <1>2. \A n \in Limits : n \in Nat /\ n <= Horizon
    BY <1>1, ControllerAssumption
  <1>3. /\ OnDelay \in Limits /\ OffDelay \in Limits /\ MinRun \in Limits /\ MinOff \in Limits
        /\ SensorGrace \in Limits /\ FailsafeHold \in Limits
    BY DEF Limits
  <1> QED
    BY <1>1, <1>2, <1>3, ControllerAssumption

LEMMA LaterFacts ==
  ASSUME NEW age \in Ages, NEW dt \in Nat
  PROVE  /\ Later(age, dt) \in Ages
         /\ Later(age, dt) = None <=> age = None
         /\ age # None => Later(age, dt) \in Nat /\ Later(age, dt) <= age + dt
  BY LimitFacts DEF Later, Ages, None

LEMMA LaterMonotone ==
  ASSUME NEW a \in Ages, NEW b \in Ages, NEW dt \in Nat, a >= b
  PROVE  Later(a, dt) >= Later(b, dt)
  BY LimitFacts DEF Later, Ages, None

LEMMA SinceFacts ==
  ASSUME NEW age \in Ages
  PROVE  /\ Since(age) \in Ages /\ Since(age) # None /\ Since(age) >= 0
         /\ age # None => Since(age) = age
  BY LimitFacts DEF Since, Ages, None

LEMMA AgedType ==
  ASSUME HTypeOK, NEW dt \in Nat
  PROVE  Aged(dt) \in Timers
  <1>1. /\ timer.arming \in Ages /\ timer.released \in Ages /\ timer.holdBroken \in Ages
        /\ timer.sensorBad \in Ages /\ timer.cooldown \in Ages
        /\ timer.notResponding \in Ages /\ timer.failsafe \in Ages
    BY DEF HTypeOK, TypeOK, Timers
  <1> QED
    BY <1>1, LaterFacts DEF Aged, Timers

LEMMA TrackType ==
  ASSUME HTypeOK, NEW dt \in Nat, NEW power, NEW newDay, Track(dt, power, newDay)
  PROVE  TrackerTypeOK'
  <1> DEFINE today == IF newDay THEN 0 ELSE starts
  <1>1. /\ running \in BOOLEAN /\ runAge \in Ages /\ stopAge \in Ages /\ candidate \in Ages
        /\ starts \in 0..MaxStarts /\ today \in 0..MaxStarts
    BY LimitFacts DEF HTypeOK, TypeOK, TrackerTypeOK
  <1>2. /\ Later(runAge, dt) \in Ages /\ Later(stopAge, dt) \in Ages
        /\ Later(candidate, dt) \in Ages /\ None \in Ages /\ 0 \in Ages
    BY <1>1, LaterFacts, LimitFacts DEF Ages, None
  <1>3. Steady(dt, power, today) \/ Suspect(dt, power, today) \/ Flip(dt, power, today)
    BY DEF Track
  <1>4. CASE Steady(dt, power, today)
    BY <1>1, <1>2, <1>4 DEF Steady, TrackerTypeOK
  <1>5. CASE Suspect(dt, power, today)
    BY <1>1, <1>2, <1>5 DEF Suspect, TrackerTypeOK
  <1>6. CASE Flip(dt, power, today)
    <2>1. starts' \in 0..MaxStarts
      BY <1>1, <1>6, LimitFacts DEF Flip
    <2> QED
      BY <1>1, <1>2, <1>6, <2>1 DEF Flip, TrackerTypeOK
  <1> QED
    BY <1>3, <1>4, <1>5, <1>6

(* Sets of ages *)

LEMMA OlderFacts ==
  ASSUME NEW S \in SUBSET (0..Hour), NEW dt \in Nat
  PROVE  /\ IsFiniteSet(S) /\ Cardinality(S) \in Nat
         /\ IsFiniteSet(Older(S, dt)) /\ Cardinality(Older(S, dt)) <= Cardinality(S)
         /\ Cardinality(Older(S, dt)) \in Nat
         /\ Older(S, dt) \in SUBSET Nat
  <1>1. IsFiniteSet(S) /\ Cardinality(S) \in Nat
    <2>1. IsFiniteSet(0..Hour)
      BY FS_Interval, LimitFacts
    <2>2. IsFiniteSet(S)
      BY <2>1, FS_Subset
    <2> QED
      BY <2>2, FS_CardinalityType
  <1> DEFINE f == [a \in S |-> a + dt]
  <1>2. f \in Surjection(S, Older(S, dt))
    BY DEF Surjection, Older
  <1>3. /\ IsFiniteSet(Older(S, dt)) /\ Cardinality(Older(S, dt)) <= Cardinality(S)
    BY <1>1, <1>2, FS_Surjection
  <1>4. Older(S, dt) \in SUBSET Nat
    BY LimitFacts DEF Older
  <1> QED
    BY <1>1, <1>3, <1>4, FS_CardinalityType

\* A subset of the older ages, with one more or without, has at most one more element.
LEMMA OneMore ==
  ASSUME NEW S \in SUBSET (0..Hour), NEW dt \in Nat, NEW T, NEW b \in BOOLEAN,
         T \subseteq Older(S, dt)
  PROVE  LET U == T \cup (IF b THEN {0} ELSE {}) IN
         /\ IsFiniteSet(U) /\ Cardinality(U) \in Nat
         /\ Cardinality(U) <= Cardinality(S) + 1
         /\ ~b => Cardinality(U) <= Cardinality(S)
  <1>1. IsFiniteSet(T) /\ Cardinality(T) <= Cardinality(S) /\ Cardinality(T) \in Nat
    <2>1. IsFiniteSet(T) /\ Cardinality(T) <= Cardinality(Older(S, dt))
      BY OlderFacts, FS_Subset
    <2>2. Cardinality(T) \in Nat
      BY <2>1, FS_CardinalityType
    <2> QED
      BY <2>1, <2>2, OlderFacts
  <1>2. Cardinality(S) \in Nat
    BY OlderFacts
  <1>3. CASE b
    <2>1. IsFiniteSet(T \cup {0})
          /\ Cardinality(T \cup {0}) = IF 0 \in T THEN Cardinality(T) ELSE Cardinality(T) + 1
      BY <1>1, FS_AddElement
    <2> QED
      BY <1>1, <1>2, <1>3, <2>1
  <1>4. CASE ~b
    <2>1. T \cup (IF b THEN {0} ELSE {}) = T
      BY <1>4
    <2> QED
      BY <1>1, <1>2, <1>4, <2>1
  <1> QED
    BY <1>3, <1>4

----------------------------------------------------------------------------
(* What the branches of tick() have in common *)

\* ARMING and RELEASED are entered with a trigger and no blocker, RELEASED after the delay.
ReleaseEarned(dt, i, m, t, s) ==
  /\ s = "ARMING" => /\ m = "AUTO" /\ i.sensors /\ Ready(i, Aged(dt))
                     /\ \/ t.arming = 0
                        \/ state = "ARMING" /\ t.arming = Later(timer.arming, dt)
  /\ s = "RELEASED" => \/ state = "RELEASED"
                       \/ /\ state = "ARMING" /\ m = "AUTO" /\ Ready(i, Aged(dt))
                          /\ Later(timer.arming, dt) >= OnDelay

\* On the way to a release and in it, every tick looks after sensor_bad_since.
SensorsFollowed(dt, i, m, t, s) ==
  s \in Releasing => /\ m = "AUTO"
                     /\ t.sensorBad = SensorBadSince(i, Later(timer.sensorBad, dt))
                     /\ state \in Releasing \/ i.sensors

\* A run is ended for one of four reasons.
RunEnded(dt, i, m, s, on) ==
  state = "RUNNING_RELEASED" /\ on = FALSE /\ s \notin {"OFF", "MANUAL"} =>
    /\ m = "AUTO"
    /\ \/ i.full
       \/ ~i.sensors /\ Reached(SensorBadSince(i, Later(timer.sensorBad, dt)), SensorGrace)
       \/ ~running' /\ Reached(stopAge', StopConfirm + 1)
       \/ ~i.hold /\ Reached(runAge', MinRun)

Decided(dt, i, m, t, s, on) ==
  /\ t \in Timers /\ s \in States \ {"FAILSAFE"} /\ on \in BOOLEAN
  /\ t.failsafe = None
  /\ Decide(dt, t, s, on)
  /\ ReleaseEarned(dt, i, m, t, s)
  /\ SensorsFollowed(dt, i, m, t, s)
  /\ RunEnded(dt, i, m, s, on)
  /\ s \in {"RELEASED", "RUNNING_RELEASED"} => on = TRUE

Outcome(dt, i, m) == \E t, s, on : Decided(dt, i, m, t, s, on)

\* What tick() has brought up to date before it branches.
UpToDate(dt, i, t) ==
  /\ t \in Timers /\ t.failsafe = None
  /\ t.notResponding = Aged(dt).notResponding
  /\ t.sensorBad = SensorBadSince(i, Later(timer.sensorBad, dt))

LEMMA ReadyFacts ==
  ASSUME NEW dt, NEW i, NEW t, UpToDate(dt, i, t), Ready(i, t)
  PROVE  i.sensors /\ Ready(i, Aged(dt))
  BY DEF UpToDate, Ready, Blocked

LEMMA IdleDecides ==
  ASSUME NEW dt, NEW i, NEW t, UpToDate(dt, i, t), state # "RUNNING_RELEASED", Idle(dt, i, t)
  PROVE  Outcome(dt, i, "AUTO")
  <1> DEFINE u == [t EXCEPT !.arming = 0]
  <1>1. CASE Ready(i, t)
    <2>1. Decide(dt, u, "ARMING", FALSE)
      BY <1>1 DEF Idle
    <2>2. u \in Timers /\ u.failsafe = None /\ u.arming = 0 /\ u.sensorBad = t.sensorBad
      BY LimitFacts DEF UpToDate, Timers, Ages
    <2>3. i.sensors /\ Ready(i, Aged(dt))
      BY <1>1, ReadyFacts
    <2>4. Decided(dt, i, "AUTO", u, "ARMING", FALSE)
      BY <2>1, <2>2, <2>3
      DEF Decided, ReleaseEarned, SensorsFollowed, RunEnded, UpToDate, States
    <2> QED
      BY <2>4 DEF Outcome
  <1>2. CASE ~Ready(i, t)
    <2>1. Decide(dt, t, "IDLE", FALSE)
      BY <1>2 DEF Idle
    <2>2. Decided(dt, i, "AUTO", t, "IDLE", FALSE)
      BY <2>1 DEF Decided, ReleaseEarned, SensorsFollowed, RunEnded, UpToDate, States, Releasing
    <2> QED
      BY <2>2 DEF Outcome
  <1> QED
    BY <1>1, <1>2

LEMMA CooldownDecides ==
  ASSUME NEW dt, NEW i, NEW t, UpToDate(dt, i, t), state # "RUNNING_RELEASED", Cooldown(dt, i, t)
  PROVE  Outcome(dt, i, "AUTO")
  <1> DEFINE u == [t EXCEPT !.cooldown = Since(@)]
             v == [u EXCEPT !.cooldown = None]
  <1>1. Since(t.cooldown) \in Ages /\ None \in Ages
    BY SinceFacts, LimitFacts DEF UpToDate, Timers, Ages, None
  <1>2. UpToDate(dt, i, u)
    BY <1>1 DEF UpToDate, Timers
  <1>3. UpToDate(dt, i, v)
    BY <1>1, <1>2 DEF UpToDate, Timers
  <1>4. CASE CooldownOver(u)
    <2>1. Idle(dt, i, v)
      BY <1>4 DEF Cooldown
    <2> QED
      BY <1>3, <2>1, IdleDecides
  <1>5. CASE ~CooldownOver(u)
    <2>1. Decide(dt, u, "COOLDOWN", FALSE)
      BY <1>5 DEF Cooldown
    <2>2. Decided(dt, i, "AUTO", u, "COOLDOWN", FALSE)
      BY <1>2, <2>1 DEF Decided, ReleaseEarned, SensorsFollowed, RunEnded, UpToDate, States, Releasing
    <2> QED
      BY <2>2 DEF Outcome
  <1> QED
    BY <1>4, <1>5

LEMMA ArmingDecides ==
  ASSUME NEW dt, NEW i, NEW t, UpToDate(dt, i, t), t.arming = Later(timer.arming, dt),
         state = "ARMING", Arming(dt, i, t)
  PROVE  Outcome(dt, i, "AUTO")
  <1> DEFINE u == [t EXCEPT !.arming = None]
             v == [u EXCEPT !.released = 0]
  <1>1. /\ u \in Timers /\ u.failsafe = None /\ u.sensorBad = t.sensorBad
        /\ v \in Timers /\ v.failsafe = None /\ v.sensorBad = t.sensorBad
    <2>1. None \in Ages /\ 0 \in Ages
      BY LimitFacts DEF Ages, None
    <2> QED
      BY <2>1 DEF UpToDate, Timers
  <1>2. CASE StillReady(i, t) /\ t.arming >= OnDelay /\ Decide(dt, v, "RELEASED", TRUE)
    <2>1. i.sensors /\ Ready(i, Aged(dt))
      BY <1>2, ReadyFacts DEF StillReady
    <2>2. Decided(dt, i, "AUTO", v, "RELEASED", TRUE)
      BY <1>1, <1>2, <2>1
      DEF Decided, ReleaseEarned, SensorsFollowed, RunEnded, UpToDate, States, Releasing
    <2> QED
      BY <2>2 DEF Outcome
  <1>3. CASE StillReady(i, t) /\ Decide(dt, t, "ARMING", FALSE)
    <2>1. i.sensors /\ Ready(i, Aged(dt))
      BY <1>3, ReadyFacts DEF StillReady
    <2>2. Decided(dt, i, "AUTO", t, "ARMING", FALSE)
      BY <1>3, <2>1
      DEF Decided, ReleaseEarned, SensorsFollowed, RunEnded, UpToDate, States, Releasing
    <2> QED
      BY <2>2 DEF Outcome
  <1>4. CASE Decide(dt, u, "IDLE", FALSE)
    <2>1. Decided(dt, i, "AUTO", u, "IDLE", FALSE)
      BY <1>1, <1>4 DEF Decided, ReleaseEarned, SensorsFollowed, RunEnded, States, Releasing
    <2> QED
      BY <2>1 DEF Outcome
  <1> QED
    BY <1>2, <1>3, <1>4 DEF Arming

LEMMA ReleasedDecides ==
  ASSUME NEW dt, NEW i, NEW t, UpToDate(dt, i, t), state = "RELEASED", Released(dt, i, t)
  PROVE  Outcome(dt, i, "AUTO")
  <1> DEFINE u == [t EXCEPT !.released = None]
             v == [u EXCEPT !.notResponding = 0]
  <1>1. /\ u \in Timers /\ u.failsafe = None /\ u.sensorBad = t.sensorBad
        /\ v \in Timers /\ v.failsafe = None /\ v.sensorBad = t.sensorBad
    <2>1. None \in Ages /\ 0 \in Ages
      BY LimitFacts DEF Ages, None
    <2> QED
      BY <2>1 DEF UpToDate, Timers
  <1>2. CASE Decide(dt, u, "IDLE", FALSE)
    <2>1. Decided(dt, i, "AUTO", u, "IDLE", FALSE)
      BY <1>1, <1>2 DEF Decided, ReleaseEarned, SensorsFollowed, RunEnded, States, Releasing
    <2> QED
      BY <2>1 DEF Outcome
  <1>3. CASE Decide(dt, v, "IDLE", FALSE)
    <2>1. Decided(dt, i, "AUTO", v, "IDLE", FALSE)
      BY <1>1, <1>3 DEF Decided, ReleaseEarned, SensorsFollowed, RunEnded, States, Releasing
    <2> QED
      BY <2>1 DEF Outcome
  <1>4. CASE Decide(dt, u, "RUNNING_RELEASED", TRUE)
    <2>1. Decided(dt, i, "AUTO", u, "RUNNING_RELEASED", TRUE)
      BY <1>1, <1>4
      DEF Decided, ReleaseEarned, SensorsFollowed, RunEnded, UpToDate, States, Releasing
    <2> QED
      BY <2>1 DEF Outcome
  <1>5. CASE Decide(dt, t, "RELEASED", TRUE)
    <2>1. Decided(dt, i, "AUTO", t, "RELEASED", TRUE)
      BY <1>5 DEF Decided, ReleaseEarned, SensorsFollowed, RunEnded, UpToDate, States, Releasing
    <2> QED
      BY <2>1 DEF Outcome
  <1> QED
    BY <1>2, <1>3, <1>4, <1>5 DEF Released

LEMMA RunningDecides ==
  ASSUME NEW dt, NEW i, NEW t, UpToDate(dt, i, t), state = "RUNNING_RELEASED",
         RunningReleased(dt, i, t)
  PROVE  Outcome(dt, i, "AUTO")
  <1> DEFINE kept == [t EXCEPT !.holdBroken = Since(@)]
             gone == [kept EXCEPT !.holdBroken = None]
             held == [t EXCEPT !.holdBroken = None]
  <1>1. Since(t.holdBroken) \in Ages /\ None \in Ages
    BY SinceFacts, LimitFacts DEF UpToDate, Timers, Ages, None
  <1>2. /\ kept \in Timers /\ kept.failsafe = None /\ kept.sensorBad = t.sensorBad
        /\ gone \in Timers /\ gone.failsafe = None /\ gone.sensorBad = t.sensorBad
        /\ held \in Timers /\ held.failsafe = None /\ held.sensorBad = t.sensorBad
    BY <1>1 DEF UpToDate, Timers
  <1>3. CASE /\ \/ i.full \/ SensorsGone(i, t)
                \/ ~running' /\ Reached(stopAge', StopConfirm + 1)
             /\ Decide(dt, t, "COOLDOWN", FALSE)
    <2>1. Decided(dt, i, "AUTO", t, "COOLDOWN", FALSE)
      BY <1>3
      DEF Decided, ReleaseEarned, SensorsFollowed, RunEnded, UpToDate, States, Releasing, SensorsGone
    <2> QED
      BY <2>1 DEF Outcome
  <1>4. CASE Decide(dt, held, "RUNNING_RELEASED", TRUE)
    <2>1. Decided(dt, i, "AUTO", held, "RUNNING_RELEASED", TRUE)
      BY <1>2, <1>4
      DEF Decided, ReleaseEarned, SensorsFollowed, RunEnded, UpToDate, States, Releasing
    <2> QED
      BY <2>1 DEF Outcome
  <1>5. CASE ~i.hold /\ HoldBroken(dt, t)
    <2>1. CASE Decide(dt, kept, "RUNNING_RELEASED", TRUE)
      <3>1. Decided(dt, i, "AUTO", kept, "RUNNING_RELEASED", TRUE)
        BY <1>2, <2>1
        DEF Decided, ReleaseEarned, SensorsFollowed, RunEnded, UpToDate, States, Releasing
      <3> QED
        BY <3>1 DEF Outcome
    <2>2. CASE RunLongEnough /\ Decide(dt, gone, "COOLDOWN", FALSE)
      <3>1. Decided(dt, i, "AUTO", gone, "COOLDOWN", FALSE)
        BY <1>2, <1>5, <2>2
        DEF Decided, ReleaseEarned, SensorsFollowed, RunEnded, States, Releasing, RunLongEnough
      <3> QED
        BY <3>1 DEF Outcome
    <2> QED
      BY <1>5, <2>1, <2>2 DEF HoldBroken
  <1> QED
    BY <1>3, <1>4, <1>5 DEF RunningReleased

LEMMA SensorBadType ==
  ASSUME NEW i, NEW age \in Ages
  PROVE  SensorBadSince(i, age) \in Ages
  BY LimitFacts, SinceFacts DEF SensorBadSince, Ages, None

LEMMA AutoDecides ==
  ASSUME NEW dt, NEW i, NEW s, NEW t \in Timers, t.failsafe = None,
         t.notResponding = Aged(dt).notResponding, t.arming = Later(timer.arming, dt),
         t.sensorBad = Later(timer.sensorBad, dt),
         s \in {"OFF", "MANUAL", "IDLE"} => state # "RUNNING_RELEASED",
         s \in {"ARMING", "RELEASED", "RUNNING_RELEASED", "COOLDOWN"} => state = s,
         AutoMode(dt, i, s, t)
  PROVE  Outcome(dt, i, "AUTO")
  <1> DEFINE u == [t EXCEPT !.sensorBad = SensorBadSince(i, t.sensorBad)]
             v == [u EXCEPT !.holdBroken = None]
  <1>1. None \in Ages /\ SensorBadSince(i, t.sensorBad) \in Ages
    BY LimitFacts, SensorBadType DEF Ages, None, Timers
  <1>2. UpToDate(dt, i, u) /\ u.arming = Later(timer.arming, dt)
    BY <1>1 DEF UpToDate, Timers
  <1>3. UpToDate(dt, i, v)
    BY <1>1, <1>2 DEF UpToDate, Timers
  <1>4. CASE s \in {"OFF", "MANUAL"} /\ Idle(dt, i, v)
    BY <1>3, <1>4, IdleDecides
  <1>5. CASE s = "IDLE" /\ Idle(dt, i, u)
    BY <1>2, <1>5, IdleDecides
  <1>6. CASE s = "COOLDOWN" /\ Cooldown(dt, i, u)
    BY <1>2, <1>6, CooldownDecides
  <1>7. CASE s = "ARMING" /\ Arming(dt, i, u)
    BY <1>2, <1>7, ArmingDecides
  <1>8. CASE s = "RELEASED" /\ Released(dt, i, u)
    BY <1>2, <1>8, ReleasedDecides
  <1>9. CASE s = "RUNNING_RELEASED" /\ RunningReleased(dt, i, u)
    BY <1>2, <1>9, RunningDecides
  <1> QED
    BY <1>4, <1>5, <1>6, <1>7, <1>8, <1>9 DEF AutoMode

LEMMA TickDecides ==
  ASSUME HTypeOK, NEW dt \in Nat, NEW i \in Measured, NEW m, ByMode(dt, i, m)
  PROVE  Outcome(dt, i, m)
  <1> DEFINE t == [Aged(dt) EXCEPT !.failsafe = None]
             off == Interrupted(t)
  <1>1. None \in Ages /\ Aged(dt) \in Timers
    BY AgedType, LimitFacts DEF Ages, None
  <1>2. /\ t \in Timers /\ t.failsafe = None /\ t.notResponding = Aged(dt).notResponding
        /\ t.arming = Later(timer.arming, dt) /\ t.sensorBad = Later(timer.sensorBad, dt)
    BY <1>1 DEF Timers, Aged
  <1>3. off \in Timers /\ off.failsafe = None
    BY <1>1, <1>2 DEF Interrupted, Timers
  <1>4. ASSUME NEW s \in {"OFF", "MANUAL"}, NEW on \in BOOLEAN, Decide(dt, off, s, on)
        PROVE  Outcome(dt, i, m)
    <2>1. Decided(dt, i, m, off, s, on)
      BY <1>3, <1>4 DEF Decided, ReleaseEarned, SensorsFollowed, RunEnded, States, Releasing
    <2> QED
      BY <2>1 DEF Outcome
  <1>5. CASE m = "OFF" /\ Decide(dt, off, "OFF", FALSE)
    BY <1>4, <1>5
  <1>6. CASE m = "FORCE_OFF" /\ Decide(dt, off, "MANUAL", FALSE)
    BY <1>4, <1>6
  <1>7. CASE m = "FORCE_RELEASE" /\ Decide(dt, off, "MANUAL", ~i.full)
    <2>1. (~i.full) \in BOOLEAN
      OBVIOUS
    <2> QED
      BY <1>4, <1>7, <2>1
  <1>8. CASE m = "AUTO" /\ AutoMode(dt, i, IF state = "FAILSAFE" THEN "IDLE" ELSE state, t)
    <2> DEFINE s == IF state = "FAILSAFE" THEN "IDLE" ELSE state
    <2>1. /\ s \in {"OFF", "MANUAL", "IDLE"} => state # "RUNNING_RELEASED"
          /\ s \in {"ARMING", "RELEASED", "RUNNING_RELEASED", "COOLDOWN"} => state = s
      OBVIOUS
    <2>2. AutoMode(dt, i, s, t)
      BY <1>8
    <2> HIDE DEF s
    <2> QED
      BY <1>2, <1>8, <2>1, <2>2, AutoDecides
  <1> QED
    BY <1>5, <1>6, <1>7, <1>8 DEF ByMode

----------------------------------------------------------------------------
(* Types *)

LEMMA StepFacts ==
  ASSUME HTypeOK, NEW dt \in 1..(Gap - pause)
  PROVE  dt \in Nat /\ dt > 0
  BY LimitFacts DEF HTypeOK, TypeOK

LEMMA RecentFacts ==
  ASSUME HTypeOK, NEW dt \in Nat, NEW on \in BOOLEAN
  PROVE  /\ Recent(dt, on) \in SUBSET (0..Hour)
         /\ Cardinality(Recent(dt, on)) \in Nat
  <1> DEFINE T == {a \in Older(changes, dt) : a <= Hour}
  <1>1. changes \in SUBSET (0..Hour)
    BY DEF HTypeOK, TypeOK
  <1>2. T \subseteq 0..Hour
    <2>1. Older(changes, dt) \in SUBSET Nat
      BY <1>1, OlderFacts
    <2> QED
      BY <2>1, LimitFacts
  <1>3. Recent(dt, on) \in SUBSET (0..Hour)
    BY <1>2, LimitFacts DEF Recent
  <1>4. Cardinality(Recent(dt, on)) \in Nat
    <2>1. IsFiniteSet(Recent(dt, on))
      <3>1. IsFiniteSet(0..Hour)
        BY FS_Interval, LimitFacts
      <3> QED
        BY <1>3, <3>1, FS_Subset
    <2> QED
      BY <2>1, FS_CardinalityType
  <1> QED
    BY <1>3, <1>4

LEMMA DecideType ==
  ASSUME HTypeOK, NEW dt \in Nat, NEW t \in Timers, NEW s \in States, NEW on \in BOOLEAN,
         Decide(dt, t, s, on)
  PROVE  /\ state' \in States /\ k1' \in BOOLEAN /\ timer' \in Timers
         /\ changes' \in SUBSET (0..Hour)
  <1>1. Recent(dt, on) \in SUBSET (0..Hour)
    BY RecentFacts
  <1>2. FailsafeTimer(t) \in Timers
    BY LimitFacts DEF FailsafeTimer, Timers, Ages
  <1> QED
    BY <1>1, <1>2 DEF Decide, States

LEMMA LastingType ==
  ASSUME NEW condition, NEW age \in Ages, NEW dt \in Nat
  PROVE  Lasting(condition, age, dt) \in Ages
  BY LaterFacts, SinceFacts, LimitFacts DEF Lasting, Ages, None

LEMMA MeasuredFacts ==
  ASSUME NEW m, NEW i \in Findings(m)
  PROVE  i \in Measured /\ i.full \in BOOLEAN /\ i.sensors \in BOOLEAN /\ i.hold \in BOOLEAN
  BY DEF Findings, NotAuto, InRelease, BeforeRelease, Measured

\* Either FAILSAFE goes on, or the tick decides as TickDecides says.
LEMMA TickCases ==
  ASSUME HTypeOK, NEW dt \in 1..(Gap - pause), NEW m, NEW i \in Findings(m), Tick(dt, i, m)
  PROVE  \/ Failsafe(dt)
         \/ /\ ~Within(Later(timer.failsafe, dt), FailsafeHold)
            /\ Outcome(dt, i, m)
  <1>1. dt \in Nat /\ i \in Measured
    BY StepFacts, MeasuredFacts
  <1>2. CASE ByMode(dt, i, m)
    <2>1. ~Within(Later(timer.failsafe, dt), FailsafeHold)
      BY <1>2 DEF ByMode
    <2> QED
      BY <1>1, <1>2, <2>1, TickDecides
  <1> QED
    BY <1>2 DEF Tick

LEMMA TickType ==
  ASSUME HTypeOK, NEW dt \in 1..(Gap - pause), NEW m, NEW i \in Findings(m), HTick(dt, i, m)
  PROVE  HTypeOK'
  <1>1. dt \in Nat /\ dt > 0 /\ i.full \in BOOLEAN
    BY StepFacts, MeasuredFacts
  <1>2. Tick(dt, i, m)
    BY DEF HTick
  <1>3. TrackerTypeOK'
    <2>1. Track(dt, i.power, i.newDay)
      BY <1>2 DEF Tick
    <2> QED
      BY <1>1, <2>1, TrackType
  <1>4. /\ state' \in States /\ k1' \in BOOLEAN /\ timer' \in Timers
        /\ changes' \in SUBSET (0..Hour)
    <2>1. CASE Failsafe(dt)
      <3>1. Aged(dt) \in Timers /\ "FAILSAFE" \in States /\ FALSE \in BOOLEAN
        BY <1>1, AgedType DEF States
      <3>2. Decide(dt, Aged(dt), "FAILSAFE", FALSE)
        BY <2>1 DEF Failsafe
      <3> QED
        BY <1>1, <3>1, <3>2, DecideType
    <2>2. CASE Outcome(dt, i, m)
      <3>1. PICK t, s, on : Decided(dt, i, m, t, s, on)
        BY <2>2 DEF Outcome
      <3>2. t \in Timers /\ s \in States /\ on \in BOOLEAN /\ Decide(dt, t, s, on)
        BY <3>1 DEF Decided
      <3> QED
        BY <1>1, <3>2, DecideType
    <2> QED
      BY <1>2, <2>1, <2>2, TickCases
  <1>5. full' \in BOOLEAN /\ pause' \in 0..(Gap - 1)
    BY <1>1, <1>2, LimitFacts DEF Tick, HTick
  <1>6. readyFor' \in Ages /\ badFor' \in Ages /\ brokenFor' \in Ages
    BY <1>1, LastingType DEF HTick, HTypeOK
  <1>8. switches' \in SUBSET (0..Hour)
    <2>1. Older(switches, dt) \in SUBSET Nat
      BY <1>1, OlderFacts DEF HTypeOK
    <2> QED
      BY <2>1, LimitFacts DEF HTick
  <1> QED
    BY <1>3, <1>4, <1>5, <1>6, <1>8 DEF HTypeOK, TypeOK

LEMMA LookType ==
  ASSUME HTypeOK, NEW dt \in 1..(Gap - pause - 1), NEW power, NEW newDay,
         HLook(dt, power, newDay)
  PROVE  HTypeOK'
  <1>1. dt \in Nat /\ pause \in Nat /\ pause + dt \in 0..(Gap - 1)
    BY LimitFacts DEF HTypeOK, TypeOK
  <1>2. TrackerTypeOK'
    <2>1. Track(dt, power, newDay)
      BY DEF HLook, Look
    <2> QED
      BY <1>1, <2>1, TrackType
  <1>3. timer' \in Timers
    BY <1>1, AgedType DEF HLook, Look
  <1>4. changes' \in SUBSET (0..Hour) /\ switches' \in SUBSET (0..Hour)
    <2>1. Older(changes, dt) \in SUBSET Nat /\ Older(switches, dt) \in SUBSET Nat
      BY <1>1, OlderFacts DEF HTypeOK, TypeOK
    <2> QED
      BY <2>1, LimitFacts DEF HLook, Look
  <1>5. readyFor' \in Ages /\ badFor' \in Ages /\ brokenFor' \in Ages
    BY <1>1, LaterFacts DEF HLook, HTypeOK
  <1>6. state' \in States /\ k1' \in BOOLEAN /\ full' \in BOOLEAN /\ pause' \in 0..(Gap - 1)
    BY <1>1 DEF HLook, Look, HTypeOK, TypeOK
  <1> QED
    BY <1>2, <1>3, <1>4, <1>5, <1>6 DEF HTypeOK, TypeOK

----------------------------------------------------------------------------
(* The toggle limit *)

\* The changes of the last hour after a step of dt that changed K1, or did not.
Switched(dt, changed) == {a \in Older(switches, dt) : a < Hour} \cup (IF changed THEN {0} ELSE {})

LEMMA DecideChanges ==
  ASSUME IInv, NEW dt \in Nat, ~Within(Later(timer.failsafe, dt), FailsafeHold),
         NEW t \in Timers, t.failsafe = None, NEW s \in States \ {"FAILSAFE"}, NEW on \in BOOLEAN,
         Decide(dt, t, s, on), switches' = Switched(dt, k1' # k1)
  PROVE  ChangesKnown'
  <1> DEFINE S == {a \in Older(switches, dt) : a < Hour}
  <1>1. /\ changes \in SUBSET (0..Hour) /\ switches \in SUBSET (0..Hour)
        /\ k1 \in BOOLEAN /\ timer.failsafe \in Ages
    BY DEF IInv, HTypeOK, TypeOK, Timers
  <1>2. Cardinality(changes) \in Nat /\ Cardinality(changes) <= MaxToggles
    <2>1. CASE state = "FAILSAFE"
      BY <2>1, FS_EmptySet, LimitFacts DEF IInv, ChangesKnown
    <2>2. CASE state # "FAILSAFE"
      BY <1>1, <2>2, OlderFacts DEF IInv, ChangesKnown
    <2> QED
      BY <2>1, <2>2
  <1>3. S \subseteq {a \in Older(changes, dt) : a <= Hour}
    <2>1. CASE state = "FAILSAFE"
      <3>1. timer.failsafe # None /\ \A a \in switches : a >= timer.failsafe
        BY <2>1 DEF IInv, ChangesKnown
      <3>2. /\ Later(timer.failsafe, dt) # None
            /\ Later(timer.failsafe, dt) \in Nat
            /\ Later(timer.failsafe, dt) <= timer.failsafe + dt
        BY <1>1, <3>1, LaterFacts
      <3>3. Later(timer.failsafe, dt) >= Hour
        BY <3>2, LimitFacts DEF Within
      <3>4. timer.failsafe \in Int /\ \A a \in switches : a \in Nat
        BY <1>1, LimitFacts DEF Ages
      <3>5. \A a \in switches : a + dt >= Hour
        BY <3>1, <3>2, <3>3, <3>4, LimitFacts
      <3> QED
        BY <3>4, <3>5, LimitFacts DEF Older
    <2>2. CASE state # "FAILSAFE"
      <3>1. switches \subseteq changes
        BY <2>2 DEF IInv, ChangesKnown
      <3> QED
        BY <1>1, <3>1, LimitFacts DEF Older
    <2> QED
      BY <2>1, <2>2
  <1>4. CASE Cardinality(Recent(dt, on)) > MaxToggles
    <2>1. state' = "FAILSAFE" /\ k1' = FALSE /\ changes' = {} /\ timer' = FailsafeTimer(t)
      BY <1>4 DEF Decide
    <2>2. timer'.failsafe = 0
      BY <2>1 DEF FailsafeTimer, Timers
    <2>3. \A a \in switches' : a >= 0
      <3>1. Older(switches, dt) \in SUBSET Nat
        BY <1>1, OlderFacts
      <3> QED
        BY <3>1 DEF Switched
    <2>4. Cardinality(switches') <= MaxToggles + 1
      <3> DEFINE b == k1' # k1
      <3>1. S \subseteq Older(changes, dt) /\ b \in BOOLEAN
        BY <1>3
      <3>2. switches' = S \cup (IF b THEN {0} ELSE {})
        BY DEF Switched
      <3> HIDE DEF b, S
      <3>3. Cardinality(switches') \in Nat /\ Cardinality(switches') <= Cardinality(changes) + 1
        BY <1>1, <3>1, <3>2, OneMore
      <3> QED
        BY <1>2, <3>3, LimitFacts
    <2> QED
      BY <2>1, <2>2, <2>3, <2>4 DEF ChangesKnown, None
  <1>5. CASE ~(Cardinality(Recent(dt, on)) > MaxToggles)
    <2>1. state' = s /\ k1' = on /\ changes' = Recent(dt, on) /\ timer' = t
      BY <1>5 DEF Decide
    <2>2. Cardinality(changes') <= MaxToggles
      BY <1>1, <1>5, <2>1, RecentFacts, LimitFacts DEF IInv
    <2>3. switches' \subseteq changes'
      BY <1>3, <2>1 DEF Switched, Recent
    <2> QED
      BY <2>1, <2>2, <2>3 DEF ChangesKnown
  <1> QED
    BY <1>4, <1>5

LEMMA FailsafeChanges ==
  ASSUME IInv, NEW dt \in Nat, Failsafe(dt), switches' = Switched(dt, k1' # k1)
  PROVE  ChangesKnown' /\ state' = "FAILSAFE" /\ state = "FAILSAFE"
  <1>1. /\ timer \in Timers /\ timer.failsafe \in Ages /\ switches \in SUBSET (0..Hour)
    BY DEF IInv, HTypeOK, TypeOK, Timers
  <1>2. timer.failsafe # None
    BY <1>1, LaterFacts DEF Failsafe, Within
  <1>3. /\ state = "FAILSAFE" /\ k1 = FALSE /\ changes = {}
        /\ \A a \in switches : a >= timer.failsafe
        /\ Cardinality(switches) <= MaxToggles + 1
    BY <1>2 DEF IInv, ChangesKnown
  <1>4. Recent(dt, FALSE) = {}
    BY <1>3 DEF Recent, Older
  <1>5. state' = "FAILSAFE" /\ k1' = FALSE /\ changes' = {} /\ timer' = Aged(dt)
    <2>1. ~(Cardinality(Recent(dt, FALSE)) > MaxToggles)
      <3>1. Cardinality(Recent(dt, FALSE)) = 0
        BY <1>4, FS_EmptySet
      <3>2. MaxToggles \in Nat /\ ~(0 > MaxToggles)
        BY LimitFacts
      <3> QED
        BY <3>1, <3>2, Zenon
    <2> QED
      BY <1>4, <2>1 DEF Failsafe, Decide
  <1>6. timer'.failsafe = Later(timer.failsafe, dt) /\ timer'.failsafe # None
    BY <1>1, <1>2, <1>5, LaterFacts DEF Aged
  <1>7. \A a \in switches' : a >= timer'.failsafe
    <2>1. switches' \subseteq Older(switches, dt)
      BY <1>3, <1>5 DEF Switched
    <2>2. \A a \in switches : a + dt >= timer'.failsafe
      BY <1>1, <1>2, <1>3, <1>6, LaterFacts, LimitFacts DEF Ages, None
    <2> QED
      BY <2>1, <2>2 DEF Older
  <1>8. Cardinality(switches') <= MaxToggles + 1
    <2>1. switches' \subseteq Older(switches, dt)
      BY <1>3, <1>5 DEF Switched
    <2>2. /\ Cardinality(switches') \in Nat /\ Cardinality(switches) \in Nat
          /\ Cardinality(switches') <= Cardinality(switches)
      <3>1. /\ Cardinality(switches) \in Nat /\ IsFiniteSet(Older(switches, dt))
            /\ Cardinality(Older(switches, dt)) \in Nat
            /\ Cardinality(Older(switches, dt)) <= Cardinality(switches)
        BY <1>1, OlderFacts
      <3>2. IsFiniteSet(switches') /\ Cardinality(switches') <= Cardinality(Older(switches, dt))
        BY <2>1, <3>1, FS_Subset
      <3>3. Cardinality(switches') \in Nat
        BY <3>2, FS_CardinalityType
      <3> QED
        BY <3>1, <3>2, <3>3
    <2> QED
      BY <1>3, <2>2, LimitFacts
  <1> QED
    BY <1>3, <1>5, <1>6, <1>7, <1>8 DEF ChangesKnown

LEMMA LookChanges ==
  ASSUME IInv, NEW dt \in Nat, NEW power, NEW newDay, HLook(dt, power, newDay)
  PROVE  ChangesKnown'
  <1>1. /\ timer \in Timers /\ timer.failsafe \in Ages
        /\ switches \in SUBSET (0..Hour) /\ changes \in SUBSET (0..Hour)
    BY DEF IInv, HTypeOK, TypeOK, Timers
  <1>2. /\ state' = state /\ k1' = k1 /\ timer'.failsafe = Later(timer.failsafe, dt)
        /\ changes' = {a \in Older(changes, dt) : a <= Hour}
        /\ switches' = {a \in Older(switches, dt) : a < Hour}
    BY DEF HLook, Look, Aged
  <1>3. timer'.failsafe = None <=> timer.failsafe = None
    BY <1>1, <1>2, LaterFacts
  <1>4. ASSUME NEW S \in SUBSET (0..Hour), NEW T, T \subseteq Older(S, dt)
        PROVE  Cardinality(T) \in Nat /\ Cardinality(T) <= Cardinality(S) /\ Cardinality(S) \in Nat
    <2>1. IsFiniteSet(T) /\ Cardinality(T) <= Cardinality(Older(S, dt))
      BY <1>4, OlderFacts, FS_Subset
    <2>2. Cardinality(T) \in Nat
      BY <2>1, FS_CardinalityType
    <2> QED
      BY <2>1, <2>2, OlderFacts
  <1>5. CASE state = "FAILSAFE"
    <2>1. /\ k1 = FALSE /\ changes = {} /\ timer.failsafe # None
          /\ \A a \in switches : a >= timer.failsafe
          /\ Cardinality(switches) <= MaxToggles + 1
      BY <1>5 DEF IInv, ChangesKnown
    <2>2. changes' = {}
      BY <1>2, <2>1 DEF Older
    <2>3. \A a \in switches' : a >= timer'.failsafe
      <3>1. timer'.failsafe \in Nat /\ timer'.failsafe <= timer.failsafe + dt
        BY <1>1, <1>2, <2>1, LaterFacts
      <3>2. timer.failsafe \in Int /\ \A a \in switches : a \in Nat
        BY <1>1, LimitFacts DEF Ages
      <3>3. \A a \in switches : a + dt >= timer'.failsafe
        BY <2>1, <3>1, <3>2
      <3> QED
        BY <1>2, <3>3 DEF Older
    <2>4. Cardinality(switches') <= MaxToggles + 1
      <3>1. switches' \subseteq Older(switches, dt)
        BY <1>2
      <3> QED
        BY <1>1, <1>4, <2>1, <3>1, LimitFacts
    <2> QED
      BY <1>2, <1>3, <1>5, <2>1, <2>2, <2>3, <2>4 DEF ChangesKnown
  <1>6. CASE state # "FAILSAFE"
    <2>1. /\ timer.failsafe = None /\ switches \subseteq changes
          /\ Cardinality(changes) <= MaxToggles
      BY <1>6 DEF IInv, ChangesKnown
    <2>2. switches' \subseteq changes'
      BY <1>1, <1>2, <2>1, LimitFacts DEF Older
    <2>3. Cardinality(changes') <= MaxToggles
      <3>1. changes' \subseteq Older(changes, dt)
        BY <1>2
      <3> QED
        BY <1>1, <1>4, <2>1, <3>1, LimitFacts
    <2> QED
      BY <1>2, <1>3, <1>6, <2>1, <2>2, <2>3 DEF ChangesKnown
  <1> QED
    BY <1>5, <1>6

----------------------------------------------------------------------------
(* The instants *)

LEMMA LastingFacts ==
  ASSUME NEW age \in Ages, NEW dt \in Nat
  PROVE  /\ Lasting(TRUE, age, dt) >= 0 /\ Lasting(TRUE, age, dt) # None
         /\ Lasting(TRUE, age, dt) >= Later(age, dt)
  <1> DEFINE later == Later(age, dt)
  <1>1. later \in Ages
    BY LaterFacts
  <1>2. Since(later) >= 0 /\ Since(later) # None /\ Since(later) >= later
    BY <1>1, LimitFacts DEF Since, Ages, None
  <1> QED
    BY <1>2 DEF Lasting

\* What the history says when the delay is kept on measuring.
LEMMA ReadyMeasured ==
  ASSUME IInv, NEW dt \in Nat, NEW m, NEW i, HTick(dt, i, m),
         ~Within(Later(timer.failsafe, dt), FailsafeHold),
         m = "AUTO", Ready(i, Aged(dt)), state' \in {"ARMING", "RELEASED"}
  PROVE  /\ readyFor' >= 0
         /\ state = "ARMING" => readyFor' >= Later(timer.arming, dt)
  <1>1. readyFor \in Ages /\ timer.arming \in Ages
    BY DEF IInv, HTypeOK, TypeOK, Timers
  <1>2. readyFor' = Lasting(TRUE, readyFor, dt)
    BY DEF HTick, Lasting
  <1>3. readyFor' >= 0 /\ readyFor' >= Later(readyFor, dt) /\ readyFor' \in Ages
    BY <1>1, <1>2, LastingFacts, LastingType
  <1>4. ASSUME state = "ARMING"
        PROVE  readyFor' >= Later(timer.arming, dt)
    <2>1. readyFor >= timer.arming
      BY <1>4 DEF IInv, DelayMeasured
    <2>2. Later(readyFor, dt) >= Later(timer.arming, dt)
      BY <1>1, <2>1, LaterMonotone
    <2>3. /\ Later(readyFor, dt) \in Int /\ Later(timer.arming, dt) \in Int /\ readyFor' \in Int
      <3>1. Later(readyFor, dt) \in Ages /\ Later(timer.arming, dt) \in Ages
        BY <1>1, LaterFacts
      <3> QED
        BY <1>3, <3>1, LimitFacts DEF Ages
    <2> QED
      BY <1>3, <2>2, <2>3
  <1> QED
    BY <1>3, <1>4

\* What the history says when a sensor is missing.
LEMMA MissingMeasured ==
  ASSUME IInv, NEW dt \in Nat, NEW m, NEW i, HTick(dt, i, m),
         ~Within(Later(timer.failsafe, dt), FailsafeHold),
         m = "AUTO", ~i.sensors, state \in Releasing
  PROVE  /\ badFor' \in Ages /\ badFor' >= 0
         /\ badFor' >= SensorBadSince(i, Later(timer.sensorBad, dt))
  <1>1. badFor \in Ages /\ timer.sensorBad \in Ages
    BY DEF IInv, HTypeOK, TypeOK, Timers
  <1>2. badFor' = Lasting(TRUE, badFor, dt)
    BY DEF HTick, Lasting
  <1>3. badFor' >= 0 /\ badFor' >= Later(badFor, dt) /\ badFor' \in Ages
    BY <1>1, <1>2, LastingFacts, LastingType
  <1>4. CASE timer.sensorBad = None
    <2>1. SensorBadSince(i, Later(timer.sensorBad, dt)) = 0
      BY <1>4 DEF SensorBadSince, Since, Later
    <2> QED
      BY <1>3, <2>1
  <1>5. CASE timer.sensorBad # None
    <2>1. badFor >= timer.sensorBad
      BY <1>5 DEF IInv, GraceMeasured
    <2>2. Later(badFor, dt) >= Later(timer.sensorBad, dt)
      BY <1>1, <2>1, LaterMonotone
    <2>3. SensorBadSince(i, Later(timer.sensorBad, dt)) = Later(timer.sensorBad, dt)
      BY <1>1, <1>5, LaterFacts DEF SensorBadSince, Since
    <2>4. Later(badFor, dt) \in Int /\ Later(timer.sensorBad, dt) \in Int /\ badFor' \in Int
      <3>1. Later(badFor, dt) \in Ages /\ Later(timer.sensorBad, dt) \in Ages
        BY <1>1, LaterFacts
      <3> QED
        BY <1>3, <3>1, LimitFacts DEF Ages
    <2> QED
      BY <1>3, <2>2, <2>3, <2>4
  <1> QED
    BY <1>4, <1>5

LEMMA DecidedMeasured ==
  ASSUME IInv, NEW dt \in Nat, NEW m, NEW i, HTick(dt, i, m),
         ~Within(Later(timer.failsafe, dt), FailsafeHold),
         NEW t, NEW s, NEW on, Decided(dt, i, m, t, s, on)
  PROVE  DelayMeasured' /\ GraceMeasured'
  <1>1. state' \in Releasing => state' = s /\ timer' = t
    BY DEF Decided, Decide, Releasing
  <1>2. timer.arming \in Ages /\ timer.sensorBad \in Ages
    BY DEF IInv, HTypeOK, TypeOK, Timers
  <1>3. DelayMeasured'
    <2> SUFFICES ASSUME state' = "ARMING"
                 PROVE  timer'.arming # None /\ readyFor' >= timer'.arming
      BY DEF DelayMeasured
    <2>1. s = "ARMING" /\ timer' = t
      BY <1>1 DEF Releasing
    <2>2. /\ m = "AUTO" /\ Ready(i, Aged(dt))
          /\ t.arming = 0 \/ (state = "ARMING" /\ t.arming = Later(timer.arming, dt))
      BY <2>1 DEF Decided, ReleaseEarned
    <2>3. /\ readyFor' >= 0
          /\ state = "ARMING" => readyFor' >= Later(timer.arming, dt)
      BY <2>2, ReadyMeasured
    <2>4. state = "ARMING" => Later(timer.arming, dt) # None
      BY <1>2, LaterFacts DEF IInv, DelayMeasured
    <2> QED
      BY <2>1, <2>2, <2>3, <2>4 DEF None
  <1>4. GraceMeasured'
    <2> SUFFICES ASSUME state' \in Releasing, timer'.sensorBad # None
                 PROVE  badFor' >= timer'.sensorBad
      BY DEF GraceMeasured
    <2>1. /\ m = "AUTO" /\ timer'.sensorBad = SensorBadSince(i, Later(timer.sensorBad, dt))
          /\ state \in Releasing \/ i.sensors
      BY <1>1 DEF Decided, SensorsFollowed
    <2>2. ~i.sensors
      BY <2>1 DEF SensorBadSince
    <2> QED
      BY <2>1, <2>2, MissingMeasured
  <1> QED
    BY <1>3, <1>4

LEMMA LookMeasured ==
  ASSUME IInv, NEW dt \in Nat, NEW power, NEW newDay, HLook(dt, power, newDay)
  PROVE  DelayMeasured' /\ GraceMeasured'
  <1>1. /\ timer.arming \in Ages /\ timer.sensorBad \in Ages
        /\ readyFor \in Ages /\ badFor \in Ages
    BY DEF IInv, HTypeOK, TypeOK, Timers
  <1>2. /\ state' = state
        /\ timer'.arming = Later(timer.arming, dt)
        /\ timer'.sensorBad = Later(timer.sensorBad, dt)
        /\ readyFor' = Later(readyFor, dt) /\ badFor' = Later(badFor, dt)
    BY DEF HLook, Look, Aged
  <1>3. DelayMeasured'
    BY <1>1, <1>2, LaterFacts, LaterMonotone DEF IInv, DelayMeasured
  <1>4. GraceMeasured'
    BY <1>1, <1>2, LaterFacts, LaterMonotone DEF IInv, GraceMeasured
  <1> QED
    BY <1>3, <1>4

----------------------------------------------------------------------------
(* The invariant *)

LEMMA InitInv == HInit => IInv
  <1> SUFFICES ASSUME HInit PROVE IInv
    OBVIOUS
  <1>1. None \in Ages /\ 0 \in Ages
    BY LimitFacts DEF Ages, None
  <1>2. HTypeOK
    <2>1. TrackerTypeOK
      <3>1. 0 \in 0..MaxStarts
        BY LimitFacts
      <3> QED
        BY <1>1, <3>1 DEF HInit, Init, TrackerInit, TrackerTypeOK
    <2>2. timer \in Timers
      BY <1>1 DEF HInit, Init, Timers
    <2>3. 0 \in 0..(Gap - 1)
      BY LimitFacts
    <2> QED
      BY <1>1, <2>1, <2>2, <2>3 DEF HInit, Init, HTypeOK, TypeOK, States
  <1>3. DelayMeasured /\ GraceMeasured
    BY DEF HInit, Init, DelayMeasured, GraceMeasured, Releasing
  <1>4. ChangesKnown
    <2>1. Cardinality(changes) = 0
      BY FS_EmptySet DEF HInit, Init
    <2>2. state # "FAILSAFE" /\ timer.failsafe = None /\ switches \subseteq changes
      BY DEF HInit, Init
    <2> QED
      BY <2>1, <2>2, LimitFacts DEF ChangesKnown
  <1>5. Asked
    BY DEF HInit, Init, Asked
  <1> QED
    BY <1>2, <1>3, <1>4, <1>5 DEF IInv

LEMMA TickInv ==
  ASSUME IInv, NEW dt \in 1..(Gap - pause), NEW m, NEW i \in Findings(m), HTick(dt, i, m)
  PROVE  IInv'
  <1>1. HTypeOK /\ dt \in Nat
    BY StepFacts DEF IInv
  <1>2. HTypeOK'
    BY <1>1, TickType
  <1>3. switches' = Switched(dt, k1' # k1) /\ Tick(dt, i, m)
    BY DEF HTick, Switched
  <1>4. CASE Failsafe(dt)
    <2>1. ChangesKnown' /\ state' = "FAILSAFE"
      BY <1>1, <1>3, <1>4, FailsafeChanges
    <2>2. DelayMeasured' /\ GraceMeasured' /\ Asked'
      BY <2>1 DEF DelayMeasured, GraceMeasured, Releasing, Asked
    <2> QED
      BY <1>2, <2>1, <2>2 DEF IInv
  <1>5. CASE ~Within(Later(timer.failsafe, dt), FailsafeHold) /\ Outcome(dt, i, m)
    <2>1. PICK t, s, on : Decided(dt, i, m, t, s, on)
      BY <1>5 DEF Outcome
    <2>2. /\ t \in Timers /\ t.failsafe = None /\ s \in States \ {"FAILSAFE"}
          /\ on \in BOOLEAN /\ Decide(dt, t, s, on)
      BY <2>1 DEF Decided
    <2>3. ChangesKnown'
      BY <1>1, <1>3, <1>5, <2>2, DecideChanges
    <2>4. DelayMeasured' /\ GraceMeasured'
      BY <1>1, <1>5, <2>1, DecidedMeasured
    <2>5. Asked'
      BY <2>1 DEF Decided, Decide, Asked
    <2> QED
      BY <1>2, <2>3, <2>4, <2>5 DEF IInv
  <1> QED
    BY <1>1, <1>3, <1>4, <1>5, TickCases

LEMMA LookInv ==
  ASSUME IInv, NEW dt \in 1..(Gap - pause - 1), NEW power, NEW newDay,
         HLook(dt, power, newDay)
  PROVE  IInv'
  <1>1. HTypeOK /\ dt \in Nat
    BY LimitFacts DEF IInv, HTypeOK, TypeOK
  <1>2. HTypeOK'
    BY <1>1, LookType
  <1>3. Asked'
    BY DEF HLook, Look, IInv, Asked
  <1> QED
    BY <1>1, <1>2, <1>3, LookMeasured, LookChanges DEF IInv

LEMMA StepInv == IInv /\ [HControlTick \/ HObserve]_<<vars, historyVars>> => IInv'
  <1> SUFFICES ASSUME IInv, [HControlTick \/ HObserve]_<<vars, historyVars>> PROVE IInv'
    OBVIOUS
  <1>1. CASE HControlTick
    BY <1>1, TickInv DEF HControlTick
  <1>2. CASE HObserve
    BY <1>2, LookInv DEF HObserve
  <1>3. CASE UNCHANGED <<vars, historyVars>>
    BY <1>3
    DEF IInv, HTypeOK, TypeOK, TrackerTypeOK, DelayMeasured, GraceMeasured, ChangesKnown,
        Asked, vars, historyVars, trackerVars
  <1> QED
    BY <1>1, <1>2, <1>3

----------------------------------------------------------------------------
(* The theorems *)

\* The instants tick() remembers (arming_since, sensor_bad_since, failsafe_until, _k1_changes)
\* stand for what has happened, in every reachable state.
THEOREM ControllerInvariance == HSpec => []IInv
  <1> QED
    BY InitInv, StepInv, PTL DEF HSpec

\* The fields of controller, tracker and history keep their types.
THEOREM ControllerTypes == HSpec => []HTypeOK
  <1>1. IInv => HTypeOK
    BY DEF IInv
  <1> QED
    BY <1>1, ControllerInvariance, PTL

\* _record_k1 and the limit at the end of tick(): K1 changes at most max_toggles_per_hour
\* times in an hour, and once more to go off, although the pause clears the list.
THEOREM TogglesBounded == HSpec => []ToggleBound
  <1>1. IInv => ToggleBound
    <2> SUFFICES ASSUME IInv PROVE ToggleBound
      OBVIOUS
    <2>1. CASE state = "FAILSAFE"
      BY <2>1 DEF IInv, ChangesKnown, ToggleBound
    <2>2. CASE state # "FAILSAFE"
      <3>1. switches \subseteq changes /\ Cardinality(changes) <= MaxToggles
        BY <2>2 DEF IInv, ChangesKnown
      <3>2. changes \in SUBSET (0..Hour) /\ switches \in SUBSET (0..Hour)
        BY DEF IInv, HTypeOK, TypeOK
      <3>3. /\ IsFiniteSet(changes) /\ Cardinality(changes) \in Nat
            /\ Cardinality(switches) \in Nat
        BY <3>2, OlderFacts
      <3>4. Cardinality(switches) <= Cardinality(changes)
        BY <3>1, <3>3, FS_Subset
      <3> QED
        BY <2>2, <3>1, <3>3, <3>4, LimitFacts DEF ToggleBound
    <2> QED
      BY <2>1, <2>2
  <1> QED
    BY <1>1, ControllerInvariance, PTL

\* tick() enters RELEASED only after a trigger, and no blocker, at every tick of the last
\* on_delay.
THEOREM ReleasesEarned == HSpec => EarnedRelease
  <1> DEFINE A == state' = "RELEASED" /\ state # "RELEASED" => Reached(readyFor', OnDelay)
  <1>1. ASSUME IInv, NEW dt \in 1..(Gap - pause), NEW m, NEW i \in Findings(m),
               HTick(dt, i, m), state' = "RELEASED", state # "RELEASED"
        PROVE  Reached(readyFor', OnDelay)
    <2>1. HTypeOK /\ dt \in Nat /\ Tick(dt, i, m)
      BY <1>1, StepFacts DEF IInv, HTick
    <2>2. CASE Failsafe(dt)
      <3>1. switches' = Switched(dt, k1' # k1)
        BY <1>1 DEF HTick, Switched
      <3> QED
        BY <1>1, <2>1, <2>2, <3>1, FailsafeChanges
    <2>3. CASE ~Within(Later(timer.failsafe, dt), FailsafeHold) /\ Outcome(dt, i, m)
      <3>1. PICK t, s, on : Decided(dt, i, m, t, s, on)
        BY <2>3 DEF Outcome
      <3>2. s = "RELEASED"
        BY <1>1, <3>1 DEF Decided, Decide
      <3>3. /\ state = "ARMING" /\ m = "AUTO" /\ Ready(i, Aged(dt))
            /\ Later(timer.arming, dt) >= OnDelay
        BY <1>1, <3>1, <3>2 DEF Decided, ReleaseEarned
      <3>4. readyFor' >= 0 /\ readyFor' >= Later(timer.arming, dt)
        BY <1>1, <2>1, <2>3, <3>3, ReadyMeasured
      <3>5. HTypeOK'
        BY <1>1, <2>1, TickType
      <3>6. readyFor' \in Int /\ Later(timer.arming, dt) \in Int
        <4>1. readyFor' \in Ages /\ Later(timer.arming, dt) \in Ages
          BY <2>1, <3>5, LaterFacts DEF HTypeOK, TypeOK, Timers
        <4> QED
          BY <4>1, LimitFacts DEF Ages
      <3> QED
        BY <3>3, <3>4, <3>6, LimitFacts DEF Reached, None
    <2> QED
      BY <1>1, <2>1, <2>2, <2>3, TickCases
  <1>2. IInv /\ [HControlTick \/ HObserve]_<<vars, historyVars>> => [A]_<<vars, historyVars>>
    <2> SUFFICES ASSUME IInv, [HControlTick \/ HObserve]_<<vars, historyVars>>
                 PROVE  [A]_<<vars, historyVars>>
      OBVIOUS
    <2>1. CASE HControlTick
      BY <1>1, <2>1 DEF HControlTick
    <2>2. CASE HObserve
      BY <2>2 DEF HObserve, HLook, Look
    <2>3. CASE UNCHANGED <<vars, historyVars>>
      BY <2>3
    <2> QED
      BY <2>1, <2>2, <2>3
  <1> QED
    BY <1>2, ControllerInvariance, PTL DEF HSpec, EarnedRelease

\* tick() does not end the release of a running pump without a reason: a full buffer, the
\* grace of a sensor, a pump that stopped, or a broken hold condition after the minimum run.
THEOREM RunsLast == HSpec => RunsItsMinimum
  <1> DEFINE Reason == \/ full'
                       \/ Reached(badFor', SensorGrace)
                       \/ ~running' /\ stopAge' > StopConfirm
                       \/ brokenFor' # None /\ Reached(runAge', MinRun)
             A == state = "RUNNING_RELEASED" /\ ~k1' /\ state' \notin {"OFF", "MANUAL", "FAILSAFE"}
                    => Reason
  <1>1. ASSUME IInv, NEW dt \in 1..(Gap - pause), NEW m, NEW i \in Findings(m),
               HTick(dt, i, m), state = "RUNNING_RELEASED", ~k1',
               state' \notin {"OFF", "MANUAL", "FAILSAFE"}
        PROVE  Reason
    <2>1. HTypeOK /\ dt \in Nat /\ Tick(dt, i, m)
      BY <1>1, StepFacts DEF IInv, HTick
    <2>2. HTypeOK'
      BY <1>1, <2>1, TickType
    <2>3. CASE Failsafe(dt)
      <3>1. switches' = Switched(dt, k1' # k1)
        BY <1>1 DEF HTick, Switched
      <3> QED
        BY <1>1, <2>1, <2>3, <3>1, FailsafeChanges
    <2>4. CASE ~Within(Later(timer.failsafe, dt), FailsafeHold) /\ Outcome(dt, i, m)
      <3>1. PICK t, s, on : Decided(dt, i, m, t, s, on)
        BY <2>4 DEF Outcome
      <3>2. s = state' /\ on = FALSE
        BY <1>1, <3>1 DEF Decided, Decide
      <3>3. /\ m = "AUTO"
            /\ \/ i.full
               \/ /\ ~i.sensors
                  /\ Reached(SensorBadSince(i, Later(timer.sensorBad, dt)), SensorGrace)
               \/ ~running' /\ Reached(stopAge', StopConfirm + 1)
               \/ ~i.hold /\ Reached(runAge', MinRun)
        BY <1>1, <3>1, <3>2 DEF Decided, RunEnded
      <3>4. CASE i.full
        BY <1>1, <2>4, <3>3, <3>4 DEF HTick
      <3>5. CASE ~i.sensors /\ Reached(SensorBadSince(i, Later(timer.sensorBad, dt)), SensorGrace)
        <4> DEFINE bad == SensorBadSince(i, Later(timer.sensorBad, dt))
        <4>1. badFor' \in Ages /\ badFor' >= 0 /\ badFor' >= bad
          BY <1>1, <2>1, <2>4, <3>3, <3>5, MissingMeasured DEF Releasing
        <4>2. bad \in Ages /\ bad >= SensorGrace
          <5>1. timer.sensorBad \in Ages
            BY <2>1 DEF HTypeOK, TypeOK, Timers
          <5> QED
            BY <2>1, <3>5, <5>1, LaterFacts, SensorBadType DEF Reached
        <4> HIDE DEF bad
        <4>3. badFor' >= SensorGrace /\ badFor' # None
          BY <4>1, <4>2, LimitFacts DEF Ages, None
        <4> QED
          BY <4>3 DEF Reached
      <3>6. CASE ~running' /\ Reached(stopAge', StopConfirm + 1)
        <4>1. stopAge' \in Int
          BY <2>2, LimitFacts DEF HTypeOK, TypeOK, TrackerTypeOK, Ages
        <4> QED
          BY <3>6, <4>1, LimitFacts DEF Reached
      <3>7. CASE ~i.hold /\ Reached(runAge', MinRun)
        <4>1. brokenFor' = Lasting(TRUE, brokenFor, dt)
          BY <1>1, <2>4, <3>3, <3>7 DEF HTick, Lasting
        <4>2. brokenFor' # None
          BY <2>1, <4>1, LastingFacts DEF HTypeOK
        <4> QED
          BY <3>7, <4>2
      <3> QED
        BY <3>3, <3>4, <3>5, <3>6, <3>7
    <2> QED
      BY <1>1, <2>1, <2>3, <2>4, TickCases
  <1>2. IInv /\ [HControlTick \/ HObserve]_<<vars, historyVars>> => [A]_<<vars, historyVars>>
    <2> SUFFICES ASSUME IInv, [HControlTick \/ HObserve]_<<vars, historyVars>>
                 PROVE  [A]_<<vars, historyVars>>
      OBVIOUS
    <2>1. CASE HControlTick
      BY <1>1, <2>1 DEF HControlTick
    <2>2. CASE HObserve
      BY <2>2 DEF HObserve, HLook, Look, IInv, Asked
    <2>3. CASE UNCHANGED <<vars, historyVars>>
      BY <2>3
    <2> QED
      BY <2>1, <2>2, <2>3
  <1> QED
    BY <1>2, ControllerInvariance, PTL DEF HSpec, RunsItsMinimum

=============================================================================
