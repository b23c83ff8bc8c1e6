----------------------------- MODULE DoorAccess -----------------------------
(***************************************************************************)
(* The door: the access console streams its events, the bridge reads them  *)
(* one at a time (pump waits for the handler), DoorGate decides, and the   *)
(* lock is asked to pull the latch, an answer that may be late or wrong.   *)
(* After an interruption the console may send an event once more.          *)
(***************************************************************************)
EXTENDS Integers, Sequences, FiniteSets

CONSTANTS
  People,        \* the people the console knows
  Accesses,      \* the accesses of a behaviour, numbered
  RepeatLock,    \* REPEAT_LOCK_S
  MaxEventAge,   \* MAX_EVENT_AGE_S
  LockTimeout,   \* the longest an opener takes
  Repeats,       \* how often the console sends an event again
  FaultyLock     \* the lock may pull the latch and still report a failure

ASSUME DoorAssumption ==
  /\ Accesses \subseteq Nat \ {0} /\ IsFiniteSet(Accesses)
  /\ "nobody" \notin People
  /\ {RepeatLock, MaxEventAge, LockTimeout, Repeats} \subseteq Nat /\ FaultyLock \in BOOLEAN
  /\ LockTimeout <= RepeatLock

VARIABLES
  access,     \* the accesses so far: who, whether welcome, how long ago
  stream,     \* events sent and not yet read
  console,    \* the bridge is connected to the console
  repeats,
  lastOpen,   \* DoorGate.last_open: how long ago each person was let in
  serving,    \* the access whose opening is awaited, 0 if none
  taken,      \* how long ago the decision fell
  latched,    \* the latch was pulled for it
  reachable,  \* what the last probe found
  pulls,      \* history: how often the latch was pulled for an access
  sinceGood   \* history: how long ago the latch was last pulled and the lock said so

doorVars == <<access, stream, console, repeats, lastOpen, serving, taken, latched, reachable, pulls, sinceGood>>
consoleVars == <<access, stream, console, repeats>>
latchVars == <<serving, taken, latched, pulls, sinceGood>>

Long == MaxEventAge + RepeatLock + LockTimeout + 1   \* ages are exact below this
NoAccess == [who |-> "nobody", welcome |-> FALSE, age |-> Long]

DoorInit ==
  /\ access = [i \in Accesses |-> NoAccess] /\ stream = <<>> /\ console = TRUE /\ repeats = 0
  /\ lastOpen = [p \in People |-> Long]
  /\ serving = 0 /\ taken = 0 /\ latched = FALSE /\ reachable = FALSE
  /\ pulls = [i \in Accesses |-> 0] /\ sinceGood = [p \in People |-> Long]

----------------------------------------------------------------------------
(* The console: UnifiAccessEvents.pump and run, parse_event. *)

\* An access is welcome if the console granted it, door, person and method can be
\* read, and each is on its list.
SomebodyComes(i, who, welcome) ==
  /\ access[i] = NoAccess
  /\ \A j \in Accesses : j < i => access[j] # NoAccess
  /\ access' = [access EXCEPT ![i] = [who |-> who, welcome |-> welcome, age |-> 0]]
  /\ stream' = IF console THEN Append(stream, i) ELSE stream
  /\ UNCHANGED <<console, repeats, lastOpen, reachable, latchVars>>

\* No frame for a minute, or the line is gone; the reading task is at a recv then.
ConsoleLost ==
  /\ console /\ serving = 0
  /\ console' = FALSE /\ stream' = <<>>
  /\ UNCHANGED <<access, repeats, lastOpen, reachable, latchVars>>

ConsoleBack ==
  /\ ~console
  /\ console' = TRUE
  /\ UNCHANGED <<access, stream, repeats, lastOpen, reachable, latchVars>>

SendsAgain(i) ==
  /\ console /\ repeats < Repeats /\ access[i] # NoAccess
  /\ repeats' = repeats + 1
  /\ stream' = Append(stream, i)
  /\ UNCHANGED <<access, console, lastOpen, reachable, latchVars>>

----------------------------------------------------------------------------
(* DoorGate.decide and DoorService.handle *)

Locked(p) == lastOpen[p] < RepeatLock

AnyAge(i) == TRUE
FreshEvent(i) == access[i].age <= MaxEventAge

LetsIn(i) == access[i].welcome /\ FreshEvent(i) /\ ~Locked(access[i].who)

\* An event is read; a refusal is only reported.
HandleAccess ==
  /\ serving = 0 /\ stream # <<>>
  /\ stream' = Tail(stream)
  /\ IF LetsIn(Head(stream)) THEN serving' = Head(stream) /\ taken' = 0 /\ latched' = FALSE
                             ELSE UNCHANGED <<serving, taken, latched>>
  /\ UNCHANGED <<access, console, repeats, lastOpen, reachable, pulls, sinceGood>>

PullLatch ==
  /\ serving # 0 /\ ~latched
  /\ latched' = TRUE
  /\ pulls' = [pulls EXCEPT ![serving] = @ + 1]
  /\ UNCHANGED <<consoleVars, lastOpen, serving, taken, reachable, sinceGood>>

\* note_open, with the time at which it was decided.
NoteOpen(p) == [lastOpen EXCEPT ![p] = taken]

Opened ==
  /\ serving # 0 /\ latched
  /\ lastOpen' = NoteOpen(access[serving].who)
  /\ sinceGood' = [sinceGood EXCEPT ![access[serving].who] = 0]
  /\ serving' = 0 /\ taken' = 0 /\ latched' = FALSE
  /\ UNCHANGED <<consoleVars, reachable, pulls>>

\* OpenerError: no lock against repetition is set.
OpeningFails ==
  /\ serving # 0 /\ (latched => FaultyLock)
  /\ serving' = 0 /\ taken' = 0 /\ latched' = FALSE
  /\ UNCHANGED <<consoleVars, lastOpen, reachable, pulls, sinceGood>>

Probe ==
  /\ reachable' = ~reachable
  /\ UNCHANGED <<consoleVars, lastOpen, latchVars>>

Longer(a) == IF a < Long THEN a + 1 ELSE a

\* An entry older than an hour is forgotten: it is Long then anyway.
DoorTime ==
  /\ serving # 0 => taken < LockTimeout
  /\ access' = [i \in Accesses |-> [access[i] EXCEPT !.age = Longer(@)]]
  /\ lastOpen' = [p \in People |-> Longer(lastOpen[p])]
  /\ sinceGood' = [p \in People |-> Longer(sinceGood[p])]
  /\ taken' = IF serving # 0 THEN taken + 1 ELSE taken
  /\ UNCHANGED <<stream, console, repeats, serving, latched, reachable, pulls>>

DoorNext ==
  \/ \E i \in Accesses : \/ \E p \in People, w \in BOOLEAN : SomebodyComes(i, p, w)
                         \/ SendsAgain(i)
  \/ ConsoleLost \/ ConsoleBack
  \/ HandleAccess \/ PullLatch \/ Opened \/ OpeningFails
  \/ Probe \/ DoorTime

DoorSpec == DoorInit /\ [][DoorNext]_doorVars

----------------------------------------------------------------------------
DoorTypeOK ==
  /\ access \in [Accesses -> [who : People, welcome : BOOLEAN, age : 0..Long] \cup {NoAccess}]
  /\ stream \in Seq(Accesses) /\ Len(stream) <= Repeats + Cardinality(Accesses)
  /\ {console, latched, reachable} \subseteq BOOLEAN /\ repeats \in 0..Repeats
  /\ lastOpen \in [People -> 0..Long] /\ sinceGood \in [People -> 0..Long]
  /\ serving \in Accesses \cup {0} /\ taken \in 0..LockTimeout
  /\ (serving = 0 => taken = 0 /\ ~latched)
  /\ pulls \in [Accesses -> Nat]

\* However long an event has waited in the stream or comes again, the latch is
\* never pulled for somebody the policy refuses, nor for an access that is
\* older than MAX_EVENT_AGE_S and the time the lock takes.
NoLateOpening ==
  [][\A i \in Accesses : pulls'[i] # pulls[i] =>
       access[i].welcome /\ access[i].age <= MaxEventAge + LockTimeout]_doorVars

\* Once the lock has said that it opened for a person, the latch rests for that
\* person for REPEAT_LOCK_S, counted from the decision.
OpensApart ==
  [][\A i \in Accesses : pulls'[i] # pulls[i] =>
       sinceGood[access[i].who] + LockTimeout >= RepeatLock]_doorVars

\* DoorGate.decide keeps both promises.
OpensRightly == NoLateOpening /\ OpensApart

=============================================================================
