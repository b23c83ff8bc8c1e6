------------------------------- MODULE LiveFeed ------------------------------
(* The live state on its way to one open screen: live_feed.Takt decides      *)
(* whether a state is worth sending, SseBroker keeps a short queue for each  *)
(* subscriber and drops old snapshots when it is full, the stream route      *)
(* hands the queue over, and sseClient.ts reconnects when no snapshot comes. *)
(* A state is the number of changes before it, other events are decisions,   *)
(* plans and notices.                                                        *)
EXTENDS Naturals, Sequences

CONSTANTS
    MinGap,         \* least ticks between two sent states (live_push_min_s)
    MaxGap,         \* ticks after which an unchanged state is sent (live_push_max_s)
    QueueSize,      \* places in the queue of a subscriber
    StaleAfter,     \* ticks without a snapshot before the client reconnects (STALE_AFTER_MS)
    FeedChanges,    \* bound on changes of the state
    OtherEvents,    \* bound on other events
    Stalls          \* bound on times the screen stops taking what is sent

\* As the settings are: 5 s, 60 s, 8 places.
ASSUME FeedAssumption ==
    /\ {MinGap, MaxGap, StaleAfter, FeedChanges, OtherEvents, Stalls} \subseteq Nat
    /\ 0 < MinGap /\ MinGap <= MaxGap /\ QueueSize \in Nat \ {0}

VARIABLES
    current,        \* the live state
    sentAgo2,       \* ticks since Takt sent a state (_gesendet_s)
    sentState,      \* _kern
    screenQueue,    \* Subscriber.queue, with the state of a snapshot
    others,         \* other events so far
    shown,          \* the state on the screen (useLiveStore.state)
    frameAgo,       \* ticks since the last snapshot (lastFrameAt)
    heardAgo,       \* ticks since anything came from the server
    lag,            \* ticks the screen has been behind without being told anything new
    stalled, stalls \* the screen takes nothing; how often that has happened
feedVars == <<current, sentAgo2, sentState, screenQueue, others, shown, frameAgo, heardAgo, lag,
              stalled, stalls>>

FeedInit ==
    /\ current = 0 /\ sentAgo2 = 0 /\ sentState = 0 /\ screenQueue = <<>> /\ others = 0
    /\ shown = 0 /\ frameAgo = 0 /\ heardAgo = 0 /\ lag = 0
    /\ stalled = FALSE /\ stalls = 0

Ticked(age, most) == IF age < most THEN age + 1 ELSE age
Snapshot(state) == [kind |-> "snapshot", state |-> state]
Notice == [kind |-> "other", state |-> 0]

----------------------------------------------------------------------------
\* SseBroker.publish: a full queue gives up its oldest message if that is a snapshot;
\* if not, it goes back, to the end, and the new message is lost.
Published(queue, message) ==
    IF Len(queue) < QueueSize THEN Append(queue, message)
    ELSE Append(Tail(queue), IF Head(queue).kind = "snapshot" THEN message ELSE Head(queue))

\* Takt.naechster
Due(state, age) == age >= MinGap /\ (state # sentState \/ age >= MaxGap)
\* Mutant of AgeKept: a call that sends nothing starts the least gap again.
AgeRestarted == 0
AgeKept == sentAgo2

Show(state) == shown' = state /\ frameAgo' = 0

\* The stream task is woken by the first message, so that a queue fills up only when the
\* screen does not take what it is sent.
Room == stalled \/ screenQueue = <<>>

\* Telemetry within the least gap: the state is new, and nothing is sent.
StateChanges ==
    /\ current < FeedChanges /\ current' = current + 1
    /\ sentAgo2' = AgeKept
    /\ UNCHANGED <<sentState, screenQueue, others, shown, frameAgo, heardAgo, lag, stalled, stalls>>

\* A tick, and the call of _sende_zustand after it, by telemetry or the control loop.
FeedTick ==
    /\ Room
    /\ frameAgo < StaleAfter \/ stalled
    /\ LET age == Ticked(sentAgo2, MaxGap) IN
       IF Due(current, age)
       THEN /\ sentAgo2' = 0 /\ sentState' = current
            /\ screenQueue' = Published(screenQueue, Snapshot(current))
       ELSE sentAgo2' = age /\ UNCHANGED <<sentState, screenQueue>>
    /\ frameAgo' = Ticked(frameAgo, StaleAfter)
    /\ heardAgo' = IF stalled THEN Ticked(heardAgo, StaleAfter) ELSE 0
    /\ lag' = IF stalled \/ shown = current THEN 0 ELSE Ticked(lag, StaleAfter)
    /\ UNCHANGED <<current, others, shown, stalled, stalls>>

\* A person switches something: _sende_zustand(erzwinge=True) does not ask when.
ForcedState ==
    /\ Room /\ current < FeedChanges
    /\ current' = current + 1 /\ sentAgo2' = 0 /\ sentState' = current'
    /\ screenQueue' = Published(screenQueue, Snapshot(current'))
    /\ UNCHANGED <<others, shown, frameAgo, heardAgo, lag, stalled, stalls>>

PublishOther ==
    /\ Room /\ others < OtherEvents /\ others' = others + 1
    /\ screenQueue' = Published(screenQueue, Notice)
    /\ UNCHANGED <<current, sentAgo2, sentState, shown, frameAgo, heardAgo, lag, stalled, stalls>>

----------------------------------------------------------------------------
\* live.stream: the next message goes out and the client takes it.
StreamMessage ==
    /\ ~stalled /\ screenQueue # <<>>
    /\ screenQueue' = Tail(screenQueue) /\ heardAgo' = 0
    /\ IF Head(screenQueue).kind = "snapshot"
       THEN Show(Head(screenQueue).state)
       ELSE UNCHANGED <<shown, frameAgo>>
    /\ lag' = IF shown' > shown THEN 0 ELSE lag
    /\ UNCHANGED <<current, sentAgo2, sentState, others, stalled, stalls>>

\* A new EventSource: a new subscriber with an empty queue, which is first told the state.
Reconnected ==
    /\ Show(current) /\ screenQueue' = <<>> /\ heardAgo' = 0 /\ lag' = 0
    /\ UNCHANGED <<current, sentAgo2, sentState, others>>

\* The watchdog of sseClient.ts looks at the time of the last snapshot.
Watchdog ==
    /\ frameAgo >= StaleAfter /\ ~stalled
    /\ Reconnected /\ UNCHANGED <<stalled, stalls>>

\* The screen sleeps or its connection hangs, and then reads on or begins again.
Stall ==
    /\ ~stalled /\ stalls < Stalls /\ stalled' = TRUE /\ stalls' = stalls + 1
    /\ UNCHANGED <<current, sentAgo2, sentState, screenQueue, others, shown, frameAgo, heardAgo, lag>>
ReadOn ==
    /\ stalled /\ stalled' = FALSE
    /\ UNCHANGED <<current, sentAgo2, sentState, screenQueue, others, shown, frameAgo, heardAgo, lag, stalls>>
BeginAgain == stalled /\ stalled' = FALSE /\ Reconnected /\ UNCHANGED stalls

FeedNext == StateChanges \/ FeedTick \/ ForcedState \/ PublishOther \/ StreamMessage \/ Watchdog \/ Stall \/ ReadOn
            \/ BeginAgain
FeedSpec == FeedInit /\ [][FeedNext]_feedVars

----------------------------------------------------------------------------
FeedTypeOK ==
    /\ {current, sentState, shown} \subseteq 0..FeedChanges
    /\ sentAgo2 \in 0..MaxGap /\ {frameAgo, heardAgo} \subseteq 0..StaleAfter
    /\ lag \in 0..StaleAfter /\ others \in 0..OtherEvents /\ stalls \in 0..Stalls
    /\ stalled \in BOOLEAN /\ Len(screenQueue) <= QueueSize

\* A screen that takes what it is sent is behind for no longer than the least gap and the
\* call after it, whatever the filter and the gap held back.
OnTime == stalls = 0 => lag <= MinGap

=============================================================================
