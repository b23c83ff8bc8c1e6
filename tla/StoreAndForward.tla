--------------------------- MODULE StoreAndForward ---------------------------
(***************************************************************************)
(* What the telemetry path promises: a frame is published once, it is kept *)
(* until it has been delivered, and it may be delivered more than once.    *)
(* `waived` is the price of sending fresh frames ahead of waiting ones:    *)
(* a frame overtaken while it is kept may be forgotten undelivered.        *)
(***************************************************************************)
EXTENDS Naturals

CONSTANT MaxSeq

VARIABLES published, kept, delivered, waived

Init == published = 0 /\ kept = {} /\ delivered = {} /\ waived = {}

Publish ==
  /\ published < MaxSeq
  /\ published' = published + 1
  /\ kept' = kept \cup {published + 1}
  /\ \E w \in SUBSET kept : waived' = waived \cup w
  /\ UNCHANGED delivered

Deliver(f) ==
  /\ f \in 1..published
  /\ delivered' = delivered \cup {f}
  /\ UNCHANGED <<published, kept, waived>>

\* Forgetting is cumulative: a number and everything before it.
Forget(n) ==
  /\ {f \in kept : f <= n} \subseteq delivered \cup waived
  /\ kept' = {f \in kept : f > n}
  /\ UNCHANGED <<published, delivered, waived>>

Next == Publish \/ (\E f \in 1..MaxSeq : Deliver(f)) \/ (\E n \in 1..MaxSeq : Forget(n))

Spec == Init /\ [][Next]_<<published, kept, delivered, waived>>
=============================================================================
