--------------------------- MODULE EventDelivery ---------------------------
(* What the webhook outbox promises the merchant: at-least-once delivery.    *)
(* An event that was enqueued is accepted by the merchant's endpoint, maybe  *)
(* several times, and is closed only after that.                             *)
CONSTANT Events

VARIABLES enqueued, accepted, closed   \* sets of events
vars == <<enqueued, accepted, closed>>

Init == enqueued = {} /\ accepted = {} /\ closed = {}

Enqueue(e) ==
  /\ e \notin enqueued
  /\ enqueued' = enqueued \cup {e}
  /\ UNCHANGED <<accepted, closed>>

Accept(e) ==
  /\ e \in enqueued \ accepted
  /\ accepted' = accepted \cup {e}
  /\ UNCHANGED <<enqueued, closed>>

Close(e) ==
  /\ e \in accepted \ closed
  /\ closed' = closed \cup {e}
  /\ UNCHANGED <<enqueued, accepted>>

Next == \E e \in Events : Enqueue(e) \/ Accept(e) \/ Close(e)

\* Once enqueued, an event goes all the way.
Fairness == \A e \in Events : WF_vars(Accept(e)) /\ WF_vars(Close(e))

Spec == Init /\ [][Next]_vars /\ Fairness
=============================================================================
