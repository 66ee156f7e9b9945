--------------------------- MODULE OutboxDelivery ---------------------------
(***************************************************************************)
(* What the outbox promises its producers, with no relay in sight: every   *)
(* event is decided once, an event decided "published" has its job in the  *)
(* transport queue by then, and a decision is never taken back.  Delivery  *)
(* is at least once (backend/docs/ASYNC_FOUNDATION.md, "Delivery           *)
(* semantics"), so an event may still be handed over after its decision.   *)
(*                                                                         *)
(* OutboxRelay implements this module; see OutboxRelayProofs.              *)
(***************************************************************************)
EXTENDS Naturals

CONSTANT Events       \* identities of outbox_events rows

VARIABLES verdict,    \* the decision on each event
          handedOver  \* the events whose job the transport has accepted

abstractVars == <<verdict, handedOver>>

Verdicts == {"undecided", "published", "failed"}

AbstractInit ==
  /\ verdict = [e \in Events |-> "undecided"]
  /\ handedOver = {}

HandOver(e) ==
  /\ handedOver' = handedOver \cup {e}
  /\ UNCHANGED verdict

DecidePublished(e) ==
  /\ verdict[e] = "undecided"
  /\ e \in handedOver
  /\ verdict' = [verdict EXCEPT ![e] = "published"]
  /\ UNCHANGED handedOver

\* One transaction of a relay may give up several events at once.
GiveUp(gone) ==
  /\ \A e \in gone : verdict[e] = "undecided"
  /\ verdict' = [e \in Events |-> IF e \in gone THEN "failed" ELSE verdict[e]]
  /\ UNCHANGED handedOver

AbstractNext ==
  \/ \E e \in Events : HandOver(e) \/ DecidePublished(e)
  \/ \E gone \in SUBSET Events : GiveUp(gone)

AbstractSpec == AbstractInit /\ [][AbstractNext]_abstractVars
=============================================================================
