---------------------------- MODULE MCOutboxRelay ----------------------------
(* Model-checking instances of OutboxRelay. *)
EXTENDS OutboxRelay, TLC

CONSTANTS r1, r2, e1, e2, i1, i2

\* Each relay configured with an instance id of its own, as the docs ask.
DistinctInstances == (r1 :> i1) @@ (r2 :> i2)
=============================================================================
