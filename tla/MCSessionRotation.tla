--------------------------- MODULE MCSessionRotation ---------------------------
(* Instances of SessionRotation for TLC; the bounds are in the configuration. *)
EXTENDS SessionRotation, TLC

CONSTANTS r1, r2, r3

ThreeRequests == {r1, r2, r3}

Symmetry == Permutations(Requests)
=============================================================================
