--------------------------- MODULE MCVersionUpload ---------------------------
(* Model-checking instances of VersionUpload. *)
EXTENDS VersionUpload, TLC

CONSTANTS c1, c2, good, other, bad

Symmetry == Permutations(Calls)
=============================================================================
