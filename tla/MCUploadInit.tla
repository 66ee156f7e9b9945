----------------------------- MODULE MCUploadInit -----------------------------
(* Instances of UploadInit for TLC; the bounds are in the configuration. *)
EXTENDS UploadInit

CONSTANTS d1, d2, k1, b1, b2, c1, c2

TwoDocuments == {d1, d2}
OneKey == {k1}
TwoBodies == {b1, b2}
TwoCalls == {c1, c2}
=============================================================================
