--------------------------- MODULE MCReviewWorkflow ---------------------------
(* Instances of ReviewWorkflow for TLC; the bounds are in the configurations. *)
EXTENDS ReviewWorkflow

CONSTANTS w1, u1, u2, s1, s2, open, a

OneRecord == {w1}
OneReviewer == {u1}
TwoReviewers == {u1, u2}
TwoSuggestions == {s1, s2}
TwoDecisions == {open, a}
OpenDecision == {open}
=============================================================================
