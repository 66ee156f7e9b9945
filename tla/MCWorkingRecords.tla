--------------------------- MODULE MCWorkingRecords ---------------------------
(***************************************************************************)
(* One instance of ReviewWorkflow and DatasetRelease for TLC.  The two     *)
(* share no state (the records of a release are those of a finished batch) *)
(* so that a behaviour in which both act shows nothing that those in which *)
(* one of them acts do not: each acts while the other has not begun.       *)
(***************************************************************************)
EXTENDS MCReviewWorkflow, MCDatasetRelease

WorkingRecordsInit == ReviewInit /\ Init

ReviewStep == Init /\ ReviewNext /\ UNCHANGED vars
ReleaseStep ==
  /\ ReviewInit /\ \E s \in Suggestions : records = [d \in Batch |-> Unreviewed(s, open)]
  /\ Next /\ UNCHANGED reviewVars

WorkingRecordsSpec ==
  WorkingRecordsInit /\ [][ReviewStep \/ ReleaseStep]_<<reviewVars, vars>>

Symmetry == Permutations(Calls) \cup Permutations(Suggestions)
=============================================================================
