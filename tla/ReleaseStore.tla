----------------------------- MODULE ReleaseStore -----------------------------
(***************************************************************************)
(* What a dataset version promises to its readers: nothing is there, or a  *)
(* complete release that never changes. Only somebody who writes into the  *)
(* directory from outside can break it.                                    *)
(***************************************************************************)
CONSTANTS IsVacant(_), IsComplete(_)

VARIABLES
  release,   \* what is found under the name of the version
  tampered   \* somebody has written into it

vars == <<release, tampered>>

Init == IsVacant(release) /\ tampered = FALSE

Reserve == IsVacant(release) /\ IsVacant(release') /\ UNCHANGED tampered
Publish == IsVacant(release) /\ IsComplete(release') /\ UNCHANGED tampered
Tamper == tampered' = TRUE

Next == Reserve \/ Publish \/ Tamper

Spec == Init /\ [][Next]_vars
=============================================================================
