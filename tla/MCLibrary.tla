------------------------------- MODULE MCLibrary -------------------------------
(***************************************************************************)
(* One instance of VersionUpload and FolderTree for TLC.  The two share no *)
(* state, so that a behaviour in which both act shows nothing that those   *)
(* in which one of them acts do not: each acts while the other has not     *)
(* begun.                                                                  *)
(***************************************************************************)
EXTENDS VersionUpload, FolderTree, TLC

CONSTANTS c1, c2, good, other, bad, f1, f2, f3, d1, r1, r2

LibraryInit == Init /\ FolderInit

UploadsStep == Next /\ FolderInit /\ UNCHANGED folderVars
FoldersStep == FolderNext /\ Init /\ UNCHANGED vars

LibrarySpec == LibraryInit /\ [][UploadsStep \/ FoldersStep]_<<vars, folderVars>>

Symmetry ==
  Permutations(Calls) \cup Permutations(Matching) \cup Permutations(Folders) \cup Permutations(Requests)
=============================================================================
