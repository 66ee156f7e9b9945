----------------------------- MODULE MCFolderTree -----------------------------
(* Model-checking instances of FolderTree. *)
EXTENDS FolderTree, TLC

CONSTANTS f1, f2, f3, d1, r1, r2

Symmetry == Permutations(Folders) \cup Permutations(Requests)
=============================================================================
