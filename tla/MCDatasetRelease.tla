-------------------------- MODULE MCDatasetRelease --------------------------
(* Three sources in two groups, one of them a copy of another. *)
EXTENDS DatasetRelease, TLC

CONSTANTS
  f1, f2, d1, d2, d3, c1, c2, fam1, fam2, fam3, g1, g2, t1, t2, b1, b2, v1, v2,
  r1, r2, r3, r4

\* r2 and r4 are two targets of one source; r3 is another target, on a copy of the
\* source of r1 in another group, and in a batch of its own.
MCSourceOf ==
  LET second == [document |-> d2, content |-> c2, family |-> fam2, group |-> g2]
  IN (r1 :> [document |-> d1, content |-> c1, family |-> fam1, group |-> g1]) @@
     (r2 :> second) @@ (r4 :> second) @@
     (r3 :> [document |-> d3, content |-> c1, family |-> fam3, group |-> g2])
MCTargetOf == (r1 :> t1) @@ (r2 :> t1) @@ (r3 :> t2) @@ (r4 :> t2)
MCBatchOf == (r1 :> b1) @@ (r2 :> b1) @@ (r3 :> b2) @@ (r4 :> b1)
MCGuidelineOf == [b \in {b1, b2} |-> v1]
MCPlans ==
  {(g1 :> "train") @@ (g2 :> "test"), (g1 :> "test") @@ (g2 :> "train"),
   (g1 :> "train") @@ (g2 :> Unassigned)}
=============================================================================
