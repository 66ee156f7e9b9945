--------------------------- MODULE BoundaryScoring ----------------------------
(***************************************************************************)
(* The class of the boundary between each two neighbours.  Scores are in   *)
(* 1/1200, so that the style fraction (n of at most four) is exact.        *)
(***************************************************************************)
EXTENDS StructureSignals

SoftThreshold == 300
HardThreshold == 960

Count(condition, weight) == IF condition THEN weight ELSE 0

\* None is no relation of groups and no guard.
ASSUME GuardAssumption == None \notin {"SAME", "DIFFERENT", "NATIVE_INTEGRITY_GROUP", "QA_PAIR"}

\* Whether both sides name a native integrity group, and the same one.
NativeRelation(l, r) ==
  IF None \in {l.group, r.group} THEN None
  ELSE IF l.group = r.group THEN "SAME" ELSE "DIFFERENT"

\* What must not be cut: a native group, and a question with its answer.
Guard(l, r) ==
  LET asked == \/ l.type = "QUESTION" /\ r.type = "ANSWER"
               \/ "question" \in Signals(l) /\ "answer" \in Signals(r)
  IN IF NativeRelation(l, r) = "SAME" THEN "NATIVE_INTEGRITY_GROUP" ELSE IF asked THEN "QA_PAIR" ELSE None

SharedFamily(l, r) ==
  \E family \in {TableTypes, {"CODE"}, ListTypes} : {l.type, r.type} \subseteq family

ExplicitStart(r) == r.type \in HeadingTypes /\ r.source = "EXPLICIT"

\* Tables and code end where their family ends.
CrossesFamily(l, r) ==
  \/ (l.type \in TableTypes) # (r.type \in TableTypes)
  \/ (l.type = "CODE") # (r.type = "CODE")

StyleChange(l, r) ==
  LET comparable == {f \in StyleFields : Style(l, f) # None /\ Style(r, f) # None}
      changed == {f \in comparable : Style(l, f) # Style(r, f)}
  IN IF comparable = {} THEN 0 ELSE (300 * Cardinality(changed)) \div Cardinality(comparable)

Score(l, r) ==
    Count(ExplicitStart(r), 1200)
  + Count("SEPARATOR" \in {l.type, r.type}, 1200)
  + (IF SharedFamily(l, r) THEN 0 ELSE StyleChange(l, r) + Count(l.type # r.type, 360))
  + Count(Signals(r) \ {"answer"} # {}, 540)
  + Count({l.type, r.type} = {"PARAGRAPH"}, 360)

\* Nothing tells the two apart, although they may belong together.
IsUnknownPair(l, r) ==
  Score(l, r) = 0 /\ ({l.type, r.type} = {"UNKNOWN"} \/ SharedFamily(l, r))

Classify(l, r) ==
  LET separate == \/ NativeRelation(l, r) = "DIFFERENT" \/ ExplicitStart(r)
                  \/ "SEPARATOR" \in {l.type, r.type} \/ CrossesFamily(l, r)
  IN IF Guard(l, r) # None THEN "NONE"
     ELSE IF separate THEN "HARD"
     ELSE IF IsUnknownPair(l, r) THEN "UNKNOWN"
     ELSE IF Score(l, r) >= HardThreshold THEN "HARD"
     ELSE IF Score(l, r) >= SoftThreshold THEN "SOFT" ELSE "NONE"

\* Boundary i lies between the elements i and i + 1.
Boundaries(doc) ==
  [i \in 1..(Len(doc) - 1) |->
    LET l == doc[i]
        r == doc[i + 1]
        class == Classify(l, r)
    IN [class |-> class, guard |-> Guard(l, r), explicit |-> ExplicitStart(r),
        unresolved |-> class = "UNKNOWN" /\ SharedFamily(l, r)]]
=============================================================================
