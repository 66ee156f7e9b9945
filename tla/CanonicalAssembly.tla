--------------------------- MODULE CanonicalAssembly --------------------------
(***************************************************************************)
(* From the parts to the canonical document: the units are given their     *)
(* region and the context they share, the quality of the structure is      *)
(* measured, and the document is checked as a whole.                       *)
(***************************************************************************)
EXTENDS StructuralRelations

CONSTANTS MinAccounted, MaxUnknownBoundaries, MaxUnknownTypes   \* in percent

ASSUME QualityAssumption == {MinAccounted, MaxUnknownBoundaries, MaxUnknownTypes} \subseteq 0..100

\* What the report counts as broken if it is in no unit.
IntegritySensitive == TableTypes \cup ListTypes \cup {"CODE", "FORMULA", "KEY_VALUE"}

-----------------------------------------------------------------------------
\* RegionRouter.assign_grouping: every element is in exactly one region, and no
\* unit is in two.
CrossesNoRegion(units, regions) ==
  \A u \in units : \E r \in regions : u.members \subseteq r.members

Routed(doc, units, regions) ==
  /\ UNION {r.members : r \in regions} = DOMAIN doc
  /\ \A r, s \in regions : r # s => r.members \cap s.members = {}
  /\ CrossesNoRegion(units, regions)

\* The longest path that all members of a unit stand under.
CommonPath(paths, members) ==
  LET one == paths[Min(members)]
      Shared(k) == \A i \in members : Len(paths[i]) >= k /\ SubSeq(paths[i], 1, k) = SubSeq(one, 1, k)
  IN SubSeq(one, 1, Max({k \in 0..Len(one) : Shared(k)}))

\* A region that lies inside a unit's members, if there are regions.
RegionOf(u, regions) == {r \in regions : u.members \subseteq r.members}

\* The units as they are stored: with their path and their region.
Integrated(units, paths, regions) ==
  {[unit |-> u, path |-> CommonPath(paths, u.members), region |-> RegionOf(u, regions)] : u \in units}

-----------------------------------------------------------------------------
\* StructureQualityEstimator: percentages are compared without division.
Accounted(hierarchy, units) == MembersOf(units) \cup DOMAIN hierarchy.levels
UnknownBoundaries(b) == {i \in DOMAIN b : b[i].class = "UNKNOWN"}
UnknownElements(doc) == {i \in DOMAIN doc : doc[i].type = "UNKNOWN"}

QualityWarnings(doc, b, units, hierarchy) ==
  LET n == Len(doc)
      Share(s) == 100 * Cardinality(s)
  IN {w \in {"low accounting", "unresolved boundaries", "unknown elements", "broken continuity"} :
        CASE w = "low accounting" -> Share(Accounted(hierarchy, units)) < MinAccounted * n
          [] w = "unresolved boundaries" -> Share(UnknownBoundaries(b)) > MaxUnknownBoundaries * (n - 1)
          [] w = "unknown elements" -> Share(UnknownElements(doc)) > MaxUnknownTypes * n
          [] w = "broken continuity" -> Unresolved(doc, b, units) # {}}

-----------------------------------------------------------------------------
\* What a caller may add: relations between known ends, none of which the
\* builder made, and structural ones only.
SemanticTypes == {"EXPLAINS", "REFERS_TO", "SAME_TOPIC", "PREREQUISITE_OF"}

KnownEnds(doc, units, regions, hierarchy, subdocuments) ==
  {ElementEnd(i) : i \in DOMAIN doc} \cup {UnitEnd(u) : u \in units}
  \cup {SubdocumentEnd(s) : s \in subdocuments} \cup {<<"region", r.members>> : r \in regions}
  \cup {<<"context", i>> : i \in DOMAIN hierarchy.levels}

RedundantParent(r) == r.type = "PARENT_OF" /\ r.source[1] = "context" /\ r.target[1] = "context"

Addable(extra, built, known) ==
  \A r \in extra : /\ r.type \notin SemanticTypes /\ r \notin built
                   /\ {r.source, r.target} \subseteq known /\ ~RedundantParent(r)

-----------------------------------------------------------------------------
\* CanonicalDocument.validate_integrity, of the document that is assembled.
Disjoint(sets) == \A s, t \in sets : s # t => s \cap t = {}

ContextIsTree(hierarchy) ==
  \A i \in DOMAIN hierarchy.levels :
    LET p == Parent(hierarchy.paths, i) IN p # None => p \in DOMAIN hierarchy.levels /\ p < i

IsCanonical(document) ==
  LET positions == DOMAIN document.elements
      nodes == DOMAIN document.hierarchy.levels
      known == KnownEnds(document.elements, {u.unit : u \in document.units}, document.regions,
                         document.hierarchy, document.subdocuments)
  IN /\ Disjoint({r.members : r \in document.regions})
     /\ UNION {r.members : r \in document.regions} \subseteq positions
     /\ document.mode = "MIXED" => document.regions # {}
     /\ \A u \in document.units : /\ u.unit.members \subseteq positions
                                  /\ ToSet(u.path) \subseteq nodes
                                  /\ \A r \in u.region : u.unit.members \subseteq r.members
     /\ Disjoint(document.subdocuments) /\ UNION document.subdocuments \subseteq positions
     /\ \A r \in document.relations : {r.source, r.target} \subseteq known /\ ~RedundantParent(r)
     /\ ContextIsTree(document.hierarchy)

-----------------------------------------------------------------------------
\* The report of UnderstandingCompletionBuilder.
BrokenOff(document) ==
  {i \in DOMAIN document.elements \ MembersOf({u.unit : u \in document.units}) :
     document.elements[i].type \in IntegritySensitive}

RegionsAreReady(document) ==
  \/ document.mode # "MIXED"
  \/ document.regions # {} /\ UNION {r.members : r \in document.regions} = DOMAIN document.elements

Report(document, unresolved, issue, semantic) ==
  [ready |-> unresolved = {} /\ BrokenOff(document) = {} /\ RegionsAreReady(document) /\ ~issue,
   warnings |-> document.warnings
     \cup (IF BrokenOff(document) = {} THEN {} ELSE {"ungrouped integrity"})
     \cup (IF RegionsAreReady(document) THEN {} ELSE {"incomplete regions"})
     \cup (IF issue THEN {"adapter issue"} ELSE {})
     \cup (IF semantic = "FAILED_OPTIONAL" THEN {"semantics failed"} ELSE {})]
=============================================================================
