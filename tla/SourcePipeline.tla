---------------------------- MODULE SourcePipeline ----------------------------
(***************************************************************************)
(* SourceUnderstandingPipeline._understand_elements: the stages in their   *)
(* order, each of which may refuse what it is given and so fail the whole, *)
(* and the semantic stage, which may fail without harm.  The input is a    *)
(* document with what its caller adds and the policy it is read under:     *)
(* [doc, regions, extra, issue, auto, annotator, raise], the annotator     *)
(* being a provider with the answers it may give.                          *)
(***************************************************************************)
EXTENDS SemanticAnnotation

VARIABLES
  input,    \* what is being understood
  stage,    \* the stage that is next, or "done" or "failed"
  result    \* what the stages so far have found

doc == input.doc
b == result.boundaries
units == result.units
hierarchy == result.hierarchy

Nothing ==
  [profile |-> None, outline |-> {}, boundaries |-> <<>>, units |-> {}, subdocuments |-> {},
   hierarchy |-> None, regions |-> {}, mode |-> None, stored |-> {}, relations |-> {}, warnings |-> {},
   structural |-> None, document |-> None, semantic |-> "NOT_CONFIGURED", report |-> None, error |-> None]

-----------------------------------------------------------------------------
\* Regions of the caller are taken as they are; else they are found; else there
\* are none.
FoundRegions ==
  CASE input.regions # {} -> input.regions
    [] input.regions = {} /\ input.auto -> Segment(Routing(doc, units), hierarchy)
    [] OTHER -> {}

\* Regions that were found may change the mode of the document.
FoundMode ==
  IF input.regions = {} /\ input.auto
  THEN DocumentMode(Routing(doc, units), hierarchy, FoundRegions) ELSE hierarchy.mode

Regionable ==
  CASE input.regions # {} -> Routed(doc, units, FoundRegions)
    [] input.regions = {} /\ input.auto -> Routable(doc, units) /\ Routed(doc, units, FoundRegions)
    [] OTHER -> TRUE

\* The parts as one document, without annotations yet.
Assembled ==
  [elements |-> doc, units |-> result.stored, hierarchy |-> hierarchy, regions |-> result.regions,
   mode |-> result.mode, relations |-> result.relations \cup input.extra,
   subdocuments |-> result.subdocuments, warnings |-> result.warnings,
   annotations |-> <<>>, manifest |-> None]

Assemblable ==
  /\ Addable(input.extra, result.relations,
             KnownEnds(doc, units, result.regions, hierarchy, result.subdocuments))
  /\ IsCanonical(Assembled)

Consolidable == SoundGroups(doc, b) /\ CrossesNoUnit(units, Spans(doc, b))
StartsWell == \A i \in DOMAIN doc : ~StartsBadly(doc, b, result.outline, i)

\* Whether the stage that is next takes what it is given.
Accepts ==
  CASE stage = "profiling" -> doc # <<>>
    [] stage = "integrity" -> Consolidable
    [] stage = "hierarchy" -> StartsWell
    [] stage = "regions" -> Regionable
    [] stage = "relations" -> Relatable(doc, units, result.subdocuments)
    [] stage = "assembly" -> Assemblable
    [] OTHER -> TRUE

-----------------------------------------------------------------------------
At(name) == stage = name
Advance(next, found) == stage' = next /\ result' = found /\ UNCHANGED input

ProfileContent ==
  At("profiling") /\ doc # <<>> /\ Advance("signals", [result EXCEPT !.profile = Profile(doc)])

ExtractSignals ==
  At("signals") /\ Advance("boundaries", [result EXCEPT !.outline = Outline(doc)])

ScoreBoundaries ==
  At("boundaries") /\ Advance("grouping", [result EXCEPT !.boundaries = Boundaries(doc)])

BuildGroups ==
  /\ At("grouping")
  /\ Advance("integrity", [result EXCEPT !.units = Group(doc, b), !.subdocuments = Subdocuments(doc, b)])

ConsolidateIntegrity ==
  At("integrity") /\ Consolidable /\ Advance("hierarchy", [result EXCEPT !.units = Consolidate(units, Spans(doc, b))])

BuildHierarchy ==
  At("hierarchy") /\ StartsWell /\ Advance("regions", [result EXCEPT !.hierarchy = Hierarchy(doc, result.outline)])

FindRegions ==
  At("regions") /\ Regionable /\ Advance("integration", [result EXCEPT !.regions = FoundRegions, !.mode = FoundMode])

IntegrateContext ==
  /\ At("integration")
  /\ Advance("relations", [result EXCEPT !.stored = Integrated(units, hierarchy.paths, result.regions)])

BuildRelations ==
  /\ At("relations") /\ Relatable(doc, units, result.subdocuments)
  /\ Advance("quality", [result EXCEPT !.relations = Relations(doc, units, result.subdocuments)])

EstimateQuality ==
  /\ At("quality")
  /\ Advance("assembly", [result EXCEPT !.warnings = QualityWarnings(doc, b, units, hierarchy)])

AssembleDocument ==
  /\ At("assembly") /\ Assemblable
  /\ Advance(IF input.annotator # None THEN "semantics" ELSE "completion",
             [result EXCEPT !.structural = Assembled, !.document = Assembled])

\* A stage that refuses what it is given fails the understanding: its name is
\* all that comes out.
StageFails ==
  /\ stage \notin {"done", "failed"} /\ ~Accepts
  /\ Advance("failed", [Nothing EXCEPT !.error = stage])

-----------------------------------------------------------------------------
\* An annotator comes back with the document annotated, after an answer it can
\* accept. The pipeline takes any object for one: a rogue one may also come back
\* with a document the structure of which it has changed.
Returned(d, n) ==
  LET annotated == [d EXCEPT !.annotations = <<[provider |-> None]>>]
  IN IF n.rogue
     THEN {d, annotated, [annotated EXCEPT !.mode = "MIXED"], [annotated EXCEPT !.relations = {}],
           [annotated EXCEPT !.elements = SubSeq(@, 2, Len(@))]}
     ELSE {Annotated(d, n, answer) : answer \in {a \in n.answers : Annotable(d, n, a)}}

\* Mutant: what is compared is how much there is of the structure.
KeepsShape(d) ==
  d.mode = result.structural.mode /\ Cardinality(d.relations) = Cardinality(result.structural.relations)

KeepsStructure(d) == [d EXCEPT !.annotations = <<>>, !.manifest = None] = result.structural

Annotate ==
  /\ At("semantics")
  /\ \E d \in Returned(result.structural, input.annotator) :
       /\ KeepsStructure(d)
       /\ Advance("completion", [result EXCEPT !.document = d, !.semantic = "COMPLETED"])

\* The annotator raises, or comes back with something else.
AnnotateFails ==
  /\ At("semantics")
  /\ IF input.raise
     THEN Advance("failed", [Nothing EXCEPT !.error = "semantics"])
     ELSE Advance("completion", [result EXCEPT !.semantic = "FAILED_OPTIONAL"])

ReportCompletion ==
  /\ At("completion")
  /\ LET unresolved == Unresolved(doc, b, units)
     IN Advance("done", [result EXCEPT !.report = Report(result.document, unresolved, input.issue, result.semantic)])

UnderstandElements ==
  \/ ProfileContent \/ ExtractSignals \/ ScoreBoundaries \/ BuildGroups \/ ConsolidateIntegrity
  \/ BuildHierarchy \/ FindRegions \/ IntegrateContext \/ BuildRelations \/ EstimateQuality
  \/ AssembleDocument \/ StageFails \/ Annotate \/ AnnotateFails \/ ReportCompletion
=============================================================================
