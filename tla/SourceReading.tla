---------------------------- MODULE SourceReading -----------------------------
(***************************************************************************)
(* A source from its bytes to the units that are indexed: the runner has   *)
(* an adapter extract raw elements, the pipeline normalises and            *)
(* understands them, the runner audits that nothing the adapter observed   *)
(* was changed, its caller may have it annotated again, the builder        *)
(* projects it, and the enricher adds to the units what the report of a    *)
(* benchmark allows.                                                       *)
(***************************************************************************)
EXTENDS SourcePipeline, SemanticRetrieval, TextAdapters, DocxAdapter

CONSTANTS
  Sources,   \* [format, bytes, encoding, package, elements, issue, regions, extra, auto, annotator,
             \* raise, again, report]
  Policies   \* [budget, adaptive] of the projection

\* What an annotator answers are batches of candidates, as sure as a percentage.
IsAnnotator(n) ==
  ~n.rogue =>
    \A answer \in n.answers :
      /\ IsSequence(answer) /\ \A batch \in ToSet(answer) : IsSequence(batch)
      /\ \A batch \in ToSet(answer) : \A c \in ToSet(batch) : c.confidence \in 0..100

\* A benchmark names who it has measured, and its measures are percentages.
IsReport(report) ==
  /\ None \notin DOMAIN report.attested
  /\ \A s \in report.slices :
       s.support \in Nat /\ {s.f1, s.supported, s.unsupported, s.value, s.span} \subseteq 0..100 \cup {None}

\* The bytes have lines, the package has trees, and an annotator that is asked
\* again is one of this repository.
ASSUME SourcesAssumption ==
  \A s \in Sources :
    /\ CASE s.format \in {"text", "markdown"} ->
              \A d \in DOMAIN s.bytes.lines :
                IsSequence(s.bytes.lines[d]) /\ \A line \in ToSet(s.bytes.lines[d]) : IsLine(line)
         [] s.format = "docx" -> IsPackage(s.package)
         [] OTHER -> IsSequence(s.elements) /\ \A e \in ToSet(s.elements) : IsElement(e)
    /\ \A n \in {s.annotator, s.again} \ {None} : IsAnnotator(n)
    /\ s.again # None => ~s.again.rogue
    /\ s.report # None => IsReport(s.report)

ASSUME PoliciesAssumption == \A policy \in Policies : policy.budget \in Nat \cup {None}

VARIABLES
  source,      \* what is read, and what is asked of the reading
  raw,         \* the elements as the adapter observed them
  projection   \* the retrieval units

readingVars == <<source, raw, projection, input, stage, result>>

\* The hints that are element types; any other makes the type UNKNOWN.
ElementTypes ==
  LexicalTypes \cup IntegritySensitive
  \cup {"LOG_ENTRY", "FIGURE", "CHART", "CAPTION", "FOOTNOTE", "SEPARATOR", "HEADER", "FOOTER", "PAGE_NUMBER"}

Init ==
  /\ source \in Sources /\ raw = <<>> /\ projection = None
  /\ input = None /\ stage = "adapting" /\ result = Nothing

-----------------------------------------------------------------------------
\* Whether the adapter of the format can read the bytes at all.
Adaptable ==
  /\ source.format \in {"text", "markdown"} => Decodable(source.bytes, source.encoding)
  /\ source.format = "docx" => DocxReadable(source.package)

Observed ==
  CASE source.format = "text" -> PlainTextElements(Lines(source.bytes, source.encoding))
    [] source.format = "markdown" -> MarkdownElements(Lines(source.bytes, source.encoding))
    [] source.format = "docx" -> DocxElements(source.package)
    [] OTHER -> source.elements

\* What is extracted, if the adapter does not fail. A source from which nothing
\* is extracted is refused, and one that exceeds the limit of its adapter.
Extracted ==
  {observed \in IF Adaptable THEN {Observed} ELSE {} :
     /\ observed # <<>>
     /\ source.format = "docx" => Len(observed) <= source.package.policy.limit}

\* An adapter says when its elements do not show all of the structure.
Incomplete == source.format = "docx" /\ DocxIncomplete(source.package)

Adapt ==
  /\ stage = "adapting"
  /\ \E observed \in Extracted : raw' = observed
  /\ stage' = "normalising"
  /\ UNCHANGED <<source, projection, input, result>>

AdapterFails ==
  /\ stage = "adapting" /\ Extracted = {}
  /\ stage' = "failed" /\ result' = [Nothing EXCEPT !.error = "adapting"]
  /\ UNCHANGED <<source, raw, projection, input>>

\* ElementNormalizer: one element for each raw one, of the type the hint names.
Resolved(hint) == IF hint \in ElementTypes THEN hint ELSE "UNKNOWN"
Normalised(observed) == [i \in DOMAIN observed |-> [observed[i] EXCEPT !.type = Resolved(@)]]

Normalise ==
  /\ stage = "normalising"
  /\ input' = [doc |-> Normalised(raw), regions |-> source.regions, extra |-> source.extra,
               issue |-> source.issue \/ Incomplete, auto |-> source.auto, annotator |-> source.annotator,
               raise |-> source.raise]
  /\ stage' = "profiling"
  /\ UNCHANGED <<source, raw, projection, result>>

Understand == UnderstandElements /\ UNCHANGED <<source, raw, projection>>

\* evaluate_parser_preservation: all but the type is as it was observed.
Preserved(observed, elements) ==
  /\ Len(observed) = Len(elements)
  /\ \A i \in DOMAIN observed : [elements[i] EXCEPT !.type = observed[i].type] = observed[i]

AuditPreservation ==
  /\ stage = "done" /\ Preserved(raw, result.structural.elements)
  /\ stage' = "audited"
  /\ UNCHANGED <<source, raw, projection, input, result>>

\* The same or another annotator is given the document that came out. If it
\* raises, its caller still has the document it had.
Reannotate ==
  /\ stage = "audited" /\ source.again # None
  /\ \E d \in {result.document} \cup Returned(result.document, source.again) :
       result' = [result EXCEPT !.document = d]
  /\ stage' = "reannotated"
  /\ UNCHANGED <<source, raw, projection, input>>

ToProject == stage = "reannotated" \/ (stage = "audited" /\ source.again = None)

ProjectUnits ==
  /\ ToProject /\ Projectable(result.document)
  /\ \E policy \in Policies : projection' = Projection(result.document, policy)
  /\ stage' = "projected"
  /\ UNCHANGED <<source, raw, input, result>>

ProjectionFails ==
  /\ ToProject /\ ~Projectable(result.document)
  /\ stage' = "refused"
  /\ UNCHANGED <<source, raw, projection, input, result>>

\* SemanticRetrievalEnricher: a gate is made from the report, and the units are
\* enriched if it attests the document.
Enrichable == IsGate(source.report) /\ Attests(source.report, result.document)

EnrichUnits ==
  /\ stage = "projected" /\ source.report # None /\ Enrichable
  /\ projection' = [projection EXCEPT !.enriched = Enrichment(source.report, result.document, projection.units)]
  /\ stage' = "enriched"
  /\ UNCHANGED <<source, raw, input, result>>

EnrichmentFails ==
  /\ stage = "projected" /\ source.report # None /\ ~Enrichable
  /\ stage' = "unenriched"
  /\ UNCHANGED <<source, raw, projection, input, result>>

\* The reading ends here, and nowhere else: a source that got stuck in between,
\* as one that the audit refused would, is a deadlock.
Settled ==
  /\ stage \in {"failed", "refused", "enriched", "unenriched"} \/ (stage = "projected" /\ source.report = None)
  /\ UNCHANGED readingVars

-----------------------------------------------------------------------------
Next ==
  \/ Adapt \/ AdapterFails \/ Normalise \/ Understand \/ AuditPreservation
  \/ Reannotate \/ ProjectUnits \/ ProjectionFails \/ EnrichUnits \/ EnrichmentFails \/ Settled

Spec == Init /\ [][Next]_readingVars

-----------------------------------------------------------------------------
(* Properties.                                                             *)

\* What the adapters make of a text is complete and can be used. A text that can
\* be decoded and is not empty, and a Word document that can be opened and has a
\* block, are understood and projected to the end, whatever their lines and
\* blocks, if their caller adds nothing: no stage refuses what was observed of
\* them, but for a heading that reads as the answer to a question, and in a page
\* header or footer a question with its answer or a list that goes on over blank
\* paragraphs. And each table that a Word document shows is read once, however
\* tables, wrappers and text boxes contain each other.
ReadsPlainly ==
  LET Marginal(i) == raw[i].zone \in {"header", "footer"}
  IN \A i \in DOMAIN raw :
       /\ raw[i].type = "HEADING" => "answer" \notin raw[i].marks
       /\ i > 1 /\ Marginal(i) => ~("question" \in raw[i - 1].marks /\ "answer" \in raw[i].marks)
       /\ \A j \in (i + 2)..Len(raw) :
            Marginal(i) /\ {raw[i].type, raw[j].type} = {"LIST_ITEM"} =>
              \E k \in (i + 1)..(j - 1) : ~IsBlankParagraph(raw[k])

\* A table is shown if what is around it is, and nested as Word nests it.
IsShown(nodes, view, t) ==
  LET around == Around(nodes)[t] \ {0}
      Holder(k) == {j \in Around(nodes)[k] \ {0} : ~Opens(view, nodes[j])}
      Within(k) == IF Holder(k) = {} THEN "body" ELSE nodes[Max(Holder(k))].name
  IN \A k \in around \cup {t} :
       \/ Opens(view, nodes[k])
       \/ <<nodes[k].name, Within(k)>> \in {<<"tbl", "body">>, <<"tbl", "tc">>, <<"tc", "tr">>, <<"tr", "tbl">>}

TablesAreReadOnce(nodes, view) ==
  LET Readings(t) == {i \in DOMAIN raw : raw[i].type = "TABLE" /\ raw[i].group = <<"table", "document", t>>}
  IN \A t \in {n \in DOMAIN nodes : nodes[n].name = "tbl"} :
       Cardinality(Readings(t)) <= 1 /\ (IsShown(nodes, view, t) => Readings(t) # {})

TextIsUnderstood ==
  source.format \in {"text", "markdown", "docx"} =>
    /\ source.regions = {} /\ source.extra = {} /\ ~source.raise /\ ReadsPlainly
         => stage # "refused" /\ result.error \in {None, "adapting"}
    /\ source.format = "docx" /\ raw # <<>> => TablesAreReadOnce(source.package.body, source.package.policy.view)

\* The path of an element is made of the headings that are open there: those
\* that stand before it, or are it, and that no heading of their own level or
\* above has closed.
OpenAt(levels, i) ==
  {h \in DOMAIN levels : h <= i /\ \A k \in DOMAIN levels : h < k /\ k <= i => levels[k] > levels[h]}

PathsAreOpenHeadings ==
  hierarchy # None =>
    \A i \in DOMAIN hierarchy.paths :
      LET path == hierarchy.paths[i]
      IN /\ ToSet(path) = OpenAt(hierarchy.levels, i)
         /\ \A k \in 1..(Len(path) - 1) : path[k] < path[k + 1] /\ hierarchy.levels[path[k]] < hierarchy.levels[path[k + 1]]

\* Nothing is lost and nothing is indexed twice: each element of a source is in
\* exactly one retrieval unit or is named as boilerplate, as unresolved or as
\* blank, also where a block of text was cut to a budget.
EveryElementIsAccountedOnce ==
  projection # None =>
    LET fates == {u.members : u \in projection.units}
                 \cup ({projection.excluded, projection.unresolved, projection.blank} \ {{}})
        skipped == <<projection.excluded, projection.unresolved, projection.blank>>
    IN /\ UNION fates = DOMAIN raw /\ Disjoint(fates)
       /\ \A k, l \in DOMAIN skipped : k # l => skipped[k] \cap skipped[l] = {}

\* What the source names as one group (a table, a list, code) is retrieved as a
\* whole or not at all, whatever the budget. Formulas, which no adapter groups,
\* form a block of text that may be cut.
GroupsAreRetrievedWhole ==
  projection # None =>
    \A g \in NativeGroups(raw) :
      LET members == GroupMembers(raw, g)
      IN Family(raw[Min(members)].type) # "formula" =>
           \/ \E u \in projection.units : members \subseteq u.members
           \/ members \cap MembersOf(projection.units) = {}

\* No part of a table, a list, code or a formula is left outside of a unit,
\* however the source broke it up: what the projection cannot place are single
\* figures and charts, and a formula without text that a budget has cut off.
OnlyFiguresAreUnplaced ==
  projection # None =>
    \A i \in projection.unresolved :
      raw[i].type \in {"FIGURE", "CHART"} \/ (raw[i].type = "FORMULA" /\ raw[i].blank)

\* Tables that go on over pages form chains: one continues at most one other
\* and is continued by at most one, however many of them fit together.
ContinuationsAreChains ==
  LET continued == {r \in result.relations : r.type = "CONTINUES"}
  IN \A r, s \in continued : (r.source = s.source) = (r.target = s.target)

\* What the adapter observed is in the document that comes out as it was, by
\* way of the normaliser, of every stage and of an annotator that returns a
\* document of its own.
ObservationsAreKept ==
  stage \in {"done", "audited", "reannotated", "projected", "refused", "enriched", "unenriched"} => Preserved(raw, result.document.elements)

\* What stands before the text of a unit was said by exactly the annotator that
\* was measured, also when another version of it has annotated the document
\* before or since, in a capability that passed each of the measures it is
\* held to; a concept, an entity or a keyword among it is a word of what the
\* unit was taken from; and it all fits in both budgets. Of the other types
\* nothing is quoted, whatever their payload is said to be.
PassesMeasures(s) ==
  /\ s.support > 0 /\ s.f1 >= MinRoleF1 /\ s.supported >= MinSupported /\ s.unsupported <= MaxUnsupported
  /\ s.type \in ExtractiveTypes => s.value >= MinValueF1 /\ s.span >= MinSpanF1

SaidByTheMeasured(a) ==
  \E n \in {source.annotator, source.again} \ {None} :
    /\ <<a.provider, a.version, a.configuration, a.policy>> = <<n.name, n.version, n.configuration, n.policy>>
    /\ source.report.attested[n.name].version = n.version
    /\ source.report.attested[n.name].configuration = n.configuration
    /\ source.report.attested[n.name].policy = n.policy
    /\ \E s \in source.report.slices : SliceKey(s) = <<n.name, a.capability, a.type, a.kind>> /\ PassesMeasures(s)

QuotesWhatWasTaken(e, a) ==
  LET taken == IF e.unit.owner = None THEN e.unit.members ELSE e.unit.owner.members
  IN \E w \in a.evidence : w.quote = a.value /\ w.element \in taken

OnlyMeasuredIsShown ==
  stage = "enriched" =>
    \A e \in projection.enriched :
      LET shown == {result.document.annotations[i] : i \in e.rendered}
      IN /\ \A a \in shown : SaidByTheMeasured(a) /\ (a.type \in ExtractiveTypes => QuotesWhatWasTaken(e, a))
         /\ e.rendered # {} =>
              /\ Block(result.document, e.rendered) <= MaxSemanticTokens
              /\ e.unit.limit # None => Block(result.document, e.rendered) + e.unit.tokens <= e.unit.limit

\* What the documentation of the payload modes requires: an annotation whose
\* payload is extractive, of whatever type, and whose value is shown before the
\* text of a unit, has a span of the source that says it.
ExtractsAreQuoted ==
  stage = "enriched" =>
    \A e \in projection.enriched : \A i \in e.rendered :
      LET a == result.document.annotations[i]
      IN a.mode = "EXTRACTIVE" => QuotesWhatWasTaken(e, a)
=============================================================================
