--------------------------- MODULE SemanticAnnotation --------------------------
(***************************************************************************)
(* The annotator asks a provider for labels of the units and elements of a *)
(* document, checks every candidate it answers with, and adds those it     *)
(* selects, with the provider in the manifest.  A provider is a record     *)
(* [name, version, configuration, capabilities, batched, policy], policy   *)
(* being the annotator's.  A text is one word, a long one two; a word is   *)
(* known by its element and its place, and no other value is in a source.  *)
(* A configuration stands for its hash.                                    *)
(***************************************************************************)
EXTENDS CanonicalAssembly

CONSTANTS
  MaxRequest,        \* words a request may hold
  MinConfidence, MaxPerTarget,
  BatchSize, MaxCandidates   \* of a provider that asks a model in batches

ASSUME RequestAssumption ==
  /\ {MaxRequest, MaxPerTarget, BatchSize, MaxCandidates} \subseteq Nat \ {0} /\ MinConfidence \in 0..100

\* What processing.semantic_version says of a document that was annotated.
SemanticVersion == "semantic-annotations"

ExtractiveTypes == {"CONCEPT", "ENTITY", "KEYWORD"}
GenerativeTypes == {"SUMMARY", "KEY_POINT", "LEARNING_OBJECTIVE"}

DefaultMode(type) ==
  CASE type \in ExtractiveTypes -> "EXTRACTIVE"
    [] type \in GenerativeTypes -> "GENERATIVE"
    [] OTHER -> "LABEL_ONLY"

\* The members of S, none of which is before itself, in their order.
InOrder(S, Before(_, _)) ==
  [k \in 1..Cardinality(S) |-> CHOOSE i \in S : Cardinality({j \in S : Before(j, i)}) = k - 1]

-----------------------------------------------------------------------------
(* Requests.                                                               *)

Words(e) == CASE e.blank -> 0 [] ~e.blank /\ "long" \in e.marks -> 2 [] OTHER -> 1

\* Whole texts as long as there is room; only the first may be cut to it.
Segments(doc, members) ==
  LET Fill(acc, i) ==
        LET words == Words(doc[i])
            room == MaxRequest - acc.used
        IN IF i \notin members \/ words = 0 \/ acc.full THEN acc
           ELSE IF words <= room
                THEN [taken |-> acc.taken \cup {[element |-> i, words |-> words]}, used |-> acc.used + words, full |-> FALSE]
           ELSE IF acc.used = 0 THEN [taken |-> {[element |-> i, words |-> room]}, used |-> room, full |-> TRUE]
           ELSE [acc EXCEPT !.full = TRUE]
      upTo[i \in 0..Len(doc)] == IF i = 0 THEN [taken |-> {}, used |-> 0, full |-> FALSE] ELSE Fill(upTo[i - 1], i)
  IN upTo[Len(doc)].taken

Request(doc, target, kind, members) == [target |-> target, kind |-> kind, segments |-> Segments(doc, members)]

\* One for each unit, then one for each element, of those that have text.
Requests(d, n) ==
  LET Starting(i) == {s \in d.units : Min(s.unit.members) = i}
      OfUnit(i) == LET u == (CHOOSE s \in Starting(i) : TRUE).unit
                   IN IF Starting(i) = {} THEN <<>> ELSE <<Request(d.elements, UnitEnd(u), "LOGICAL_UNIT", u.members)>>
      units == IF n.policy.units THEN FlattenSeq([i \in DOMAIN d.elements |-> OfUnit(i)]) ELSE <<>>
      elements == IF n.policy.elements
                  THEN [i \in DOMAIN d.elements |-> Request(d.elements, ElementEnd(i), "ELEMENT", {i})] ELSE <<>>
      all == units \o elements
  IN Entries(all, {i \in DOMAIN all : all[i].segments # {} /\ \E k \in n.capabilities : all[i].kind \in k.kinds})

-----------------------------------------------------------------------------
(* Candidates: what the provider answers with, a sequence for each batch.  *)

\* SemanticCandidate: nothing inferred is a fact of the source, and what is
\* extracted is quoted.
IsCandidate(c) ==
  /\ c.source # "EXPLICIT"
  /\ c.type = "CUSTOM" => c.ontology # None
  /\ c.type \in ExtractiveTypes => \E e \in c.evidence : e.quote = c.value

Supporting(n, kind, c) ==
  {k \in n.capabilities : kind \in k.kinds /\ c.type \in k.types /\ (c.ontology = None \/ c.ontology \in k.ontologies)}

Capability(n, kind, c) == {k \in Supporting(n, kind, c) : c.capability \in {None, k.name}}

\* Evidence is a word that the request showed of its target, quoted as it is.
Grounded(r, e) ==
  \E s \in r.segments : s.element = e.element /\ e.at \in 1..s.words /\ e.quote = <<e.element, e.at>>

\* Each batch answers for its own requests, and does not answer too much.
FitsBatches(n, requests, answer) ==
  LET Batch(k) == SubSeq(requests, (k - 1) * BatchSize + 1, Min({k * BatchSize, Len(requests)}))
  IN /\ \A k \in DOMAIN answer : \A i \in DOMAIN answer[k] :
          \E r \in ToSet(Batch(k)) : r.target = answer[k][i].target /\ Supporting(n, r.kind, answer[k][i]) # {}
     /\ \A r \in ToSet(requests) : Len(SelectSeq(FlattenSeq(answer), LAMBDA c : c.target = r.target)) <= MaxCandidates

\* Whether no candidate makes the annotator give up on the whole answer.
Admissible(n, requests, answer) ==
  /\ n.batched => FitsBatches(n, requests, answer)
  /\ \A c \in ToSet(FlattenSeq(answer)) :
       /\ IsCandidate(c)
       /\ \E r \in ToSet(requests) : /\ r.target = c.target
                                     /\ Cardinality(Capability(n, r.kind, c)) = 1
                                     /\ \A e \in c.evidence : Grounded(r, e)

\* Of the candidates for a target: the surest of each value, the surest first.
Selected(n, candidates, target) ==
  LET kept == {i \in DOMAIN candidates : /\ candidates[i].target = target
                                         /\ candidates[i].confidence >= MinConfidence
                                         /\ candidates[i].type \in n.policy.types}
      Key(i) == <<candidates[i].type, candidates[i].ontology, candidates[i].value>>
      Surer(i, j) == \/ candidates[i].confidence > candidates[j].confidence
                     \/ candidates[i].confidence = candidates[j].confidence /\ i < j
      best == {i \in kept : \A j \in kept : Key(i) = Key(j) => i = j \/ Surer(i, j)}
      ranked == InOrder(best, Surer)
  IN [k \in 1..Min({Len(ranked), MaxPerTarget}) |-> candidates[ranked[k]]]

-----------------------------------------------------------------------------
(* Annotations.                                                            *)

Annotation(n, kind, c) ==
  [target |-> c.target, kind |-> kind, type |-> c.type, value |-> c.value, evidence |-> c.evidence,
   mode |-> IF c.mode = None THEN DefaultMode(c.type) ELSE c.mode, ontology |-> c.ontology,
   confidence |-> c.confidence, method |-> c.method,
   capability |-> (CHOOSE k \in Capability(n, kind, c) : TRUE).name,
   provider |-> n.name, version |-> n.version, configuration |-> n.configuration, policy |-> n.policy]

Generated(n, requests, candidates) ==
  FlattenSeq([k \in DOMAIN requests |->
    LET chosen == Selected(n, candidates, requests[k].target)
    IN [i \in DOMAIN chosen |-> Annotation(n, requests[k].kind, chosen[i])]])

\* What an earlier annotator left, unless it is to be replaced.
Retained(n, existing) ==
  IF ~n.policy.preserve THEN <<>>
  ELSE Entries(existing, {i \in DOMAIN existing : ~(n.policy.replace /\ existing[i].provider = n.name)})

\* The manifest takes a version from each annotation, the last one's, and then
\* everything about the provider that was asked.
Manifest(n, old, annotations) ==
  LET previous == IF old = None THEN [versions |-> <<>>, declared |-> <<>>] ELSE old
      makers == {annotations[i].provider : i \in DOMAIN annotations}
      Latest(p) == annotations[Max({i \in DOMAIN annotations : annotations[i].provider = p})].version
      own == [capabilities |-> n.capabilities, configuration |-> n.configuration, policy |-> n.policy]
  IN [versions |-> [p \in {n.name} |-> n.version] @@ [p \in makers |-> Latest(p)] @@ previous.versions,
      declared |-> [p \in {n.name} |-> own] @@ previous.declared]

\* A reserved key spoils only what is selected; an annotation that is there
\* already, alike in all, makes the document one with two of a name.
Annotable(d, n, answer) ==
  LET requests == Requests(d, n)
      candidates == FlattenSeq(answer)
  IN n.policy.enabled =>
       /\ Admissible(n, requests, answer)
       /\ \A r \in ToSet(requests) : \A c \in ToSet(Selected(n, candidates, r.target)) : ~c.reserved
       /\ ToSet(Retained(n, d.annotations)) \cap ToSet(Generated(n, requests, candidates)) = {}

Annotated(d, n, answer) ==
  LET annotations == Retained(n, d.annotations) \o Generated(n, Requests(d, n), FlattenSeq(answer))
  IN IF n.policy.enabled
     THEN [d EXCEPT !.annotations = annotations, !.manifest = Manifest(n, d.manifest, annotations)] ELSE d
=============================================================================
