--------------------------- MODULE SemanticRetrieval ---------------------------
(***************************************************************************)
(* Annotations in the text that is indexed.  A benchmark over held-out     *)
(* documents measures what each capability of a provider is worth; from    *)
(* its report a gate is made, which attests the exact providers that were  *)
(* measured; and only what the gate approves is rendered before the text   *)
(* of a unit, within the budgets.  A report is [split, slices, semantics,  *)
(* attested]: semantics is the version of annotations its caller names,    *)
(* and attested gives the version, capabilities, configuration and policy  *)
(* of each provider by its name.                                           *)
(***************************************************************************)
EXTENDS SemanticAnnotation, RetrievalUnits

CONSTANTS
  MinRoleF1, MinSupported, MaxUnsupported, MinValueF1, MinSpanF1,   \* of the gate, in percent
  AllowedTypes,                                                     \* a sequence, the preferred first
  AllowedMethods, MinRetrievalConfidence, MaxPerUnit, MaxSemanticTokens

ASSUME GateAssumption ==
  /\ {MinRoleF1, MinSupported, MaxUnsupported, MinValueF1, MinSpanF1, MinRetrievalConfidence} \subseteq 0..100
  /\ MaxPerUnit \in Nat \ {0} /\ MaxSemanticTokens \in Nat \ {0}
  /\ IsSequence(AllowedTypes)

-----------------------------------------------------------------------------
(* The gate.                                                               *)

Below(measure, bound) == measure = None \/ measure < bound

\* Why the slice of a capability is not approved: not measured, or not good
\* enough, or of a kind that the benchmark cannot judge.
Reasons(s) ==
  {r \in {"support", "f1", "supported", "unsupported", "value", "span", "mode", "generative", "custom"} :
     CASE r = "support" -> s.support = 0
       [] r = "f1" -> Below(s.f1, MinRoleF1)
       [] r = "supported" -> Below(s.supported, MinSupported)
       [] r = "unsupported" -> s.unsupported = None \/ s.unsupported > MaxUnsupported
       [] r = "value" -> s.type \in ExtractiveTypes /\ Below(s.value, MinValueF1)
       [] r = "span" -> s.type \in ExtractiveTypes /\ Below(s.span, MinSpanF1)
       [] r = "mode" -> s.type \in ExtractiveTypes /\ s.mode # "EXTRACTIVE"
       [] r = "generative" -> s.mode = "GENERATIVE"
       [] r = "custom" -> s.type = "CUSTOM"}

SliceKey(s) == <<s.provider, s.capability, s.type, s.kind>>

\* A slice that was neither expected nor predicted says nothing.
Measured(report) == {s \in report.slices : s.support # 0 \/ s.falsePositives # 0}

Declared(report, s) ==
  /\ s.provider \in DOMAIN report.attested
  /\ \E k \in report.attested[s.provider].capabilities :
       k.name = s.capability /\ s.kind \in k.kinds /\ s.type \in k.types

\* The reasons that the builder of a gate writes for such a slice are in another
\* order than those its validator expects.
Contradicted(s) == s.type \in ExtractiveTypes /\ s.mode = "GENERATIVE"

Approved(report) == {SliceKey(s) : s \in {s \in Measured(report) : Reasons(s) = {}}}

IsGate(report) ==
  /\ report.split = "test" /\ Measured(report) # {}
  /\ \A s \in Measured(report) : s.capability # None /\ Declared(report, s)
  /\ \A s, t \in Measured(report) : SliceKey(s) = SliceKey(t) => s = t
  /\ \A s \in Measured(report) : ~Contradicted(s)
  /\ Approved(report) # {}

\* The document was annotated by all that the gate attests, exactly, and in the
\* version of annotations that it names. Gate and manifest take the version of
\* their fingerprints from one constant.
Attests(report, d) ==
  /\ d.manifest # None /\ report.semantics = SemanticVersion
  /\ \A p \in DOMAIN report.attested :
       LET attested == report.attested[p]
       IN /\ p \in DOMAIN d.manifest.versions /\ d.manifest.versions[p] = attested.version
          /\ p \in DOMAIN d.manifest.declared
          /\ d.manifest.declared[p] = [capabilities |-> attested.capabilities,
                                       configuration |-> attested.configuration, policy |-> attested.policy]

\* Mutant: that the manifest is attested says it of every annotation.
EvaluatedByManifest(report, a) ==
  a.provider \in DOMAIN report.attested /\ <<a.provider, a.capability, a.type, a.kind>> \in Approved(report)

\* The annotation itself is by a provider that was measured, as it was then.
Evaluated(report, a) ==
  /\ a.provider \in DOMAIN report.attested
  /\ LET attested == report.attested[a.provider]
     IN a.version = attested.version /\ a.configuration = attested.configuration /\ a.policy = attested.policy
  /\ <<a.provider, a.capability, a.type, a.kind>> \in Approved(report)

-----------------------------------------------------------------------------
(* Enrichment.                                                             *)

\* How close an annotation is to a unit. Annotators annotate elements and units
\* only; what else a document may carry is never evaluated.
Scope(unit, a) ==
  IF a.target \in {ElementEnd(i) : i \in unit.members} THEN 0
  ELSE IF unit.owner # None /\ a.target = UnitEnd(unit.owner) THEN 1
  ELSE None

Rank(type) == CHOOSE k \in DOMAIN AllowedTypes : AllowedTypes[k] = type

Eligible(report, d, unit) ==
  {i \in DOMAIN d.annotations :
     LET a == d.annotations[i]
     IN /\ Scope(unit, a) # None
        /\ a.type \in ToSet(AllowedTypes) /\ a.method \in AllowedMethods
        /\ Evaluated(report, a) /\ a.confidence >= MinRetrievalConfidence}

\* The closest, the surest, the preferred type, the oldest first; each value of
\* a type once.
Attachable(report, d, unit) ==
  LET eligible == Eligible(report, d, unit)
      a == d.annotations
      Order4(i) == <<Scope(unit, a[i]), -a[i].confidence, Rank(a[i].type), i>>
      Before(i, j) == \E k \in 1..4 : Order4(i)[k] < Order4(j)[k] /\ \A l \in 1..(k - 1) : Order4(i)[l] = Order4(j)[l]
      first == {i \in eligible : \A j \in eligible :
                  a[i].type = a[j].type /\ a[i].value = a[j].value => i = j \/ Before(i, j)}
      ordered == InOrder(first, Before)
  IN SubSeq(ordered, 1, Min({Len(ordered), MaxPerUnit}))

\* The heading of the block counts for one token, a label too, and so does a
\* value after it.
Block(d, chosen) == 1 + Cardinality(chosen) + Cardinality({i \in chosen : d.annotations[i].mode = "EXTRACTIVE"})

\* Each is rendered if there is still room for it, a later one also after one
\* that was left out.
Enriched(report, d, unit) ==
  LET attached == Attachable(report, d, unit)
      Render(chosen, i) ==
        LET block == Block(d, chosen \cup {i})
        IN IF block > MaxSemanticTokens \/ Exceeds(block + unit.tokens, [budget |-> unit.limit])
           THEN chosen ELSE chosen \cup {i}
      rendered[k \in 0..Len(attached)] == IF k = 0 THEN {} ELSE Render(rendered[k - 1], attached[k])
  IN [unit |-> unit, attached |-> ToSet(attached), rendered |-> rendered[Len(attached)]]

\* A unit without annotations stays as it is.
Enrichment(report, d, units) == {e \in {Enriched(report, d, u) : u \in units} : e.attached # {}}
=============================================================================
