-------------------------- MODULE StructuralRelations -------------------------
(***************************************************************************)
(* The relations that follow from the structure of a document: neighbours, *)
(* membership, nesting, notes and their references, questions and answers, *)
(* and tables that go on on the next page.                                 *)
(***************************************************************************)
EXTENDS ContentRegions

CONSTANTS
  LaneTolerance, WidthTolerance,   \* between the column edges and widths of two parts of a table
  MinSignals                       \* how much must speak for it that they are parts of one

ASSUME RelationAssumption == {LaneTolerance, WidthTolerance} \subseteq Nat /\ MinSignals \in 2..8

NoteKinds == {"footnote", "endnote"}

\* The ends of a relation: an element, a unit or a subdocument.
ElementEnd(i) == <<"element", i>>
UnitEnd(u) == <<"unit", u.type, u.members>>
SubdocumentEnd(s) == <<"subdocument", s>>

Relation(type, source, target) == [type |-> type, source |-> source, target |-> target]

Neighbours(doc) == {Relation("NEXT", ElementEnd(i), ElementEnd(i + 1)) : i \in 1..(Len(doc) - 1)}

Memberships(units) ==
  UNION {{Relation("PART_OF", ElementEnd(i), UnitEnd(u)) : i \in u.members} : u \in units}

-----------------------------------------------------------------------------
\* The unit that is one native group. Lists that were merged from several have
\* given up their names.
NativeUnit(units, g) == {u \in units : u.groups = {g}}
Children(units) == {u \in units : u.parent # None}

\* A group that is the parent of another has exactly one unit.
NestingIsSound(units) ==
  /\ \A g \in UNION {u.groups : u \in units} : Cardinality(NativeUnit(units, g)) <= 1
  /\ \A u \in Children(units) : NativeUnit(units, u.parent) # {}

Nestings(units) ==
  UNION {{Relation("PART_OF", UnitEnd(u), UnitEnd(p)) : p \in NativeUnit(units, u.parent)} : u \in Children(units)}

-----------------------------------------------------------------------------
\* A note is an element with an anchor <<kind, id>>; whoever refers to it names
\* that. A reference without a note is left alone.
Anchored(doc, key) == {i \in DOMAIN doc : doc[i].anchor = key}

AnchorsAreSound(doc) ==
  /\ \A i, j \in DOMAIN doc : i # j /\ doc[i].anchor # None => doc[i].anchor # doc[j].anchor
  /\ \A i \in DOMAIN doc : \A key \in doc[i].refs : key[1] \in NoteKinds => i \notin Anchored(doc, key)

Notes(doc) ==
  UNION {UNION {{Relation("FOOTNOTE_OF", ElementEnd(note), ElementEnd(i)) : note \in Anchored(doc, key)} :
                  key \in {k \in doc[i].refs : k[1] \in NoteKinds}} : i \in DOMAIN doc}

QuestionAnswers(units) ==
  {Relation("QUESTION_ANSWER", ElementEnd(Min(u.members)), ElementEnd(Max(u.members))) :
     u \in {v \in units : v.type = "QA_PAIR"}}

-----------------------------------------------------------------------------
Containing(subdocuments, u) == {s \in subdocuments : u.members \subseteq s}

CrossesNoSubdocument(units, subdocuments) ==
  \A u \in units : \A s \in subdocuments : u.members \cap s # {} => u.members \subseteq s

SubdocumentMemberships(units, subdocuments) ==
  UNION {{Relation("PART_OF", UnitEnd(u), SubdocumentEnd(s)) : s \in Containing(subdocuments, u)} : u \in units}

-----------------------------------------------------------------------------
\* Only a unit of one table, whose geometry was measured, is a fragment.
TablesOf(doc, u) == {i \in u.members : doc[i].type = "TABLE"}
Evidence(doc, u) == doc[CHOOSE i \in TablesOf(doc, u) : TRUE].evidence

Fragments(doc, units) ==
  {u \in units : /\ Cardinality(TablesOf(doc, u)) = 1
                 /\ Evidence(doc, u) # None
                 /\ \A i \in TablesOf(doc, u) : doc[i].anchor # None}

\* Six signals are there whenever two parts fit; what else both of them say, and
\* say alike, is a signal too.
EvidenceSignals(l, r) ==
  6 + Cardinality({said \in {<<"orientation", l.orientation, r.orientation>>, <<"lead", l.lead, r.lead>>} :
                     said[2] # None /\ said[2] = said[3]})

\* The columns of one continue in the other over the edge of the page.
CompatibleTables(l, r) ==
  /\ l.atBottom /\ r.atTop
  /\ l.columns = r.columns /\ l.topology = r.topology
  /\ l.lane - r.lane \in -LaneTolerance..LaneTolerance
  /\ l.width - r.width \in -WidthTolerance..WidthTolerance
  /\ None \in {l.orientation, r.orientation} \/ l.orientation = r.orientation
  /\ EvidenceSignals(l, r) >= MinSignals

\* Mutant: every pair that fits is believed.
EveryTableContinuation(doc, units) ==
  LET fragments == Fragments(doc, units)
      Page(u) == Evidence(doc, u).page
      Pairs == {pair \in fragments \X fragments :
                  /\ Page(pair[2]) = Page(pair[1]) + 1
                  /\ CompatibleTables(Evidence(doc, pair[1]), Evidence(doc, pair[2]))}
  IN {Relation("CONTINUES", UnitEnd(pair[1]), UnitEnd(pair[2])) : pair \in Pairs}

\* Of several pairs that fit, none is believed.
TableContinuations(doc, units) ==
  LET fragments == Fragments(doc, units)
      Page(u) == Evidence(doc, u).page
      Pairs(p) ==
        {pair \in {u \in fragments : Page(u) = p} \X {u \in fragments : Page(u) = p + 1} :
           CompatibleTables(Evidence(doc, pair[1]), Evidence(doc, pair[2]))}
      accepted == {p \in {Page(u) : u \in fragments} : \E pair \in Pairs(p) : Pairs(p) = {pair}}
  IN UNION {{Relation("CONTINUES", UnitEnd(pair[1]), UnitEnd(pair[2])) : pair \in Pairs(p)} : p \in accepted}

-----------------------------------------------------------------------------
\* What StructuralRelationBuilder refuses.
Relatable(doc, units, subdocuments) ==
  /\ NestingIsSound(units)
  /\ AnchorsAreSound(doc)
  /\ CrossesNoSubdocument(units, subdocuments)

Relations(doc, units, subdocuments) ==
  UNION {Neighbours(doc), Memberships(units), Nestings(units), Notes(doc), QuestionAnswers(units),
         SubdocumentMemberships(units, subdocuments), TableContinuations(doc, units)}
=============================================================================
