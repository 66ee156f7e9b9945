---------------------------- MODULE ContentRegions ----------------------------
(***************************************************************************)
(* The partition of a document into contiguous regions of one kind of      *)
(* content, and the mode of structure of each region and of the whole.     *)
(***************************************************************************)
EXTENDS ContextHierarchy

CONSTANT MixedShare   \* percentage of embedded content that makes a document mixed


TypeCategory(type) ==
  CASE type \in HeadingTypes \cup {"PARAGRAPH", "SENTENCE", "LINE", "CAPTION", "FOOTNOTE"} -> "NARRATIVE"
    [] type \in ListTypes -> "LIST"
    [] type \in TableTypes -> "TABLE"
    [] type \in {"QUESTION", "ANSWER"} -> "QA"
    [] type = "DIALOGUE_TURN" -> "DIALOGUE"
    [] type = "LOG_ENTRY" -> "LOG"
    [] type \in {"FIGURE", "CHART"} -> "VISUAL"
    [] type \in {"HEADER", "FOOTER", "PAGE_NUMBER"} -> "BOILERPLATE"
    [] OTHER -> type   \* CODE, FORMULA, KEY_VALUE, SEPARATOR and UNKNOWN

\* Whatever stands in a page header or footer is boilerplate.
Category(e) == IF e.zone \in {"header", "footer"} THEN "BOILERPLATE" ELSE TypeCategory(e.type)

Attached == {"BOILERPLATE", "SEPARATOR"}   \* bridge_categories
Embeddable == {"LIST", "CODE", "TABLE", "FORMULA", "VISUAL"}
Interactions == {"QA", "DIALOGUE", "LOG", "KEY_VALUE"}
Blendable == {"NARRATIVE", "UNKNOWN"}   \* what a unit may give another category

ASSUME RegionAssumption == MixedShare \in 0..100 /\ None \notin Interactions

\* The composition of a document: how many elements are of each category, which
\* of them leads alone, and how often the category changes.
Profile(doc) ==
  LET Of(c) == {i \in DOMAIN doc : Category(doc[i]) = c}
      categories == {Category(doc[i]) : i \in DOMAIN doc}
      leaders == {c \in categories : \A d \in categories : Cardinality(Of(d)) <= Cardinality(Of(c))}
  IN [counts |-> [c \in categories |-> Cardinality(Of(c))],
      dominant |-> IF Cardinality(leaders) = 1 THEN CHOOSE c \in leaders : TRUE ELSE None,
      switches |-> Cardinality({i \in 1..(Len(doc) - 1) : Category(doc[i]) # Category(doc[i + 1])})]

-----------------------------------------------------------------------------
(* The category that counts for the partition.                             *)

Interaction(u) ==
  CASE u.type = "QA_PAIR" -> "QA"
    [] u.type = "DIALOGUE_SEGMENT" -> "DIALOGUE"
    [] u.type = "LOG_WINDOW" -> "LOG"
    [] u.type = "KEY_VALUE_GROUP" -> "KEY_VALUE"
    [] OTHER -> None

\* The members of an interaction take its category.
Refined(doc, units) ==
  [i \in DOMAIN doc |->
    LET owners == {u \in OwnerOf(units, i) : Interaction(u) # None}
    IN IF owners = {} THEN Category(doc[i]) ELSE Interaction(CHOOSE u \in owners : TRUE)]

\* Blank paragraphs between the parts of a list that was merged from several
\* native ones belong to the list.
ListBridges(doc, units) ==
  {i \in DOMAIN doc :
     IsBlankParagraph(doc[i]) /\
     \E u \in units : /\ u.type = "LIST_GROUP" /\ Cardinality(u.groups) > 1
                      /\ i \in Min(u.members)..Max(u.members) \ u.members}

Routing(doc, units) ==
  [i \in DOMAIN doc |-> IF i \in ListBridges(doc, units) THEN "LIST" ELSE Refined(doc, units)[i]]

\* ContentRegionSegmenter refuses to overrule anything but text.
Routable(doc, units) ==
  /\ \A i \in DOMAIN doc : Refined(doc, units)[i] # Category(doc[i]) => Category(doc[i]) \in Blendable
  /\ \A i \in ListBridges(doc, units) : Refined(doc, units)[i] \in Blendable

-----------------------------------------------------------------------------
\* A region begins where the category of the material changes; what is attached
\* stays in the region before it, or in the first.
RegionStarts(routing) ==
  LET material == {i \in DOMAIN routing : routing[i] \notin Attached}
      Before(i) == {j \in material : j < i}
  IN {1} \cup {i \in material : Before(i) # {} /\ routing[Max(Before(i))] # routing[i]}

\* Without material, the most frequent category, and of those the earliest.
RegionCategory(routing, members) ==
  LET material == {i \in members : routing[i] \notin Attached}
      Of(i) == {j \in members : routing[j] = routing[i]}
      most == {i \in members : \A j \in members : Cardinality(Of(j)) <= Cardinality(Of(i))}
  IN routing[IF material # {} THEN Min(material) ELSE Min(most)]

\* The structure inside a region, by the context nodes that are anchored there.
RegionMode(hierarchy, members, category) ==
  LET nodes == DOMAIN hierarchy.levels \cap members
      nested == {i \in nodes : Parent(hierarchy.paths, i) \in nodes}
  IN CASE Cardinality(nodes) = 1 -> "LOCAL"
       [] nodes # {} /\ nested # {} -> "HIERARCHICAL"
       [] nodes # {} /\ nested = {} -> "GROUPED"
       [] nodes = {} /\ category \in Embeddable \cup Interactions -> "LOCAL"
       [] OTHER -> "UNKNOWN"

Segment(routing, hierarchy) ==
  LET starts == RegionStarts(routing)
      Members(s) == s..Min({t - 1 : t \in {t \in starts : t > s}} \cup {Len(routing)})
  IN {[members |-> Members(s), category |-> RegionCategory(routing, Members(s)),
       mode |-> RegionMode(hierarchy, Members(s), RegionCategory(routing, Members(s)))] : s \in starts}

-----------------------------------------------------------------------------
\* Interactions beside other content make a document mixed, as does much
\* embedded content unless headings hold it together.
IsMixed(routing, mode) ==
  LET material == {i \in DOMAIN routing : routing[i] \notin Attached \cup {"UNKNOWN"}}
      categories == {routing[i] : i \in material}
      embedded == {i \in material : routing[i] # "NARRATIVE"}
      held == mode \in {"HIERARCHICAL", "GROUPED"} /\ categories \subseteq Embeddable \cup {"NARRATIVE"}
  IN /\ Cardinality(categories) > 1
     /\ \/ categories \cap Interactions # {}
        \/ ~held /\ 100 * Cardinality(embedded) >= MixedShare * Cardinality(material)

DocumentMode(routing, hierarchy, regions) ==
  CASE IsMixed(routing, hierarchy.mode) -> "MIXED"
    [] ~IsMixed(routing, hierarchy.mode) /\ hierarchy.mode = "UNKNOWN" /\ Cardinality(regions) = 1 ->
         (CHOOSE r \in regions : TRUE).mode
    [] OTHER -> hierarchy.mode
=============================================================================
