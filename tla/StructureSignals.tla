--------------------------- MODULE StructureSignals ---------------------------
(***************************************************************************)
(* Local evidence of structure, and the outlines that are inferred from a  *)
(* repeated numbering or from a styled preface.  Nothing here decides.     *)
(***************************************************************************)
EXTENDS SourceElements

CONSTANTS
  OrderedFormats,    \* number formats that count
  MinSections, MinNested,              \* of a native outline
  MinNavigation, MinPrefaceSections    \* of a styled preface

ASSUME PolicyAssumption ==
  /\ MinSections \in Nat \ {0, 1, 2} /\ MinNested \in Nat \ {0}
  /\ {MinNavigation, MinPrefaceSections} \subseteq Nat \ {0, 1}

\* The patterns that become signals: only text of lexical types is read, and a
\* label before a colon is a speaker only if nothing else explains it.
Signals(e) ==
  IF e.blank \/ e.type \notin LexicalTypes THEN {}
  ELSE (e.marks \cap (PatternMarks \ {"speaker"}))
       \cup (IF e.marker > 0 THEN {"numbering"} ELSE {})
       \cup (IF e.marks \cap PatternMarks = {"speaker"} THEN {"speaker"} ELSE {})

-----------------------------------------------------------------------------
(* Outline from a repeated native ordered numbering.                       *)

Numbered(doc) ==
  {i \in DOMAIN doc : doc[i].type = "LIST_ITEM" /\ None \notin {doc[i].seq, doc[i].depth, doc[i].format}}
NumberingOf(e) == [zone |-> e.zone, seq |-> e.seq, format |-> e.format]
InOutline(doc, key) == {i \in Numbered(doc) : NumberingOf(doc[i]) = key}

Sections(doc, key) ==
  {i \in InOutline(doc, key) : doc[i].depth = 0 /\ IsBold(doc[i]) /\ IsLabel(doc[i])}

Outlines(doc) ==
  {key \in {NumberingOf(doc[i]) : i \in Numbered(doc)} :
     /\ key.format \in OrderedFormats
     /\ Cardinality(Sections(doc, key)) >= MinSections
     /\ Cardinality({i \in InOutline(doc, key) : doc[i].depth > 0}) >= MinNested}

IsOutlineLabel(e, zone) ==
  /\ e.type = "PARAGRAPH" /\ e.zone = zone
  /\ IsLabel(e) /\ IsBold(e)
  /\ Style(e, "indentation") # None

\* The one label between the last section and the first table after it, unless
\* a heading or another list comes first.
PostLabel(doc, key, last) ==
  LET after == {i \in (last + 1)..Len(doc) : doc[i].zone = key.zone}
      tables == {i \in after : doc[i].type = "TABLE"}
      before == {i \in after : i < Min(tables)}
      labels == {i \in before : IsOutlineLabel(doc[i], key.zone)}
      stops == {i \in before : \/ doc[i].type = "HEADING"
                               \/ doc[i].type = "LIST_ITEM" /\ doc[i].seq # key.seq}
  IN IF tables = {} THEN {}
     ELSE IF stops # {} \/ Cardinality(labels) # 1 THEN {} ELSE labels

Outlined(positions, level, role) == {[at |-> i, level |-> level, role |-> role] : i \in positions}

DocumentOutline(doc) ==
  IF Cardinality(Outlines(doc)) # 1 THEN {}
  ELSE LET key == CHOOSE k \in Outlines(doc) : TRUE
           sections == Sections(doc, key)
           first == Min(sections)
           titles == {i \in 1..(first - 1) : doc[i].type = "HEADING" /\ doc[i].zone = key.zone}
           labels == {i \in 2..(first - 1) :
                        IsOutlineLabel(doc[i], key.zone) /\ "colon" \in doc[i].marks}
       IN IF titles # {1} THEN {}
          ELSE Outlined({1}, 0, "DOCUMENT_TITLE")
               \cup Outlined(labels, 1, "SECTION")
               \cup Outlined(sections, IF labels = {} THEN 1 ELSE 2, "NUMBERED_SECTION")
               \cup Outlined(PostLabel(doc, key, Max(sections)), 1, "SECTION")

-----------------------------------------------------------------------------
(* Outline from the typography of a preface, if a table of contents follows *)
(* it and the first heading comes after that.                               *)

PrefaceOutline(doc) ==
  LET headings == {i \in DOMAIN doc : doc[i].type = "HEADING" /\ ~doc[i].blank}
      h == Min(headings)
      zone == doc[h].zone
      entries == {i \in 1..(h - 1) : doc[i].zone = zone /\ "navigation" \in doc[i].marks}
      visible == {i \in 1..(Min(entries) - 1) : doc[i].zone = zone /\ ~doc[i].blank}
      styled == {i \in visible : /\ doc[i].type = "PARAGRAPH" /\ IsBold(doc[i]) /\ IsLabel(doc[i])
                                 /\ Style(doc[i], "font_size") # None}
      Size(i) == Style(doc[i], "font_size")
      largest == {i \in styled : \A j \in styled : Size(j) <= Size(i)}
      title == Min(largest)
      smaller == {i \in styled : i > title /\ Size(i) < Size(title)}
      OfSize(s) == {i \in smaller : Size(i) = s}
      count == [s \in {Size(i) : i \in smaller} |-> Cardinality(OfSize(s))]
      best == {s \in DOMAIN count : \A other \in DOMAIN count : count[other] <= count[s]}
      sections == OfSize(CHOOSE s \in best : TRUE)
  IN IF headings = {} THEN {}
     ELSE IF Order(h) <= 1 \/ doc[h].level # 1 \/ Cardinality(entries) < MinNavigation THEN {}
     ELSE IF Cardinality(styled) < 1 + MinPrefaceSections THEN {}
     ELSE IF Cardinality(largest) # 1 \/ title # Min(visible) \/ Cardinality(best) # 1 THEN {}
     ELSE IF Cardinality(sections) < MinPrefaceSections THEN {}
     ELSE Outlined({title}, 0, "DOCUMENT_TITLE") \cup Outlined(sections, 1, "SECTION")

Outline(doc) ==
  LET found == DocumentOutline(doc) IN IF found = {} THEN PrefaceOutline(doc) ELSE found
=============================================================================
