--------------------------- MODULE LogicalGrouping ----------------------------
(***************************************************************************)
(* The logical units of a document: non-overlapping sets of elements, taken *)
(* rule by rule in a fixed order, each rule from what the earlier ones left. *)
(* A unit is known by its type and members, as in the hash of its id.      *)
(***************************************************************************)
EXTENDS BoundaryScoring

CONSTANTS
  MinTurns, MinEntries,       \* of a dialogue, of a log window
  MinListMarkers, MaxBlanks   \* of a list that is only marked by its text

ASSUME GroupingAssumption ==
  /\ {MinTurns, MinEntries, MinListMarkers} \subseteq Nat \ {0, 1}
  /\ MaxBlanks \in Nat

FallbackTypes == {"PARAGRAPH", "SENTENCE", "LINE", "CAPTION", "FOOTNOTE"}

AtomicUnit(type) ==
  CASE type = "TABLE" -> "TABLE_BLOCK"
    [] type = "CODE" -> "CODE_BLOCK"
    [] type = "LIST" -> "LIST_GROUP"
    [] type = "KEY_VALUE" -> "KEY_VALUE_GROUP"
    [] type = "FORMULA" -> "TEXT_BLOCK"
    [] OTHER -> None

\* groups and parent are set by the integrity consolidation only.
Unit(type, members) == [type |-> type, members |-> members, groups |-> {}, parent |-> None]
Units(type, sets) == {Unit(type, s) : s \in sets}
MembersOf(units) == UNION {u.members : u \in units}

\* The boundary before position p keeps apart what is on its sides.
Cuts(b, p) == b[p - 1].class \in {"HARD", "UNKNOWN"}

-----------------------------------------------------------------------------
\* A protected pair, leftmost first: an answer that is itself a question does
\* not begin a second pair.
QAPairs(doc, b) ==
  LET n == Len(doc)
      IsPair(i) == b[i].guard = "QA_PAIR"
      paired[i \in 0..n] ==
        IF i = 0 THEN {} ELSE IF i < n /\ IsPair(i) /\ {i - 1, i} \notin paired[i - 1]
                              THEN paired[i - 1] \cup {{i, i + 1}} ELSE paired[i - 1]
  IN paired[n]

\* Runs of one type that are long enough.
RunsOf(doc, b, type, minimum) ==
  LET Fits(i) == doc[i].type = type
      Breaks(p) == Cuts(b, p)
  IN {run \in Runs(Len(doc), Fits, Breaks) : Cardinality(run) >= minimum}

\* A paragraph in the text of which an enumeration is marked.
IsMarker(e) == e.type = "PARAGRAPH" /\ ("numbering" \in Signals(e) \/ "parenthesized" \in e.marks)

\* Before the first marker, blank paragraphs aside, a list item ends in a colon.
IsIntroduced(doc, i) ==
  \E j \in 1..(i - 1) :
    /\ doc[j].type = "LIST_ITEM" /\ "colon" \in doc[j].marks
    /\ \A k \in (j + 1)..(i - 1) : IsBlankParagraph(doc[k])

\* The list that begins with the marker i: to the last marker that is reached
\* over free markers and short blank gaps without a cut.
LexicalList(doc, b, taken, i) ==
  LET Free(k) == k \notin taken /\ (IsMarker(doc[k]) \/ IsBlankParagraph(doc[k]))
      Reaches(m) ==
        /\ IsMarker(doc[m])
        /\ \A k \in i..m : Free(k) /\ (k = i \/ ~Cuts(b, k))
        /\ \A k \in i..(m - MaxBlanks) : \E j \in k..(k + MaxBlanks) : IsMarker(doc[j])
  IN i..Max({m \in i..Len(doc) : Reaches(m)})

LexicalLists(doc, b, taken) ==
  LET n == Len(doc)
      Begins(i) ==
        /\ i \notin taken /\ IsMarker(doc[i])
        /\ "parenthesized" \in doc[i].marks \/ IsIntroduced(doc, i)
        /\ Cardinality({k \in LexicalList(doc, b, taken, i) : IsMarker(doc[k])}) >= MinListMarkers
      from[i \in 1..(n + 1)] ==
        IF i > n THEN {}
        ELSE IF Begins(i)
             THEN {LexicalList(doc, b, taken, i)} \cup from[Max(LexicalList(doc, b, taken, i)) + 1]
             ELSE from[i + 1]
  IN from[1]

\* What is left of the text types, between cuts.
TextBlocks(doc, b, taken) ==
  LET Fits(i) == i \notin taken /\ doc[i].type \in FallbackTypes
      Breaks(p) == Cuts(b, p)
  IN Runs(Len(doc), Fits, Breaks)

-----------------------------------------------------------------------------
\* A rule takes a candidate only if none of its elements has a unit yet.
Take(units, candidates) ==
  units \cup {u \in candidates : u.members \cap MembersOf(units) = {}}

Group(doc, b) ==
  LET qa == Units("QA_PAIR", QAPairs(doc, b))
      dialogues == Take(qa, Units("DIALOGUE_SEGMENT", RunsOf(doc, b, "DIALOGUE_TURN", MinTurns)))
      logs == Take(dialogues, Units("LOG_WINDOW", RunsOf(doc, b, "LOG_ENTRY", MinEntries)))
      lists == logs \cup Units("LIST_GROUP", LexicalLists(doc, b, MembersOf(logs)))
      atoms == Take(lists, {Unit(AtomicUnit(doc[i].type), {i}) :
                              i \in {j \in DOMAIN doc : AtomicUnit(doc[j].type) # None}})
      texts == atoms \cup Units("TEXT_BLOCK", TextBlocks(doc, b, MembersOf(atoms)))
  IN Take(texts, {Unit("UNKNOWN_GROUP", {i}) : i \in {j \in DOMAIN doc : doc[j].type = "UNKNOWN"}})

Ungrouped(doc, units) == DOMAIN doc \ MembersOf(units)

-----------------------------------------------------------------------------
\* Pasted documents begin with explicit titles; a separator before the next
\* title belongs to neither.
Subdocuments(doc, b) ==
  LET n == Len(doc)
      starts == {i \in 1..n : doc[i].type = "TITLE" /\ doc[i].source = "EXPLICIT"
                              /\ (i = 1 \/ b[i - 1].class = "HARD")}
      Next(s) == Min({t \in starts \cup {n + 1} : t > s})
      End(s) == IF Next(s) <= n /\ doc[Next(s) - 1].type = "SEPARATOR" THEN Next(s) - 2 ELSE Next(s) - 1
  IN IF Cardinality(starts) < 2 THEN {} ELSE {s..End(s) : s \in starts}
=============================================================================
