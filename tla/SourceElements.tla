---------------------------- MODULE SourceElements ----------------------------
(***************************************************************************)
(* The elements of a source document as adapters and the normaliser leave  *)
(* them: a sequence in canonical order, an element being known by its      *)
(* position.  Text is represented by what the patterns of the structure    *)
(* stages tell apart: whether it is blank, which patterns it matches       *)
(* (marks), and the depth of the number it begins with (marker, 0 = none). *)
(* A group is a native integrity group with its parent, an anchor the name *)
(* <<kind, id>> under which refs of others find the element, part the file *)
(* of a package that the element was read from, and evidence the measured  *)
(* geometry of a table.                                                    *)
(***************************************************************************)
EXTENDS Integers, Sequences, FiniteSets, FiniteSetsExt, SequencesExt

CONSTANT None   \* a missing attribute


TableTypes == {"TABLE", "TABLE_ROW", "TABLE_CELL"}
ListTypes == {"LIST", "LIST_ITEM"}
HeadingTypes == {"TITLE", "HEADING"}
LexicalTypes == HeadingTypes \cup
  {"PARAGRAPH", "SENTENCE", "LINE", "QUESTION", "ANSWER", "DIALOGUE_TURN", "UNKNOWN"}

\* The patterns of StructureSignalExtractor, and those other stages look for.
PatternMarks == {"section", "question", "answer", "timestamp", "speaker"}
TextMarks == PatternMarks \cup {"parenthesized", "navigation", "colon", "long"}

StyleFields == {"bold", "font_size", "indentation", "alignment"}

Order(i) == i - 1   \* Element.order of the element at position i

Style(e, field) == IF e.style = None THEN None ELSE e.style[field]
IsBold(e) == Style(e, "bold") = TRUE

\* A label: text, and not too much of it.
IsLabel(e) == ~e.blank /\ "long" \notin e.marks

IsBlankParagraph(e) == e.type = "PARAGRAPH" /\ e.blank

\* The families whose elements must stay together, as in _FAMILIES.
Families == {"table", "list", "code", "formula", "key_value"}

\* None is no family, no number, and no group: a group is a list that begins at a
\* position, or a table at a position in the document or in a part with a name.
ASSUME NoneAssumption ==
  None \notin Families \cup Int \cup ({"list"} \X Nat) \cup ({"table"} \X ({"document"} \cup STRING) \X Nat)

Family(type) ==
  CASE type \in TableTypes -> "table"
    [] type \in ListTypes -> "list"
    [] type = "CODE" -> "code"
    [] type = "FORMULA" -> "formula"
    [] type = "KEY_VALUE" -> "key_value"
    [] OTHER -> None

FamilyUnit(family) ==
  CASE family = "table" -> "TABLE_BLOCK"
    [] family = "list" -> "LIST_GROUP"
    [] family = "code" -> "CODE_BLOCK"
    [] family = "formula" -> "TEXT_BLOCK"
    [] family = "key_value" -> "KEY_VALUE_GROUP"

\* What an adapter starts from: text, and nothing known of it.
Plain ==
  [type |-> "PARAGRAPH", source |-> "EXPLICIT", blank |-> FALSE, marks |-> {}, marker |-> 0, level |-> 0,
   style |-> None, seq |-> None, depth |-> None, format |-> None, group |-> None, parent |-> None,
   zone |-> None, part |-> None, sectionBreak |-> FALSE, anchor |-> None, refs |-> {}, evidence |-> None]

Blank == [Plain EXCEPT !.blank = TRUE]

\* An element has these fields, and its numbers are numbers.
IsElement(e) ==
  /\ e = [f \in DOMAIN Plain |-> e[f]]
  /\ {e.level, e.marker} \subseteq Nat
  /\ e.evidence # None => e.evidence.page \in Nat

IsSequence(s) == s \in Seq(ToSet(s))

\* The entries of a sequence at some of its positions, in their order.
Entries(s, positions) == FlattenSeq([i \in DOMAIN s |-> IF i \in positions THEN <<s[i]>> ELSE <<>>])

-----------------------------------------------------------------------------
\* Maximal runs of positions that satisfy Fits, broken before each position of
\* which Breaks holds.
Runs(n, Fits(_), Breaks(_)) ==
  LET Starts == {i \in 1..n : Fits(i) /\ (i = 1 \/ ~Fits(i - 1) \/ Breaks(i))}
      End(i) == Max({j \in i..n : \A k \in i..j : Fits(k) /\ (k = i \/ ~Breaks(k))})
  IN {i..End(i) : i \in Starts}
=============================================================================
