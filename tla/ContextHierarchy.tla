--------------------------- MODULE ContextHierarchy ---------------------------
(***************************************************************************)
(* The context nodes (titles, headings, inferred sections) with their      *)
(* levels, and the path of nodes each element stands under.  A node is     *)
(* known by the position of its element.                                   *)
(***************************************************************************)
EXTENDS IntegrityConsolidation

CONSTANTS MinRootHeadings, MinRootNavigation   \* before a root is inferred

ASSUME HierarchyAssumption == MinRootHeadings \in Nat \ {0, 1, 2} /\ MinRootNavigation \in Nat \ {0, 1}

Inferred(outline, i) == {o \in outline : o.at = i}

\* What HierarchyBuilder refuses: a heading that does not begin anything, and
\* an inferred section behind a boundary that nobody could classify.
StartsBadly(doc, b, outline, i) ==
  /\ i > 1
  /\ IF doc[i].type \in HeadingTypes
     THEN IF doc[i].source = "EXPLICIT" THEN ~(b[i - 1].class = "HARD" /\ b[i - 1].explicit)
                                        ELSE b[i - 1].class \notin {"HARD", "SOFT"}
     ELSE Inferred(outline, i) # {} /\ b[i - 1].class = "UNKNOWN"

\* The level an element claims: inferred, by its type, native, or by the depth
\* of the number it begins with.
ClaimedLevel(e, inferred) ==
  IF inferred # {} THEN (CHOOSE o \in inferred : TRUE).level
  ELSE IF e.type = "TITLE" THEN 0
  ELSE IF e.level > 0 THEN e.level
  ELSE IF "numbering" \in Signals(e) THEN e.marker ELSE 1

NativeLevel(e) == IF e.type = "HEADING" THEN e.level ELSE 0
HasNumber(e) == "numbering" \in Signals(e) \/ (e.type = "LIST_ITEM" /\ e.depth # None)

\* The levels of the candidates, by position.
Candidates(doc, outline) ==
  [i \in {j \in DOMAIN doc : /\ doc[j].type \in HeadingTypes \/ Inferred(outline, j) # {}
                             /\ ~doc[j].blank}
     |-> ClaimedLevel(doc[i], Inferred(outline, i))]

-----------------------------------------------------------------------------
\* A first heading is taken for the title of the document if a subtitle follows
\* it at once, or a table of contents: the others are then levelled under it.
Calibrated(doc, levels) ==
  LET headings == {i \in DOMAIN levels : doc[i].type = "HEADING"}
      first == Min(headings)
      second == Min(headings \ {first})
      entries == {i \in (first + 1)..(second - 1) : "navigation" \in doc[i].marks}
      subtitled == /\ second = first + 1 /\ Cardinality(headings) >= 4
                   /\ doc[first].level > 0 /\ doc[first].level = doc[second].level
      sections == headings \ ({first} \cup (IF subtitled THEN {second} ELSE {}))
      native == {i \in sections : NativeLevel(doc[i]) > 0}
      baseline == NativeLevel(doc[Min(native)])
      Relative(i) == IF NativeLevel(doc[i]) <= baseline THEN 1 ELSE 1 + NativeLevel(doc[i]) - baseline
      HasRoot == /\ 0 \notin {levels[i] : i \in DOMAIN levels}
                 /\ Cardinality(headings) >= MinRootHeadings
                 /\ Order(first) = 0 /\ ~HasNumber(doc[first])
                 /\ subtitled \/ Cardinality(entries) >= MinRootNavigation
  IN IF ~HasRoot THEN levels
     ELSE [i \in DOMAIN levels |->
             CASE i = first -> 0
               [] subtitled /\ i = second -> 1
               [] i \in native /\ ~HasNumber(doc[i]) -> Relative(i)
               [] OTHER -> levels[i]]

-----------------------------------------------------------------------------
\* Mutant: a heading of the same level does not close the one before it.
PopLower(stack, levels, level) ==
  SubSeq(stack, 1, Max({0} \cup {k \in DOMAIN stack : levels[stack[k]] <= level}))

\* The open nodes after each element: a node closes those at its level or
\* below before it is pushed.
Pop(stack, levels, level) ==
  SubSeq(stack, 1, Max({0} \cup {k \in DOMAIN stack : levels[stack[k]] < level}))

Paths(doc, levels) ==
  LET path[i \in 0..Len(doc)] ==
        IF i = 0 THEN <<>>
        ELSE IF i \in DOMAIN levels THEN Append(Pop(path[i - 1], levels, levels[i]), i) ELSE path[i - 1]
  IN [i \in DOMAIN doc |-> path[i]]

Parent(paths, i) == IF Len(paths[i]) = 1 THEN None ELSE paths[i][Len(paths[i]) - 1]

Mode(levels, paths) ==
  CASE DOMAIN levels = {} -> "UNKNOWN"
    [] Cardinality(DOMAIN levels) = 1 -> "LOCAL"
    [] \E i \in DOMAIN levels : Parent(paths, i) # None -> "HIERARCHICAL"
    [] OTHER -> "GROUPED"

Hierarchy(doc, outline) ==
  LET levels == Calibrated(doc, Candidates(doc, outline))
      paths == Paths(doc, levels)
  IN [levels |-> levels, paths |-> paths, mode |-> Mode(levels, paths)]
=============================================================================
