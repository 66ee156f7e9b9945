----------------------------- MODULE DocxAdapter ------------------------------
(***************************************************************************)
(* The adapter of Word documents.  A part of a package is a tree of XML    *)
(* nodes: a sequence in document order, each node with the position of the *)
(* node it stands in ("up", 0 = the part itself).  The content of a control*)
(* stands in the control.  A paragraph has its style, outline level and    *)
(* numbering, what the later stages read in its text as the revision view  *)
(* shows it, what its formulas say ("math": None, "said" or "empty") and   *)
(* the parts that a section break at its end refers to.  Names and ids of  *)
(* styles are pairs of a word and a number, as <<"Heading", 1>>.           *)
(***************************************************************************)
EXTENDS SourceElements

Revisions == {"ins", "del", "moveFrom", "moveTo"}
Wrappers == Revisions \cup {"sdt", "customXml"}
Unseen == {"bookmarkStart", "bookmarkEnd", "proofErr", "permStart", "permEnd"}
PageNotes == {"footnote", "endnote"}

Shows(view, name) ==
  CASE view = "ALL" -> TRUE
    [] view = "FINAL" -> name \in {"ins", "moveTo"}
    [] view = "ORIGINAL" -> name \in {"del", "moveFrom"}

Opens(view, node) == node.name \in Wrappers /\ (node.name \in Revisions => Shows(view, node.name))

-----------------------------------------------------------------------------
(* Styles: definitions of one id are merged unless they contradict each    *)
(* other, and a style has from those it is based on what it does not say.  *)

Held(values) == values \ {None}
The(values) == IF Held(values) = {} THEN None ELSE CHOOSE v \in Held(values) : TRUE

StyleIds(styles) == {styles[i].id : i \in DOMAIN styles}
Said(styles, id, field) == {styles[i][field] : i \in {j \in DOMAIN styles : styles[j].id = id}}

Contradictory(styles) ==
  \E id \in StyleIds(styles), field \in {"outline", "num", "level", "base"} :
    Cardinality(Held(Said(styles, id, field))) > 1

\* The last name that was given; of the rest no two differ.
Merged(styles, id) ==
  LET named == {i \in DOMAIN styles : styles[i].id = id /\ styles[i].name # None}
  IN [name |-> IF named = {} THEN None ELSE styles[Max(named)].name,
      outline |-> The(Said(styles, id, "outline")), num |-> The(Said(styles, id, "num")),
      level |-> The(Said(styles, id, "level")), base |-> The(Said(styles, id, "base"))]

\* The style, the one it is based on, and so on.
Lineage(styles, id) ==
  LET Next[k \in 0..Cardinality(StyleIds(styles))] ==
        IF k = 0 THEN id
        ELSE IF Next[k - 1] \notin StyleIds(styles) THEN None
        ELSE Merged(styles, Next[k - 1]).base
  IN Next

Circular(styles) ==
  \E id \in StyleIds(styles) : Lineage(styles, id)[Cardinality(StyleIds(styles))] \in StyleIds(styles)

MissingBase(styles) ==
  \E id \in StyleIds(styles) : Merged(styles, id).base \notin StyleIds(styles) \cup {None}

\* Nothing for an id that is not defined. The level comes with its number.
Resolve(styles, id) ==
  LET lineage == Lineage(styles, id)
      chain == [k \in {j \in DOMAIN lineage : lineage[j] \in StyleIds(styles)} |-> Merged(styles, lineage[k])]
      First(chained, of, field) ==
        LET saying == {k \in DOMAIN chained : chained[k][of] # None}
        IN IF saying = {} THEN None ELSE chained[Min(saying)][field]
  IN [field \in {"name", "outline", "num", "level"} |->
        First(chain, IF field = "level" THEN "num" ELSE field, field)]

-----------------------------------------------------------------------------
(* The tree of a part.                                                     *)

\* The nodes that a node stands in.
Around(nodes) ==
  LET Of[n \in 0..Len(nodes)] == IF n = 0 THEN {} ELSE {nodes[n].up} \cup Of[nodes[n].up]
  IN Of

Between(nodes, n, m) == {k \in Around(nodes)[m] : n \in Around(nodes)[k]}

\* The nodes of a name in n, as far as only opened wrappers stand in between.
Wrapped(nodes, view, n, name) ==
  {m \in DOMAIN nodes :
     /\ nodes[m].name = name /\ n \in Around(nodes)[m]
     /\ \A k \in Between(nodes, n, m) : Opens(view, nodes[k])}

Blocks(nodes, view) ==
  {n \in DOMAIN nodes : \A k \in Around(nodes)[n] \ {0} : Opens(view, nodes[k])}

\* Of two forms of the same content only one is taken.
SelectedBranch(nodes, n) ==
  LET Branches(name) == {k \in DOMAIN nodes : nodes[k].up = n /\ nodes[k].name = name}
  IN IF Branches("Choice") # {} THEN Min(Branches("Choice"))
     ELSE IF Branches("Fallback") # {} THEN Min(Branches("Fallback")) ELSE 0

\* The tables of the text boxes in n that no other table contains.
Boxed(nodes, view, n) ==
  {m \in DOMAIN nodes :
     LET between == Between(nodes, n, m)
     IN /\ nodes[m].name = "tbl" /\ n \in Around(nodes)[m]
        /\ \E k \in between : nodes[k].name = "txbxContent"
        /\ \A k \in between : /\ nodes[k].name # "tbl"
                              /\ nodes[k].name \in Revisions => Shows(view, nodes[k].name)
        /\ \A k \in between \cup {m} :
             nodes[k].up \in between /\ nodes[nodes[k].up].name = "AlternateContent" => k = SelectedBranch(nodes, nodes[k].up)}

\* In the order of the nodes, what Emit makes of those in S.
InDocumentOrder(nodes, S, Emit(_)) ==
  FlattenSeq([n \in DOMAIN nodes |-> IF n \in S THEN Emit(n) ELSE <<>>])

-----------------------------------------------------------------------------
(* Paragraphs.                                                             *)

Heads(name) == name # None /\ name[1] = "Heading"
Navigates(name) == name # None /\ name[1] = "TOC"

\* An outline level of 9 is body text. 0 = none.
HeadingLevel(style, p) ==
  LET outline == IF p.outline # None THEN p.outline ELSE style.outline
      level == IF outline # None THEN outline + 1 ELSE IF Heads(style.name) THEN style.name[2] ELSE 0
  IN IF level = 10 THEN 0 ELSE level

\* The number "0" says that there is none.
EffectiveNumbering(style, p) ==
  LET effective == IF p.num # None THEN [seq |-> p.num, depth |-> p.level]
                   ELSE [seq |-> style.num, depth |-> IF style.level = None THEN 0 ELSE style.level]
  IN IF effective.seq \in {None, "0"} THEN None ELSE effective

FormatOf(lists, numbering) ==
  LET levels == {i \in DOMAIN lists : lists[i].num = numbering.seq /\ numbering.depth \in DOMAIN lists[i].formats}
  IN IF levels = {} THEN None ELSE lists[Min(levels)].formats[numbering.depth]

InPart(part) == [Plain EXCEPT !.zone = part.zone, !.part = part.name]
Silent(part, type) == [InPart(part) EXCEPT !.type = type, !.blank = TRUE]
WithNumbering(e, lists, numbering) ==
  IF numbering = None THEN e
  ELSE [e EXCEPT !.seq = numbering.seq, !.depth = numbering.depth, !.format = FormatOf(lists, numbering)]

\* A paragraph as its form has it: a heading, else an item, else a formula.
Formed(package, part, style, p) ==
  LET level == HeadingLevel(style, p)
      numbering == EffectiveNumbering(style, p)
      text == [InPart(part) EXCEPT !.blank = p.blank, !.marks = p.marks, !.marker = p.marker,
                                   !.style = p.look, !.refs = p.refs]
      observed == WithNumbering(text, package.lists, numbering)
  IN CASE level # 0 -> [observed EXCEPT !.type = "HEADING", !.level = level]
       [] level = 0 /\ numbering # None -> [observed EXCEPT !.type = "LIST_ITEM"]
       [] level = 0 /\ numbering = None /\ p.math # None /\ p.blank -> [observed EXCEPT !.type = "FORMULA"]
       [] OTHER -> observed

\* What the styles of a table of contents say of outlines and lists does not
\* count, and a formula speaks where the paragraph does not.
Paragraph(package, part, style, p) ==
  LET formed == Formed(package, part, style, p)
  IN IF Navigates(p.style) \/ Navigates(style.name) THEN [formed EXCEPT !.type = "PARAGRAPH", !.level = 0]
     ELSE IF formed.type = "FORMULA" THEN [formed EXCEPT !.blank = (p.math = "empty")] ELSE formed

-----------------------------------------------------------------------------
(* Blocks.                                                                 *)

SectionSeparator(part) == [Silent(part, "SEPARATOR") EXCEPT !.sectionBreak = TRUE]

\* A row or a cell has the text of its paragraphs, not that of tables in it.
Paragraphs(nodes, n) ==
  {m \in DOMAIN nodes : /\ nodes[m].name = "p" /\ n \in Around(nodes)[m]
                        /\ \A k \in Between(nodes, n, m) : nodes[k].name \notin {"tbl", "p"}}

InTable(nodes, part, t, n, type) ==
  LET texts == {nodes[m] : m \in {k \in Paragraphs(nodes, n) : ~nodes[k].blank}}
      enclosing == {k \in Around(nodes)[t] \ {0} : nodes[k].name = "tbl"}
  IN [InPart(part) EXCEPT
        !.type = type, !.group = <<"table", part.name, t>>,
        !.parent = IF enclosing = {} THEN None ELSE <<"table", part.name, Max(enclosing)>>,
        !.blank = (type = "TABLE" \/ texts = {}),
        !.marks = IF type = "TABLE" THEN {} ELSE (UNION {p.marks : p \in texts}) \cap {"long"}]

CellsOf(nodes, view, t) == UNION {Wrapped(nodes, view, r, "tc") : r \in Wrapped(nodes, view, t, "tr")}
NestedIn(nodes, view, t) == UNION {Wrapped(nodes, view, c, "tbl") : c \in CellsOf(nodes, view, t)}

\* A table, its rows and cells, and where they stand in a cell the tables in
\* it; then those in a wrapper in a cell, then those in text boxes.
TableElements(view, part, table) ==
  LET nodes == part.nodes
      Emit[t \in DOMAIN nodes] ==
        LET cells == CellsOf(nodes, view, t)
            nested == NestedIn(nodes, view, t)
            direct == {m \in nested : nodes[m].up \in cells}
            Of(n) == Emit[n]
            Cell(c) == <<InTable(nodes, part, t, c, "TABLE_CELL")>>
                       \o InDocumentOrder(nodes, {m \in direct : nodes[m].up = c}, Of)
            Row(r) == <<InTable(nodes, part, t, r, "TABLE_ROW")>>
                      \o InDocumentOrder(nodes, Wrapped(nodes, view, r, "tc"), Cell)
        IN <<InTable(nodes, part, t, t, "TABLE")>>
           \o InDocumentOrder(nodes, Wrapped(nodes, view, t, "tr"), Row)
           \o InDocumentOrder(nodes, nested \ direct, Of)
           \o InDocumentOrder(nodes, UNION {Boxed(nodes, view, c) : c \in cells}, Of)
  IN Emit[table]

\* The tables of its text boxes stand in a paragraph, and a section ends after it.
ParagraphElements(package, part, n) ==
  LET node == part.nodes[n]
      Table(t) == TableElements(package.policy.view, part, t)
  IN <<Paragraph(package, part, Resolve(package.styles, node.style), node)>>
     \o InDocumentOrder(part.nodes, Boxed(part.nodes, package.policy.view, n), Table)
     \o (IF node.section = None THEN <<>> ELSE <<SectionSeparator(part)>>)

\* A block that is not understood is one element of unknown type.
IsOpaque(node) ==
  node.name \notin Wrappers \cup Unseen \cup {"p", "tbl", "sectPr"}

Opaque(part, node) ==
  IF node.name = "altChunk" THEN Silent(part, "UNKNOWN")
  ELSE [InPart(part) EXCEPT !.type = "UNKNOWN", !.blank = node.blank, !.marks = node.marks,
                            !.marker = node.marker, !.refs = node.refs]

BlockElements(package, part, n) ==
  LET node == part.nodes[n]
  IN CASE node.name = "p" -> ParagraphElements(package, part, n)
       [] node.name = "tbl" -> TableElements(package.policy.view, part, n)
       [] node.name = "sectPr" -> <<SectionSeparator(part)>>
       [] node.name \in Wrappers \cup Unseen -> <<>>
       [] IsOpaque(node) -> <<Opaque(part, node)>>

PartElements(package, part) ==
  LET Block(n) == BlockElements(package, part, n)
  IN InDocumentOrder(part.nodes, Blocks(part.nodes, package.policy.view), Block)

-----------------------------------------------------------------------------
(* The parts of a package: the body, the notes, headers and footers.       *)

BodyPart(package) == [name |-> "document", zone |-> "body", nodes |-> package.body]

\* Word keeps its separators among the notes, under the ids -1 and 0.
NotesRead(package) ==
  LET IsRead(note) == IF note.kind \in PageNotes THEN package.policy.notes /\ note.id \notin {"-1", "0"}
                      ELSE package.policy.comments
  IN Entries(package.notes, {i \in DOMAIN package.notes : IsRead(package.notes[i])})

\* Each kind of note has a part of its own.
NoteElement(note) ==
  [InPart([name |-> note.kind, zone |-> note.kind]) EXCEPT !.type = "FOOTNOTE", !.anchor = <<note.kind, note.id>>, !.blank = note.blank]

RepeatsNote(package) ==
  LET notes == NotesRead(package)
  IN \E i, j \in DOMAIN notes : i # j /\ <<notes[i].kind, notes[i].id>> = <<notes[j].kind, notes[j].id>>

\* The headers and footers that the sections of the body refer to.
Referenced(package) ==
  LET nodes == package.body
  IN UNION ({nodes[n].section : n \in {m \in Blocks(nodes, package.policy.view) : nodes[m].name \in {"p", "sectPr"}}} \ {None})

HeadersRead(package) ==
  Entries(package.headers,
          {i \in DOMAIN package.headers : package.policy.headers /\ package.headers[i].name \in Referenced(package)})

HeaderMissing(package) ==
  package.policy.headers /\ ~(Referenced(package) \subseteq {h.name : h \in ToSet(package.headers)})

-----------------------------------------------------------------------------
(* Lists: items that follow each other belong together as long as their    *)
(* number is the same, or their level and format are.                      *)

Compatible(l, r) ==
  \/ l.seq = r.seq
  \/ l.depth = r.depth /\ l.format # None /\ l.format = r.format

ListIntegrity(elements) ==
  LET IsItem(i) == elements[i].type = "LIST_ITEM"
      Follows(i) == /\ i > 1 /\ IsItem(i - 1)
                    /\ elements[i].zone = elements[i - 1].zone /\ elements[i].part = elements[i - 1].part
                    /\ Compatible(elements[i - 1], elements[i])
      First(i) == Max({j \in 1..i : IsItem(j) /\ ~Follows(j)})
  IN [i \in DOMAIN elements |->
        IF IsItem(i) THEN [elements[i] EXCEPT !.group = <<"list", First(i)>>] ELSE elements[i]]

-----------------------------------------------------------------------------
DocxElements(package) ==
  LET notes == NotesRead(package)
      parts == <<BodyPart(package)>> \o HeadersRead(package)
      OfPart(i) ==
        (IF i = 1 THEN <<>> ELSE <<Silent(parts[i], "SEPARATOR")>>)
        \o PartElements(package, parts[i])
        \o (IF i = 1 THEN [k \in DOMAIN notes |-> NoteElement(notes[k])] ELSE <<>>)
  IN ListIntegrity(FlattenSeq([i \in DOMAIN parts |-> OfPart(i)]))

\* A node stands in one before it, numbers are numbers, and None is no reference.
IsTree(nodes, view) ==
  /\ IsSequence(nodes) /\ \A n \in DOMAIN nodes : nodes[n].up \in 0..(n - 1)
  /\ \A n \in Blocks(nodes, view) :
       /\ nodes[n].name = "p" => nodes[n].outline \in Nat \cup {None}
       /\ nodes[n].name = "p" \/ (IsOpaque(nodes[n]) /\ nodes[n].name # "altChunk") =>
            nodes[n].marker \in Nat /\ None \notin nodes[n].refs

\* A header or footer is a part of its own name, and a note is of one of three kinds.
IsPackage(package) ==
  /\ IsSequence(package.notes) /\ IsSequence(package.headers) /\ IsSequence(package.styles)
  /\ IsTree(package.body, package.policy.view)
  /\ \A h \in ToSet(package.headers) :
       IsTree(h.nodes, package.policy.view) /\ h.zone \in {"header", "footer"} /\ h.name \in STRING \ {BodyPart(package).name}
  /\ \A i, j \in DOMAIN package.headers : i # j => package.headers[i].name # package.headers[j].name
  /\ \A note \in ToSet(package.notes) : note.kind \in PageNotes \cup {"comment"}
  /\ \A style \in ToSet(package.styles) :
       style.outline \in Nat \cup {None} /\ (Heads(style.name) => style.name[2] \in Nat)

RepeatsList(lists) == \E i, j \in DOMAIN lists : i # j /\ lists[i].num = lists[j].num

\* What makes the adapter raise an error.
DocxReadable(package) ==
  /\ package.intact
  /\ ~Contradictory(package.styles) /\ ~Circular(package.styles)
  /\ ~RepeatsList(package.lists) /\ ~RepeatsNote(package)

\* What it reports as incomplete.
DocxIncomplete(package) ==
  LET HasOpaque(nodes) == \E n \in Blocks(nodes, package.policy.view) : IsOpaque(nodes[n])
  IN \/ MissingBase(package.styles) \/ HeaderMissing(package)
     \/ HasOpaque(package.body) \/ \E h \in ToSet(HeadersRead(package)) : HasOpaque(h.nodes)
     \/ \E note \in ToSet(NotesRead(package)) : note.complex
=============================================================================
