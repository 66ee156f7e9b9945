---------------------------- MODULE MCSourceReading ----------------------------
(* The sources TLC reads: every short document over a few kinds of element,    *)
(* longer ones for what needs length, and texts that an adapter must read.     *)
EXTENDS SourceReading

Pick(type) == [Plain EXCEPT !.type = type]
Long == [Plain EXCEPT !.marks = {"long"}]
Heading(level) == [Plain EXCEPT !.type = "HEADING", !.level = level]
Bold(size) == [Plain EXCEPT !.style = [bold |-> TRUE, font_size |-> size, indentation |-> None, alignment |-> None]]
Label == [Plain EXCEPT !.style = [bold |-> TRUE, font_size |-> None, indentation |-> 0, alignment |-> None]]
Marked(type, mark) == [Plain EXCEPT !.type = type, !.marks = {mark}]
Entry == Marked("PARAGRAPH", "navigation")
InGroup(type, group, parent) == [Plain EXCEPT !.type = type, !.group = group, !.parent = parent]
Item(group) == [InGroup("LIST_ITEM", group, None) EXCEPT !.seq = "n", !.depth = 0, !.format = "bullet"]
OutlineSection(depth) ==
  [Plain EXCEPT !.type = "LIST_ITEM", !.group = "outline", !.seq = "o", !.depth = depth, !.format = "decimal",
                !.style = IF depth = 0 THEN Label.style ELSE None]
Break == Pick("SEPARATOR")
SectionBreak == [Break EXCEPT !.sectionBreak = TRUE, !.blank = TRUE]
InFooter == [Plain EXCEPT !.zone = "footer"]
InferredHeading == [Heading(0) EXCEPT !.source = "INFERRED"]
Note(id) == [Plain EXCEPT !.type = "FOOTNOTE", !.anchor = <<"footnote", id>>]
Referring(id) == [Plain EXCEPT !.refs = {<<"footnote", id>>}]
MeasuredTable(group, page, lane) ==
  [InGroup("TABLE", group, None) EXCEPT
     !.anchor = <<"table", group>>,
     !.evidence = [page |-> page, atBottom |-> page # 3, atTop |-> page # 1, columns |-> 2, lane |-> lane,
                   width |-> 8, topology |-> "grid", orientation |-> None, lead |-> "heads"]]

-----------------------------------------------------------------------------
Kinds ==
  {Plain, Blank, Heading(1), Heading(2), Item("l"), InGroup("TABLE_CELL", "t", None),
   Marked("PARAGRAPH", "question"), Marked("HEADING", "answer"), InFooter, Pick("UNKNOWN"), Pick("TITLE")}

RareKinds ==
  {Long, Break, InferredHeading, InGroup("TABLE_CELL", "inner", "t"), InGroup("CODE", "c", None), Pick("FIGURE"),
   Pick("FORMULA"), Pick("LIST_ITEM"), Pick("KEY_VALUE"), Pick("WATERMARK"), Pick("QUESTION"), Pick("ANSWER"),
   Pick("LOG_ENTRY"), Note("1"), Referring("1"), Marked("PARAGRAPH", "parenthesized"), Pick("PAGE_NUMBER")}

ShortDocuments == UNION {[1..n -> Kinds] : n \in 1..3}
RareDocuments == UNION {{<<r>>, <<r, k>>, <<k, r>>, <<k, r, k>>, <<r, r, k>>} : r \in RareKinds, k \in Kinds \cup RareKinds}

\* An outline of numbered sections, with and without labels around it.
OutlineDocuments ==
  {<<Heading(1)>> \o labels \o <<OutlineSection(0), OutlineSection(1), Plain, OutlineSection(0), OutlineSection(0)>> \o rest :
     labels \in {<<>>, <<[Label EXCEPT !.marks = {"colon"}]>>},
     rest \in {<<>>, <<Label, InGroup("TABLE", "t", None)>>, <<Label, Label, InGroup("TABLE", "t", None)>>}}

\* A styled preface before a table of contents.
PrefaceDocuments ==
  {<<Bold(20), Bold(14), Plain, Bold(14), Bold(12), Entry, Entry>> \o rest :
     rest \in {<<Heading(1)>>, <<Heading(1), Plain, Heading(2)>>, <<Heading(2)>>}}

\* A first heading that is the root of the others.
RootDocuments ==
  {<<Heading(1)>> \o first \o <<Heading(1), Plain, Heading(3), Heading(2), Plain>> :
     first \in {<<Heading(1), Heading(1)>>, <<Entry, Entry>>, <<Entry>>, <<Plain, Entry, Entry, Heading(2)>>}}

\* Lists over blanks and section breaks, tables in tables, tables over pages.
ListDocuments == {<<Item("l"), Item("l")>> \o gap \o <<Item("m"), Plain, Item(g)>> :
                    gap \in {<<>>, <<Blank>>, <<Blank, Blank, Blank>>, <<SectionBreak>>, <<Plain>>}, g \in {"l", "k"}}
TableDocuments ==
  {<<InGroup("TABLE", "t", None)>> \o inner \o <<InGroup("TABLE_CELL", "t", None), Plain>> :
     inner \in {<<InGroup("TABLE", "inner", "t"), InGroup("TABLE_CELL", "inner", "t")>>,
                <<InGroup("TABLE_ROW", "t", None), InGroup("TABLE_CELL", "inner", "outer")>>,
                <<InGroup("TABLE_CELL", "inner", None)>>}}
  \cup {<<MeasuredTable("p1", 1, 0), Plain, MeasuredTable("p2", 2, 1), MeasuredTable("p3", 3, lane)>> \o more :
          lane \in {1, 5}, more \in {<<>>, <<MeasuredTable("q2", 2, 2)>>, <<MeasuredTable("p1", 3, 0)>>}}
  \cup {<<MeasuredTable("p1", 1, 0), [MeasuredTable("p2", 2, 0) EXCEPT !.evidence.width = w, !.evidence.lead = h]>> :
          w \in {8, 11}, h \in {"heads", "other", None}}

\* Pasted documents, conversations, prose that exceeds a budget, pairs in turn.
MixedDocuments ==
  {<<Pick("TITLE"), Plain, Break, Pick("TITLE"), Long, Plain>>,
   <<Heading(1), Plain, Long, Plain, Blank, Long, Blank>>,
   <<Pick("DIALOGUE_TURN"), Pick("DIALOGUE_TURN"), Plain, Plain, Heading(1)>>,
   <<Pick("LOG_ENTRY"), Pick("LOG_ENTRY"), Plain, Blank, InGroup("TABLE_CELL", "t", None), InGroup("TABLE_CELL", "t", None)>>,
   <<Marked("PARAGRAPH", "question"), [Plain EXCEPT !.marks = {"question", "answer"}], Marked("PARAGRAPH", "answer")>>,
   <<[Item("l") EXCEPT !.marks = {"colon"}], [Plain EXCEPT !.marker = 1], Blank, [Plain EXCEPT !.marker = 1]>>,
   <<Referring("1"), Note("1"), Note("2"), Plain>>,
   <<Heading(1), [Pick("FORMULA") EXCEPT !.marks = {"long"}], [Pick("FORMULA") EXCEPT !.blank = TRUE]>>,
   <<[Note("1") EXCEPT !.refs = {<<"footnote", "1">>}], Plain>>}

PatternDocuments ==
  UNION {OutlineDocuments, PrefaceDocuments, RootDocuments, ListDocuments, TableDocuments, MixedDocuments}

-----------------------------------------------------------------------------
Asked ==
  [format |-> "own", bytes |-> None, encoding |-> "AUTO", package |-> None, elements |-> <<>>, issue |-> FALSE, regions |-> {},
   extra |-> {}, auto |-> TRUE, annotator |-> None, raise |-> FALSE,
   again |-> None, report |-> None]

Read(documents) == {[Asked EXCEPT !.elements = d] : d \in documents}

-----------------------------------------------------------------------------
\* Annotators of a document with a heading and a block of text of two elements,
\* the second of two words, and what they answer about it.
Annotating == <<Heading(1), Plain, Long>>
Body == <<"unit", "TEXT_BLOCK", {2, 3}>>

Word(element, at) == [element |-> element, at |-> at, quote |-> <<element, at>>]
Keyword(target, word, confidence) ==
  [target |-> target, type |-> "KEYWORD", value |-> word.quote, mode |-> None, source |-> "MODEL",
   confidence |-> confidence, method |-> "CALIBRATED", capability |-> None, ontology |-> None,
   evidence |-> {word}, reserved |-> FALSE]
Topic(target, n, confidence) ==
  [Keyword(target, Word(2, 1), confidence) EXCEPT !.type = "TOPIC", !.value = <<0, n>>, !.evidence = {}]

Good == <<Keyword(ElementEnd(2), Word(2, 1), 90), Keyword(ElementEnd(2), Word(2, 1), 70), Topic(ElementEnd(3), 1, 80),
          Topic(Body, 1, 80), Keyword(Body, Word(2, 1), 95), Topic(Body, 2, 40)>>
\* A topic that no span of the source says, and that is called an extract.
Extracts == <<[Topic(Body, 1, 90) EXCEPT !.mode = "EXTRACTIVE"]>>
Unacceptable ==
  LET k == Keyword(ElementEnd(2), Word(2, 1), 90)
  IN {[k EXCEPT !.source = "EXPLICIT"], [k EXCEPT !.evidence = {}], [k EXCEPT !.value = <<0, 1>>],
      [k EXCEPT !.evidence = {Word(2, 1), Word(3, 1)}], [k EXCEPT !.target = ElementEnd(9)],
      [k EXCEPT !.type = "ENTITY"], [k EXCEPT !.capability = "topics"], [k EXCEPT !.reserved = TRUE],
      [k EXCEPT !.type = "CUSTOM"], Keyword(Body, Word(3, 1), 95),
      [k EXCEPT !.target = ElementEnd(3), !.value = <<3, 2>>, !.evidence = {Word(2, 1)}]}

Capable(name, types) == [name |-> name, kinds |-> {"ELEMENT", "LOGICAL_UNIT"}, types |-> types, ontologies |-> {}]
Keen == [enabled |-> TRUE, units |-> TRUE, elements |-> TRUE, types |-> {"KEYWORD", "TOPIC"}, preserve |-> TRUE, replace |-> TRUE]
Provider(version) ==
  [name |-> "annotator", version |-> version, configuration |-> "c", batched |-> FALSE, policy |-> Keen,
   capabilities |-> {Capable("keywords", {"KEYWORD"}), Capable("topics", {"TOPIC"})},
   answers |-> {<<Good>>}, rogue |-> FALSE]
Rogue == [Provider("v1") EXCEPT !.rogue = TRUE]
Batched(answers) == [Provider("v1") EXCEPT !.batched = TRUE, !.answers = answers]

Annotators ==
  LET p == Provider("v1")
      Following(change) == [p EXCEPT !.policy = change]
  IN {p, [p EXCEPT !.answers = {<<>>} \cup {<<<<c>>>> : c \in Unacceptable}], Following([Keen EXCEPT !.enabled = FALSE]),
      Following([Keen EXCEPT !.units = FALSE]), Following([Keen EXCEPT !.elements = FALSE]),
      Following([Keen EXCEPT !.types = {"TOPIC"}]),
      [p EXCEPT !.capabilities = @ \cup {Capable("words", {"KEYWORD"})}], [p EXCEPT !.answers = {<<Extracts>>}],
      Batched({<<SubSeq(Good, 1, 2), SubSeq(Good, 3, 3)>>, <<SubSeq(Good, 5, 5), SubSeq(Good, 1, 2)>>,
               <<SubSeq(Good, 4, 6)>>})}

Again ==
  {[Provider(v) EXCEPT !.policy.replace = r, !.policy.preserve = k, !.answers = {<<SubSeq(Good, 1, 1)>>, <<>>}] :
     v \in {"v1", "v2"}, r \in BOOLEAN, k \in BOOLEAN}
  \cup {[Provider("v2") EXCEPT !.name = "other"], [Provider("v1") EXCEPT !.configuration = "d", !.policy.replace = FALSE]}

\* What a benchmark found of an annotator.
Slice(capability, type, kind) ==
  [provider |-> "annotator", capability |-> capability, type |-> type, kind |-> kind,
   mode |-> IF type = "TOPIC" THEN "LABEL_ONLY" ELSE "EXTRACTIVE", support |-> 5, falsePositives |-> 1, f1 |-> 90, supported |-> 90,
   unsupported |-> 5, value |-> IF type = "TOPIC" THEN None ELSE 90, span |-> IF type = "TOPIC" THEN None ELSE 90]
Slices == {Slice("keywords", "KEYWORD", k) : k \in {"ELEMENT", "LOGICAL_UNIT"}} \cup {Slice("topics", "TOPIC", "LOGICAL_UNIT")}
ReportOf(n) ==
  [split |-> "test", slices |-> Slices, semantics |-> SemanticVersion,
   attested |-> [p \in {n.name} |-> [version |-> n.version, capabilities |-> n.capabilities,
                                     configuration |-> n.configuration, policy |-> n.policy]]]

Reports(n) ==
  LET report == ReportOf(n)
      Of(s) == [report EXCEPT !.slices = {s}]
      keyword == Slice("keywords", "KEYWORD", "LOGICAL_UNIT")
      topic == Slice("topics", "TOPIC", "LOGICAL_UNIT")
  IN {report, [report EXCEPT !.split = "dev"], [report EXCEPT !.slices = @ \cup {Slice("none", "KEYWORD", "ELEMENT")}],
      Of([keyword EXCEPT !.f1 = 50]), Of([keyword EXCEPT !.span = None]), Of([keyword EXCEPT !.support = 0]),
      Of([keyword EXCEPT !.unsupported = 30]), [report EXCEPT !.semantics = "another"],
      [report EXCEPT !.slices = (@ \ {topic}) \cup {[topic EXCEPT !.mode = "EXTRACTIVE"]}],
      [report EXCEPT !.slices = (@ \ {keyword}) \cup {[keyword EXCEPT !.mode = "GENERATIVE"]}],
      [report EXCEPT !.slices = (@ \ {keyword}) \cup {[keyword EXCEPT !.mode = "LABEL_ONLY"]}], [report EXCEPT !.slices = @ \cup {[keyword EXCEPT !.support = 9]}]}

\* What a caller adds: regions that hold or do not hold, relations, a note of
\* the adapter, an annotator.
Region(members) == [members |-> members, category |-> "NARRATIVE", mode |-> "FLAT"]
Extra(type, from, to) == [type |-> type, source |-> from, target |-> to]

CallerSources ==
  LET document == <<Heading(1), Plain, Plain, InGroup("TABLE_CELL", "t", None)>>
      Asking == [Asked EXCEPT !.elements = document]
      Mixed == [Asking EXCEPT !.elements = <<Plain, Item("l"), Item("l")>>]
  IN {[Asking EXCEPT !.regions = {Region(1..k), Region((k + 1)..4)}] : k \in 1..3}
     \cup {[Asking EXCEPT !.regions = {Region(1..3)}], [Asking EXCEPT !.regions = {Region(1..2), Region(2..4)}]}
     \cup {[Asking EXCEPT !.extra = {Extra(t, <<"element", 2>>, <<"element", e>>)}] :
             t \in {"CAUSES", "NEXT", "SAME_TOPIC"}, e \in {1, 3, 9}}
     \cup {[Asking EXCEPT !.extra = {Extra("PARENT_OF", <<"context", 1>>, <<"context", 1>>)}]}
     \cup {[a EXCEPT !.auto = FALSE, !.issue = i] : a \in {Asking, Mixed}, i \in BOOLEAN}
     \cup {[a EXCEPT !.annotator = Rogue, !.raise = r, !.issue = i] :
             a \in {Asking, Mixed}, r \in BOOLEAN, i \in BOOLEAN}

AnnotatedSources ==
  LET Asking(n) == [Asked EXCEPT !.elements = Annotating, !.annotator = n]
  IN {[Asking(n) EXCEPT !.report = r] : n \in Annotators, r \in Reports(Provider("v1"))}
     \cup {[Asking(n) EXCEPT !.report = ReportOf(n)] : n \in Annotators}
     \cup {[Asking(Provider("v1")) EXCEPT !.again = n, !.report = ReportOf(m)] : n \in Again, m \in Again \cup {Provider("v1")}}
     \cup {[Asked EXCEPT !.elements = Annotating, !.report = ReportOf(Provider("v1"))]}

-----------------------------------------------------------------------------
\* Lines of text, and bytes that give them.
TextLine == [is |-> {}, setext |-> 0, level |-> 0, fence |-> None, marks |-> {}, marker |-> 0]
Is(kinds) == [TextLine EXCEPT !.is = kinds]
BlankLine == Is({"blank"})
Atx(level) == [Is({"atx"}) EXCEPT !.level = level]
Underline == [Is({"break"}) EXCEPT !.setext = 2]
Equals == [TextLine EXCEPT !.setext = 1]
Starred == Is({"break", "item"})
Fence(char, length, bare) ==
  [Is({"fence"}) EXCEPT !.fence = [char |-> char, length |-> length, bare |-> bare]]
Asks == [TextLine EXCEPT !.marks = {"question"}]
Answers == [TextLine EXCEPT !.marks = {"answer"}]

LineKinds ==
  {TextLine, BlankLine, Atx(1), Is({"item"}), Is({"quote"}), Underline, Starred, Fence("tick", 3, TRUE), Answers}
RareLines == {Equals, Fence("tick", 3, FALSE), Fence("tick", 4, TRUE), Fence("tilde", 3, TRUE), Asks, Atx(2)}

Texts ==
  UNION {[1..n -> LineKinds] : n \in 1..3}
  \cup UNION {{<<r, k>>, <<k, r, l>>} : r \in RareLines, k \in LineKinds, l \in {TextLine, Is({"item"}), Fence("tick", 3, TRUE)}}
  \cup {<<Fence("tick", 3, FALSE), k, TextLine, l, Atx(1)>> : k \in LineKinds \cup RareLines, l \in LineKinds \cup RareLines}
  \cup {<<Is({"item"}), k, Is({"item"}), l, Starred>> : k \in LineKinds, l \in LineKinds}

Utf8(lines) == [mark |-> None, lines |-> [d \in {"UTF-8"} |-> lines], tooLarge |-> FALSE, nul |-> FALSE]

TextSources ==
  {[Asked EXCEPT !.format = "markdown", !.bytes = Utf8(t)] : t \in Texts}
  \cup {[Asked EXCEPT !.format = "text", !.bytes = Utf8(t)] :
          t \in UNION {[1..n -> {TextLine, BlankLine, Asks, Answers}] : n \in 0..4}}
  \cup {[Asked EXCEPT !.format = f, !.encoding = e,
           !.bytes = [mark |-> m, lines |-> [d \in ds |-> <<Asks, Answers>>], tooLarge |-> large, nul |-> n]] :
          f \in {"text", "markdown"}, e \in {"AUTO", "UTF-8", "UTF-16-LE"},
          m \in {None, "UTF-8", "UTF-16-LE", "UTF-16-BE", "UTF-32"}, large \in BOOLEAN, n \in BOOLEAN,
          ds \in {{"UTF-8"}, {"UTF-16-LE", "UTF-16-BE"}}}

-----------------------------------------------------------------------------
\* Word documents: the nodes of blocks of every kind, two or three at a time.
Node(name) == [name |-> name, up |-> 0]
In(node, content) == <<node>> \o [i \in DOMAIN content |-> [content[i] EXCEPT !.up = @ + 1]]
Beside(l, r) == l \o [i \in DOMAIN r |-> [r[i] EXCEPT !.up = IF @ = 0 THEN 0 ELSE @ + Len(l)]]

P == [name |-> "p", up |-> 0, style |-> None, outline |-> None, num |-> None, level |-> 0, look |-> None,
      blank |-> FALSE, marks |-> {}, marker |-> 0, math |-> None, refs |-> {}, section |-> None]
Styled(word, number) == [P EXCEPT !.style = <<word, number>>]
Bullet(num, level) == [P EXCEPT !.num = num, !.level = level]
Cells(content) == In(Node("tbl"), In(Node("tr"), In(Node("tc"), content)))
Box(content) == In(Node("txbxContent"), content)
TwoForms(l, r) == In(Node("AlternateContent"), Beside(In(Node("Choice"), Box(l)), In(Node("Fallback"), Box(r))))
Unknown(name) == [name |-> name, up |-> 0, blank |-> FALSE, marks |-> {}, marker |-> 0, refs |-> {}]
Section(parts) == [P EXCEPT !.section = parts]

Simple ==
  {<<p>> : p \in {P, [P EXCEPT !.blank = TRUE], Styled("Heading", 1), Styled("Own", 1), Styled("Own", 2), Styled("TOC", 1),
                  [P EXCEPT !.outline = 9, !.style = <<"Heading", 1>>], [Styled("Own", 2) EXCEPT !.num = "0"],
                  Bullet("1", 0), Bullet("1", 1), Bullet("2", 0), Bullet("3", 0),
                  [P EXCEPT !.blank = TRUE, !.math = "said"], [P EXCEPT !.refs = {<<"footnote", "1">>}],
                  [P EXCEPT !.marks = {"question"}], [P EXCEPT !.marks = {"answer"}],
                  Section({"header1"}), Node("bookmarkStart"), Node("altChunk"), Unknown("smartTag")}}
Tables ==
  LET table == Cells(<<P>>)
  IN {table, Cells(Beside(table, Beside(<<P>>, table))), Cells(Beside(In(Node("sdt"), table), table)),
      In(P, Box(table)), In(Section({"header1"}), TwoForms(table, Beside(table, table))), Cells(In(P, Box(Cells(table)))),
      Cells(In(P, TwoForms(<<P>>, table))), In(Node("sdt"), Cells(Beside(In(Node("del"), table), <<P>>)))}
Revised == {In(Node(n), x) : n \in {"ins", "del"}, x \in {<<P>>, <<Bullet("1", 0)>>, In(Node("moveFrom"), Cells(<<P>>))}}

Bodies ==
  LET blocks == Simple \cup Tables \cup Revised
  IN {Beside(l, r) : l \in blocks, r \in blocks}
     \cup {Beside(<<Bullet("1", 0)>>, Beside(x, <<Bullet(n, 0)>>)) : x \in blocks, n \in {"1", "2"}}

\* "Own 2" is a list by way of "Own 1", which has an outline level too.
Definition(id, name, base) == [id |-> id, name |-> name, outline |-> None, num |-> None, level |-> None, base |-> base]
Styles ==
  <<Definition(<<"Heading", 1>>, <<"Heading", 1>>, None),
    [Definition(<<"Own", 1>>, None, <<"Heading", 1>>) EXCEPT !.outline = 1],
    [Definition(<<"Own", 2>>, <<"Own", 2>>, <<"Own", 3>>) EXCEPT !.outline = 9],
    [Definition(<<"Own", 3>>, None, None) EXCEPT !.num = "2", !.level = 0],
    [Definition(<<"TOC", 1>>, <<"TOC", 1>>, None) EXCEPT !.outline = 0]>>

FootnoteOf(kind, id) == [kind |-> kind, id |-> id, complex |-> FALSE, blank |-> FALSE]
HeaderOf(name, zone, nodes) == [name |-> name, zone |-> zone, nodes |-> nodes]
Package(body) ==
  [intact |-> TRUE, body |-> body, styles |-> Styles,
   policy |-> [view |-> "FINAL", notes |-> TRUE, comments |-> TRUE, headers |-> TRUE, limit |-> 20],
   lists |-> <<[num |-> "1", formats |-> [l \in 0..1 |-> "bullet"]], [num |-> "2", formats |-> [l \in {0} |-> "bullet"]]>>,
   notes |-> <<FootnoteOf("footnote", "0"), FootnoteOf("footnote", "1"), FootnoteOf("comment", "0")>>,
   headers |-> <<HeaderOf("footer1", "footer", <<P>>), HeaderOf("header1", "header", <<Bullet("1", 0)>>)>>]

Packages ==
  LET sectioned == Package(Beside(<<P>>, <<Section({"header1", "header2"})>>))
      revised == {Package(Beside(x, <<P>>)) : x \in Tables \cup Revised}
      blank == [P EXCEPT !.blank = TRUE]
      Saying(mark) == [P EXCEPT !.marks = {mark}]
      Headed(nodes) == [sectioned EXCEPT !.headers[2].nodes = nodes]
      Repeating(part) == [sectioned EXCEPT ![part] = @ \o @]
  IN {Package(x) : x \in Bodies}
     \cup {Headed(Beside(<<p>>, Beside(x, <<q>>))) :
              p \in {Saying("question"), Bullet("1", 0), Styled("Heading", 1)}, x \in {<<>>, <<blank>>, Cells(<<P>>)},
              q \in {Saying("answer"), Bullet("2", 0), P}}
     \cup {[p EXCEPT !.policy.view = v] : p \in revised, v \in {"ORIGINAL", "ALL"}}
     \cup {[sectioned EXCEPT !.policy = [view |-> "FINAL", notes |-> n, comments |-> c, headers |-> h, limit |-> l]] :
              n \in BOOLEAN, c \in BOOLEAN, h \in BOOLEAN, l \in {3, 20}}
     \cup {[Package(<<>>) EXCEPT !.notes = <<>>], [sectioned EXCEPT !.intact = FALSE],
           [sectioned EXCEPT !.notes[2].complex = TRUE], Repeating("lists"), Repeating("notes"), Repeating("styles"),
           [sectioned EXCEPT !.styles[4].base = <<"Own", 2>>], [sectioned EXCEPT !.styles[4].base = <<"Own", 4>>],
           [sectioned EXCEPT !.styles[1].id = <<"Own", 1>>, !.styles[1].outline = 2]}

WordSources == {[Asked EXCEPT !.format = "docx", !.package = p] : p \in Packages}

MCAnnotatedSources == AnnotatedSources

MCSources ==
  UNION {Read(ShortDocuments \cup RareDocuments \cup PatternDocuments), CallerSources, AnnotatedSources, TextSources, WordSources}

Budget(tokens, adaptive) == [budget |-> tokens, adaptive |-> adaptive]
MCAllowedTypes == <<"KEYWORD", "TOPIC">>
MCPolicies == {Budget(None, TRUE), Budget(2, TRUE), Budget(3, FALSE), Budget(6, TRUE)}
=============================================================================
