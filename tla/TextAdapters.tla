----------------------------- MODULE TextAdapters -----------------------------
(***************************************************************************)
(* The adapters of plain text and of Markdown.  A line is represented by   *)
(* what the block patterns find in it: the blocks it may begin ("is"), the *)
(* level it gives to a paragraph above it ("setext", 0 = none), the level  *)
(* of its heading marker, the fence it opens or closes, and what the later *)
(* stages read in its text.  "- - -" is a break and an item, and "---" a   *)
(* break and an underline.                                                 *)
(***************************************************************************)
EXTENDS SourceElements

BodyElement == [Plain EXCEPT !.zone = "body"]

IsLine(line) ==
  line.is \subseteq {"blank", "fence", "atx", "break", "item", "quote"} /\ {line.setext, line.level, line.marker} \subseteq Nat

-----------------------------------------------------------------------------
(* Bytes: the mark they begin with, the lines each decoder gives, if it    *)
(* can, whether they exceed the limit and whether they contain NUL.        *)

UTF16 == {"UTF-16-LE", "UTF-16-BE"}

\* AUTO goes by the byte-order mark only; a given encoding refuses the mark of
\* the opposite byte order.
Decoder(bytes, encoding) ==
  CASE encoding = "AUTO" /\ bytes.mark = "UTF-32" -> None
    [] encoding = "AUTO" /\ bytes.mark \in UTF16 \cup {"UTF-8"} -> bytes.mark
    [] encoding = "AUTO" /\ bytes.mark = None -> "UTF-8"
    [] encoding \in UTF16 /\ bytes.mark \in UTF16 \ {encoding} -> None
    [] OTHER -> encoding

Decodable(bytes, encoding) ==
  /\ ~bytes.tooLarge /\ ~bytes.nul
  /\ Decoder(bytes, encoding) \in DOMAIN bytes.lines

Lines(bytes, encoding) == bytes.lines[Decoder(bytes, encoding)]

-----------------------------------------------------------------------------
(* Plain text: paragraphs and the blank lines between them.                *)

IsBlankLine(line) == "blank" \in line.is

\* The patterns look at how a text begins, but for a colon at its end.
InText(lines, first, last) ==
  [BodyElement EXCEPT !.marker = lines[first].marker,
                      !.marks = (lines[first].marks \ {"colon"}) \cup (lines[last].marks \cap {"colon"})]
Separator(blank) == [BodyElement EXCEPT !.type = "SEPARATOR", !.blank = blank]

\* A block begins where blank lines follow text or text follows blank lines.
BlockStarts(lines) ==
  Entries([i \in DOMAIN lines |-> i],
          {i \in DOMAIN lines : i = 1 \/ IsBlankLine(lines[i]) # IsBlankLine(lines[i - 1])})

PlainTextElements(lines) ==
  LET starts == BlockStarts(lines)
      End(k) == IF k = Len(starts) THEN Len(lines) ELSE starts[k + 1] - 1
  IN [k \in DOMAIN starts |->
        IF IsBlankLine(lines[starts[k]]) THEN Separator(TRUE) ELSE InText(lines, starts[k], End(k))]

-----------------------------------------------------------------------------
(* Markdown: the kind of block that begins at a line, in the order the     *)
(* adapter asks; within a list only the items are asked for.               *)

Precedence == <<"blank", "fence", "atx", "break", "item", "quote">>

Kind(line, list) ==
  IF list # 0 /\ "item" \in line.is THEN "item"
  ELSE IF line.is = {} THEN "text"
  ELSE Precedence[Min({k \in DOMAIN Precedence : Precedence[k] \in line.is})]

Closes(line, opening) ==
  line.fence # None /\ line.fence.bare
  /\ line.fence.char = opening.fence.char /\ line.fence.length >= opening.fence.length

\* The last of the lines from i on of which all but the first satisfy More.
Through(lines, i, More(_)) ==
  Max({j \in i..Len(lines) : \A k \in (i + 1)..j : More(lines[k])})

\* The underline that makes a heading of the paragraph that begins at line i.
Underlines(lines, i) ==
  {k \in (i + 1)..Len(lines) :
     lines[k].setext # 0 /\ \A j \in (i + 1)..(k - 1) : lines[j].is = {}}

LastLine(lines, i, kind) ==
  LET closing == {j \in (i + 1)..Len(lines) : Closes(lines[j], lines[i])}
  IN CASE kind = "blank" -> Through(lines, i, IsBlankLine)
       [] kind = "fence" -> IF closing = {} THEN Len(lines) ELSE Min(closing)
       [] kind \in {"atx", "break"} -> i
       [] kind = "item" -> Through(lines, i, LAMBDA line : line.is = {})
       [] kind = "quote" -> Through(lines, i, LAMBDA line : "quote" \in line.is)
       [] kind = "text" -> IF Underlines(lines, i) # {} THEN Min(Underlines(lines, i))
                           ELSE Through(lines, i, LAMBDA line : line.is = {})

\* Mutant: a list goes on after a block that is not of it.
MarkdownBlocksOfOneList(lines) ==
  LET From[at \in (1..(Len(lines) + 1)) \X (0..Len(lines))] ==
        IF at[1] > Len(lines) THEN <<>>
        ELSE LET i == at[1]
                 list == at[2]
                 kind == Kind(lines[i], list)
                 last == LastLine(lines, i, kind)
                 start == IF kind = "item" /\ list = 0 THEN i ELSE list
             IN <<[first |-> i, last |-> last, kind |-> kind, list |-> start]>> \o From[<<last + 1, start>>]
  IN From[<<1, 0>>]

\* The blocks in their order, each with the line at which its list begins.
MarkdownBlocks(lines) ==
  LET From[at \in (1..(Len(lines) + 1)) \X (0..Len(lines))] ==
        IF at[1] > Len(lines) THEN <<>>
        ELSE LET i == at[1]
                 list == at[2]
                 kind == Kind(lines[i], list)
                 last == LastLine(lines, i, kind)
                 start == IF kind # "item" THEN 0 ELSE IF list # 0 THEN list ELSE i
             IN <<[first |-> i, last |-> last, kind |-> kind, list |-> start]>> \o From[<<last + 1, start>>]
  IN From[<<1, 0>>]

FromMarkdown(lines, block) ==
  LET line == lines[block.first]
      text == InText(lines, block.first, block.last)
      underlines == Underlines(lines, block.first)
  IN CASE block.kind = "blank" -> Separator(TRUE)
       [] block.kind = "break" -> Separator(FALSE)
       [] block.kind = "fence" -> [BodyElement EXCEPT !.type = "CODE"]
       [] block.kind = "atx" -> [BodyElement EXCEPT !.type = "HEADING", !.level = line.level]
       [] block.kind = "item" -> [text EXCEPT !.type = "LIST_ITEM", !.group = <<"list", block.list>>]
       [] block.kind = "quote" -> BodyElement
       [] block.kind = "text" /\ underlines = {} -> text
       [] block.kind = "text" /\ underlines # {} ->
            [text EXCEPT !.type = "HEADING", !.level = lines[Min(underlines)].setext]

MarkdownElements(lines) ==
  [k \in DOMAIN MarkdownBlocks(lines) |-> FromMarkdown(lines, MarkdownBlocks(lines)[k])]
=============================================================================
