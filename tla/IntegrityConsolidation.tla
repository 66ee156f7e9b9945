------------------------ MODULE IntegrityConsolidation ------------------------
(***************************************************************************)
(* Units of what must stay together: the integrity groups that the source  *)
(* names, neighbouring lists of them merged, and runs of one family        *)
(* elsewhere.  They replace the units that lie inside them.                *)
(***************************************************************************)
EXTENDS LogicalGrouping

CONSTANTS MaxSpacers, IndentTolerance

ASSUME IntegrityAssumption == {MaxSpacers, IndentTolerance} \subseteq Nat

\* The elements that carry a native group, and the groups.
Keyed(doc) == {i \in DOMAIN doc : doc[i].group # None /\ Family(doc[i].type) # None}
NativeGroups(doc) == {doc[i].group : i \in Keyed(doc)}
GroupMembers(doc, g) == {i \in Keyed(doc) : doc[i].group = g}
ParentsOf(doc, g) == {doc[i].parent : i \in GroupMembers(doc, g)}

\* The groups above g. A missing parent has none above it.
Above(doc, g) ==
  LET step(S) == S \cup ((UNION {ParentsOf(doc, h) : h \in S}) \ {None})
      up[k \in 0..Cardinality(NativeGroups(doc))] == IF k = 0 THEN ParentsOf(doc, g) \ {None} ELSE step(up[k - 1])
  IN up[Cardinality(NativeGroups(doc))]

\* What IntegrityGroupConsolidator refuses in the groups a source names.
SoundGroup(doc, b, g) ==
  LET members == GroupMembers(doc, g)
  IN /\ Cardinality({Family(doc[i].type) : i \in members}) = 1
     /\ Cardinality(ParentsOf(doc, g)) = 1
     /\ ParentsOf(doc, g) \subseteq NativeGroups(doc) \cup {None}
     /\ g \notin Above(doc, g)
     /\ \A i \in Min(members)..Max(members) \ members :
          doc[i].group \in NativeGroups(doc) /\ g \in Above(doc, doc[i].group)
     /\ \A i \in members : i + 1 \in members => b[i].class # "HARD"

SoundGroups(doc, b) == \A g \in NativeGroups(doc) : SoundGroup(doc, b, g)

-----------------------------------------------------------------------------
Span(doc, g) ==
  [family |-> Family(doc[Min(GroupMembers(doc, g))].type), members |-> GroupMembers(doc, g),
   groups |-> {g}, parent |-> CHOOSE p \in ParentsOf(doc, g) : TRUE]

\* A section break between two parts of one numbering.
IsSectionBreak(e, l, r) ==
  /\ e.type = "SEPARATOR" /\ e.sectionBreak
  /\ l.seq # None /\ l.seq = r.seq
  /\ l.format # None /\ l.format = r.format

\* Items that look as if they were of one list, over blank paragraphs.
CompatibleEdges(l, r) ==
  /\ l.depth # None /\ l.depth = r.depth
  /\ l.format # None /\ l.format = r.format
  /\ LET x == Style(l, "indentation")
         y == Style(r, "indentation")
     IN IF None \in {x, y} THEN x = y ELSE {x - y, y - x} \cap 0..IndentTolerance # {}

SameStory(l, r) == l.part = r.part /\ l.zone = r.zone

\* The list span t continues the list span s.
Continues(doc, b, s, t) ==
  LET l == Max(s.members)
      r == Min(t.members)
      gap == (l + 1)..(r - 1)
  IN /\ s.family = "list" /\ t.family = "list" /\ l < r
     /\ SameStory(doc[l], doc[r])
     /\ \/ r = l + 2 /\ IsSectionBreak(doc[l + 1], doc[l], doc[r])
        \/ /\ \A i \in l..(r - 1) : b[i].class # "HARD"
           /\ gap = {} \/ /\ Cardinality(gap) <= MaxSpacers
                          /\ \A i \in gap : IsBlankParagraph(doc[i])
                          /\ CompatibleEdges(doc[l], doc[r])

Joined(s, t) ==
  [s EXCEPT !.members = @ \cup t.members, !.groups = @ \cup t.groups,
            !.parent = IF @ = t.parent THEN @ ELSE None]

\* In order of their first elements, each span is joined to the one before it
\* if it continues that.
NativeSpans(doc, b) ==
  LET firsts == {Min(GroupMembers(doc, g)) : g \in NativeGroups(doc)}
      Add(spans, t) ==
        IF spans # <<>> /\ Continues(doc, b, spans[Len(spans)], t)
        THEN [spans EXCEPT ![Len(spans)] = Joined(@, t)]
        ELSE Append(spans, t)
      spans[i \in 0..Len(doc)] ==
        IF i = 0 THEN <<>>
        ELSE IF i \in firsts THEN Add(spans[i - 1], Span(doc, doc[i].group)) ELSE spans[i - 1]
  IN ToSet(spans[Len(doc)])

\* Runs of one family without native groups. A second table or list element
\* begins a new span.
IsContainer(e) == e.type \in {"TABLE", "LIST"}

HeuristicRuns(doc, b) ==
  UNION {LET Fits(i) == i \notin Keyed(doc) /\ Family(doc[i].type) = family
             Breaks(p) == b[p - 1].class = "HARD"
         IN Runs(Len(doc), Fits, Breaks) : family \in Families}

\* Mutant: a run is cut at its containers only, and what comes before the
\* first of them is lost.
SplitFromContainers(doc, run) ==
  LET starts == {i \in run : IsContainer(doc[i])}
      End(s) == Min({t - 1 : t \in {u \in starts : u > s}} \cup {Max(run)})
  IN {s..End(s) : s \in starts}

SplitAtContainers(doc, run) ==
  LET containers == {i \in run : IsContainer(doc[i])}
      starts == {Min(run)} \cup (containers \ {i \in containers : \A j \in containers : i <= j})
      End(s) == Min({t - 1 : t \in {u \in starts : u > s}} \cup {Max(run)})
  IN {s..End(s) : s \in starts}

HeuristicSpans(doc, b) ==
  {[family |-> Family(doc[Min(m)].type), members |-> m, groups |-> {}, parent |-> None] :
     m \in UNION {SplitAtContainers(doc, run) : run \in HeuristicRuns(doc, b)}}

Spans(doc, b) == NativeSpans(doc, b) \cup HeuristicSpans(doc, b)

-----------------------------------------------------------------------------
\* A unit that is cut by a span is refused; one inside is replaced.
CrossesNoUnit(units, spans) ==
  \A u \in units, s \in spans : u.members \cap s.members # {} => u.members \subseteq s.members

Consolidate(units, spans) ==
  {u \in units : \A s \in spans : u.members \cap s.members = {}}
  \cup {[type |-> FamilyUnit(s.family), members |-> s.members, groups |-> s.groups, parent |-> s.parent] :
          s \in spans}

\* A boundary whose sides may belong together is resolved if they are in one
\* unit, or in two units that the source tells apart. The ids of merged lists
\* are kept under another name and do not count.
OwnerOf(units, i) == {u \in units : i \in u.members}
Unresolved(doc, b, units) ==
  {i \in DOMAIN b :
     /\ b[i].unresolved
     /\ OwnerOf(units, i) \cap OwnerOf(units, i + 1) = {}
     /\ \E j \in {i, i + 1} : \A u \in OwnerOf(units, j) : Cardinality(u.groups) # 1}
=============================================================================
