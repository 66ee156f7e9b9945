---------------------------- MODULE RetrievalUnits ----------------------------
(***************************************************************************)
(* The projection of a canonical document into the units that are indexed  *)
(* for retrieval: one for each logical unit, or several if a block of text *)
(* exceeds the budget of tokens, and one for each element that is in none  *)
(* and may stand alone.  The token counter is the caller's; here a text    *)
(* counts for one token, a long one for two, and the labels of a context   *)
(* path for one.                                                           *)
(***************************************************************************)
EXTENDS CanonicalAssembly

\* Elements that lose their meaning outside of what they belong to.
UnsafeSingletons == {"TABLE_ROW", "TABLE_CELL", "LIST_ITEM", "FORMULA", "FIGURE", "CHART"}

\* Boilerplate is not retrieved. The normaliser marks no other element so.
Excluded(e) == e.type = "PAGE_NUMBER" \/ e.zone \in {"header", "footer"}

Readable(d, members) == {i \in members : ~d.elements[i].blank}

\* A table is read by its cells; if none has text by its rows.
View(d, type, members) ==
  LET Of(t) == {i \in Readable(d, members) : d.elements[i].type = t}
  IN CASE type = "TABLE_BLOCK" /\ Of("TABLE_CELL") # {} -> Of("TABLE_CELL")
       [] type = "TABLE_BLOCK" /\ Of("TABLE_CELL") = {} /\ Of("TABLE_ROW") # {} -> Of("TABLE_ROW")
       [] OTHER -> Readable(d, members)

Tokens(d, path, view) ==
  Cardinality(view) + Cardinality({i \in view : "long" \in d.elements[i].marks}) + (IF path = <<>> THEN 0 ELSE 1)

Exceeds(tokens, policy) == policy.budget # None /\ tokens > policy.budget

-----------------------------------------------------------------------------
\* The mode of the region an owner lies in, else that of the document; MIXED
\* says nothing of its parts.
Strategy(d, members) ==
  LET ByMode(mode) == IF mode = "UNKNOWN" THEN "FLAT" ELSE mode
      modes == {r.mode : r \in {r \in d.regions : members \cap r.members # {}}} \ {"UNKNOWN"}
  IN CASE modes # {} -> ByMode(CHOOSE m \in modes : TRUE)
       [] modes = {} /\ d.mode = "MIXED" -> "FLAT"
       [] OTHER -> ByMode(d.mode)

CrossesNone(members, sets) == \A s \in sets : members \cap s # {} => members \subseteq s

\* A path starts at a root and follows the parents.
IsCanonicalPath(d, path) ==
  \A k \in DOMAIN path : Parent(d.hierarchy.paths, path[k]) = (IF k = 1 THEN None ELSE path[k - 1])

-----------------------------------------------------------------------------
\* Mutant: the element that would exceed the budget is in both parts.
PartsThatOverlap(d, s, policy) ==
  LET Opens(current, candidate) ==
        Readable(d, current) # {} /\ Exceeds(Tokens(d, s.path, Readable(d, candidate)), policy)
      Extend(acc, i) ==
        LET candidate == acc.current \cup {i}
        IN CASE i \notin s.unit.members -> acc
             [] i \in s.unit.members /\ Opens(acc.current, candidate) -> [parts |-> acc.parts \cup {candidate}, current |-> {i}]
             [] OTHER -> [acc EXCEPT !.current = candidate]
      upTo[i \in 0..Len(d.elements)] == IF i = 0 THEN [parts |-> {}, current |-> {}] ELSE Extend(upTo[i - 1], i)
      last == upTo[Len(d.elements)]
  IN IF policy.budget = None \/ ~policy.adaptive \/ s.unit.type # "TEXT_BLOCK"
     THEN {s.unit.members} ELSE last.parts \cup {last.current}

\* Mutant: a unit of any type is cut, element by element.
PartsOfAnyType(d, s, policy) ==
  IF policy.budget = None \/ ~policy.adaptive
     \/ ~Exceeds(Tokens(d, s.path, Readable(d, s.unit.members)), policy)
  THEN {s.unit.members} ELSE {{i} : i \in s.unit.members}

\* The parts of a block of text, greedily: an element opens a new part if the
\* part before it has text and would exceed the budget with it.
Parts(d, s, policy) ==
  LET Opens(current, candidate) ==
        Readable(d, current) # {} /\ Exceeds(Tokens(d, s.path, Readable(d, candidate)), policy)
      Extend(acc, i) ==
        LET candidate == acc.current \cup {i}
        IN CASE i \notin s.unit.members -> acc
             [] i \in s.unit.members /\ Opens(acc.current, candidate) -> [parts |-> acc.parts \cup {acc.current}, current |-> {i}]
             [] OTHER -> [acc EXCEPT !.current = candidate]
      upTo[i \in 0..Len(d.elements)] == IF i = 0 THEN [parts |-> {}, current |-> {}] ELSE Extend(upTo[i - 1], i)
      last == upTo[Len(d.elements)]
  IN IF policy.budget = None \/ ~policy.adaptive \/ s.unit.type # "TEXT_BLOCK"
     THEN {s.unit.members} ELSE last.parts \cup {last.current}

Projected(d, owner, path, view, members, policy) ==
  [members |-> members, owner |-> owner, path |-> path, tokens |-> Tokens(d, path, view), limit |-> policy.budget,
   oversized |-> Exceeds(Tokens(d, path, view), policy), strategy |-> Strategy(d, members)]

\* A part without text gives no unit.
FromUnit(d, s, policy) ==
  {Projected(d, s.unit, s.path, View(d, s.unit.type, part), part, policy) :
     part \in {part \in Parts(d, s, policy) : Readable(d, part) # {}}}

\* A heading that stands alone carries its own text: its path is its parent's.
FromElement(d, i, policy) ==
  LET path == IF i \in DOMAIN d.hierarchy.levels
              THEN SubSeq(d.hierarchy.paths[i], 1, Len(d.hierarchy.paths[i]) - 1) ELSE <<>>
  IN Projected(d, None, path, {i}, {i}, policy)

-----------------------------------------------------------------------------
ExcludedOf(d) == {i \in DOMAIN d.elements : Excluded(d.elements[i])}

\* What RetrievalUnitBuilder refuses: two owners of one element, a unit that is
\* boilerplate in part, and one across a document or a region.
Projectable(d) ==
  /\ \A s, t \in d.units : s # t => s.unit.members \cap t.unit.members = {}
  /\ \A s \in d.units :
       /\ s.unit.members \subseteq ExcludedOf(d) \/ s.unit.members \cap ExcludedOf(d) = {}
       /\ ~(s.unit.members \subseteq ExcludedOf(d)) =>
            /\ CrossesNone(s.unit.members, d.subdocuments)
            /\ CrossesNone(s.unit.members, {r.members : r \in d.regions})
            /\ IsCanonicalPath(d, s.path)

\* The units, and every element that is in none of them, by the reason.
Projection(d, policy) ==
  LET retrieved == {s \in d.units : s.unit.members \cap ExcludedOf(d) = {}}
      units == UNION {FromUnit(d, s, policy) : s \in retrieved}
      silent == UNION {s.unit.members : s \in {s \in retrieved : FromUnit(d, s, policy) = {}}}
      alone == DOMAIN d.elements \ (ExcludedOf(d) \cup silent \cup MembersOf(units))
      unsafe == {i \in alone : d.elements[i].type \in UnsafeSingletons}
      safe == alone \ unsafe
  IN [units |-> units \cup {FromElement(d, i, policy) : i \in Readable(d, safe)},
      excluded |-> ExcludedOf(d),
      unresolved |-> unsafe,
      blank |-> silent \cup {i \in safe : d.elements[i].blank},
      enriched |-> {}]
=============================================================================
