--------------------------- MODULE GoldCompilation ---------------------------
(***************************************************************************)
(* What ai_data_studio/datasets/compilation.py and compiler.py make of     *)
(* working records, and what freeze.py writes and verifies of it: a record *)
(* is known by the source it was annotated on, a split plan assigns groups *)
(* of sources to splits, and a gold dataset has one case per document.     *)
(*                                                                         *)
(* A hash is modelled by what it is computed from: equal hashes mean equal *)
(* content. The batches are those the caller supplies.                     *)
(***************************************************************************)
EXTENDS Naturals

CONSTANTS
  Records, Documents, Contents, Families, Groups, Targets, Batches, Guidelines,
  SourceOf,     \* record -> the source snapshot it was annotated on
  TargetOf,     \* record -> target in that source
  BatchOf,      \* record -> the batch that declares it
  GuidelineOf,  \* batch -> guideline version
  Eligible,     \* the records the eligibility policy accepts
  Plans,        \* split manifests: the split of each group they assign
  NoDocument    \* a document the caller has no canonical version of

Sources ==
  [document : Documents, content : Contents, family : Families, group : Groups]

Splits == {"train", "dev", "test"}
Unassigned == "unassigned"

ASSUME RecordsAssumption ==
  /\ SourceOf \in [Records -> Sources]
  /\ TargetOf \in [Records -> Targets]
  /\ BatchOf \in [Records -> Batches]
  /\ GuidelineOf \in [Batches -> Guidelines]
  /\ Eligible \subseteq Records
  /\ Plans \subseteq [Groups -> Splits \cup {Unassigned}]
  /\ NoDocument \notin Contents

-----------------------------------------------------------------------------
(* Compilation. *)

Group(r) == SourceOf[r].group

\* Mutant: copies of a source under another document id go unnoticed.
TopologicalByName(chosen) ==
  \A r, q \in chosen :
    \/ SourceOf[r].family = SourceOf[q].family
    \/ SourceOf[r].document = SourceOf[q].document
    => Group(r) = Group(q)

\* Records of one family, one content or one document are in one split group.
Topological(chosen) ==
  \A r, q \in chosen :
    \/ SourceOf[r].family = SourceOf[q].family
    \/ SourceOf[r].content = SourceOf[q].content
    \/ SourceOf[r].document = SourceOf[q].document
    => Group(r) = Group(q)

TargetsUnique(chosen) ==
  \A r, q \in chosen :
    SourceOf[r].content = SourceOf[q].content /\ TargetOf[r] = TargetOf[q] => r = q

\* resolve_record_splits: the plan covers the records and keeps sources together.
SplitsResolve(chosen, plan) ==
  /\ \A r \in chosen : plan[Group(r)] # Unassigned
  /\ Topological(chosen)
  /\ TargetsUnique(chosen)

\* The records were annotated on the canonical documents the caller has.
MatchesSource(chosen, canonical) ==
  \A r \in chosen : canonical[SourceOf[r].document] = SourceOf[r].content

\* Batches are complete and follow one guideline.
BatchesValid(chosen, guideline) ==
  /\ \A q \in Records : (\E r \in chosen : BatchOf[r] = BatchOf[q]) => q \in chosen
  /\ \A r \in chosen : GuidelineOf[BatchOf[r]] = guideline

Compiles(chosen, canonical, plan, guideline) ==
  /\ chosen # {} /\ chosen \subseteq Eligible
  /\ BatchesValid(chosen, guideline)
  /\ MatchesSource(chosen, canonical)
  /\ SplitsResolve(chosen, plan)

\* compile_document for the document of record r.
CaseOf(r, chosen, canonical, plan) ==
  LET d == SourceOf[r].document
  IN [document |-> d, content |-> canonical[d], split |-> plan[Group(r)],
      records |-> {q \in chosen : SourceOf[q].document = d}]

Dataset(chosen, canonical, plan, guideline) ==
  [cases |-> {CaseOf(r, chosen, canonical, plan) : r \in chosen},
   plan |-> plan, guideline |-> guideline]

\* Whatever the caller passes to compile_dataset: what it may return.
Compiled ==
  UNION {{Dataset(chosen, canonical, plan, guideline) :
            canonical \in {known \in [Documents -> Contents \cup {NoDocument}] :
                            Compiles(chosen, known, plan, guideline)}} :
           chosen \in SUBSET Records, plan \in Plans, guideline \in Guidelines}

-----------------------------------------------------------------------------
(* The files of a release, and their verification. *)

SplitCases(ds, s) == {c \in ds.cases : c.split = s}
PresentSplits(ds) == {s \in Splits : SplitCases(ds, s) # {}}

SourceCorpus(cases) == {<<c.document, c.content>> : c \in cases}

Artifacts(ds) == [s \in Splits |-> SplitCases(ds, s)]

NoFile == [kind |-> "none"]
Junk == [kind |-> "junk"]

\* A split file: its cases, and the plan in its metadata.
SplitFile(cases, plan) == [kind |-> "split", cases |-> cases, metadata |-> plan]

\* The manifest holds a hash per split file (of no cases: no file), a hash of
\* these hashes, a hash of the sources, and where all this comes from.
Manifest(ds) ==
  [kind |-> "manifest", artifacts |-> Artifacts(ds), whole |-> Artifacts(ds),
   corpus |-> SourceCorpus(ds.cases), plan |-> ds.plan, guideline |-> ds.guideline]

Files == Splits \cup {"manifest"}

FileOf(ds, f) ==
  CASE f = "manifest" -> Manifest(ds)
    [] f \in PresentSplits(ds) -> SplitFile(SplitCases(ds, f), ds.plan)
    [] OTHER -> NoFile

DirectoryOf(ds) == [f \in Files |-> FileOf(ds, f)]
EmptyDirectory == [f \in Files |-> NoFile]

\* Mutant: only declared files are looked at.
DeclaredVerifies(manifest, s, file) ==
  \/ manifest.artifacts[s] = {}
  \/ /\ file.kind = "split"
     /\ \A c \in file.cases : c.split = s
     /\ file.cases = manifest.artifacts[s]

\* A declared split file is there, parses, and holds what the manifest says;
\* a split that is not declared has no file.
SplitVerifies(manifest, s, file) ==
  IF manifest.artifacts[s] = {} THEN file = NoFile
  ELSE /\ file.kind = "split"
       /\ \A c \in file.cases : c.split = s
       /\ file.cases = manifest.artifacts[s]

\* The hashes over all split files are those of the manifest.
WholeVerifies(manifest, files) ==
  LET declared == {s \in Splits : manifest.artifacts[s] # {}}
      actual == [s \in Splits |-> IF s \in declared THEN files[s].cases ELSE {}]
  IN /\ actual = manifest.whole
     /\ SourceCorpus(UNION {actual[s] : s \in Splits}) = manifest.corpus

\* verify_frozen_dataset over what was read of a directory. No hash covers the
\* metadata of a split file, and nothing is compared with the rest of the
\* manifest: its plan, guideline, versions and date.
Verifies(files) ==
  /\ files["manifest"].kind = "manifest"
  /\ \A s \in Splits : SplitVerifies(files["manifest"], s, files[s])
  /\ WholeVerifies(files["manifest"], files)
=============================================================================
