---------------------------- MODULE DatasetRelease ----------------------------
(***************************************************************************)
(* Freezing of gold datasets (ai_data_studio/datasets/freeze.py and        *)
(* publishing.py) by any number of calls that publish the same version,    *)
(* and a reader that verifies the release.                                 *)
(*                                                                         *)
(* A call compiles a dataset, builds the release in a temporary directory  *)
(* of its own, verifies what it wrote, and renames the directory to the    *)
(* name of the version. Every access to the file system is a step. rename  *)
(* is that of POSIX: it replaces nothing but an empty directory.           *)
(***************************************************************************)
EXTENDS GoldCompilation, FiniteSets

CONSTANTS
  Calls,           \* calls of freeze for one dataset name and version
  RequiredSplits,  \* the policy of the callers
  MaxFaults,       \* bound: failed file operations and crashes
  MaxDamages       \* bound: writes from outside into a directory

ASSUME ReleaseAssumption ==
  RequiredSplits \subseteq Splits /\ MaxFaults \in Nat /\ MaxDamages \in Nat

VARIABLES
  pc,        \* call -> the step it is at
  dataset,   \* call -> the dataset it compiled
  todo,      \* call -> files it has still to write
  temp,      \* call -> its temporary directory
  outcome,   \* call -> what it answers
  final,     \* what is under the name of the version
  seen,      \* the files the reader has read
  report,    \* the reader's report
  faults,    \* failures so far
  damages    \* writes from outside so far

callVars == <<pc, dataset, todo, outcome>>
readVars == <<seen, report>>
vars == <<pc, dataset, todo, temp, outcome, final, seen, report, faults, damages>>

Steps == {"idle", "compiled", "write", "verify", "reread", "check", "rename", "return",
          "cleanup", "done", "crashed"}
Outcomes == {"none", "published", "alreadyFrozen", "refused", "writeError",
             "verificationError"}

NoDataset == [cases |-> {}]

\* What a path may hold.
Nothing == [kind |-> "nothing"]
OtherFile == [kind |-> "file"]
Directory(files) == [kind |-> "directory", files |-> files]

\* What the reader has of a file it has not read, or could not read.
Unread == [kind |-> "unread"]
Unreadable == [kind |-> "unreadable"]

Init ==
  /\ pc = [f \in Calls |-> "idle"]
  /\ dataset = [f \in Calls |-> NoDataset]
  /\ todo = [f \in Calls |-> {}]
  /\ temp = [f \in Calls |-> Nothing]
  /\ outcome = [f \in Calls |-> "none"]
  /\ final = Nothing
  /\ seen = [x \in Files |-> Unread]
  /\ report = "none"
  /\ faults = 0 /\ damages = 0

-----------------------------------------------------------------------------
(* A call of the freezer. *)

\* _path_lexists(final_root).
Exists == final # Nothing

\* Mutant: the temporary directory is named after the version.
TempOfVersion(f) == CHOOSE g \in Calls : TRUE

\* mkdtemp gives every call a directory of its own.
TempOf(f) == f

Goes(f, step) == pc' = [pc EXCEPT ![f] = step]
Ends(f, result) == outcome' = [outcome EXCEPT ![f] = result] /\ Goes(f, "done")

\* Mutant: losing the version is an answer, not an error to clean up after.
AbandonFailures(f, result) ==
  /\ outcome' = [outcome EXCEPT ![f] = result]
  /\ Goes(f, IF result = "alreadyFrozen" THEN "done" ELSE "cleanup")

\* An exception: the finally clause removes the temporary directory.
Abandon(f, result) ==
  outcome' = [outcome EXCEPT ![f] = result] /\ Goes(f, "cleanup")

\* A file operation fails.
Fault == faults < MaxFaults /\ faults' = faults + 1

CompileDataset(f) ==
  /\ pc[f] = "idle"
  /\ \E ds \in Compiled : dataset' = [dataset EXCEPT ![f] = ds]
  /\ Goes(f, "compiled")
  /\ UNCHANGED <<todo, temp, outcome, final, readVars, faults, damages>>

\* The dataset has the splits that are required and planned, and was compiled
\* with the plan and the guideline the caller declares.
Accepts(ds, plan, guideline) ==
  /\ RequiredSplits \subseteq PresentSplits(ds)
  /\ PresentSplits(ds) = {plan[g] : g \in Groups} \ {Unassigned}
  /\ ds.plan = plan /\ ds.guideline = guideline

Declared == Plans \X Guidelines
Acceptable(ds) == {d \in Declared : Accepts(ds, d[1], d[2])}

Refuse(f) ==
  /\ pc[f] = "compiled" /\ Acceptable(dataset[f]) # Declared
  /\ Ends(f, "refused")
  /\ UNCHANGED <<dataset, todo, temp, final, readVars, faults, damages>>

\* freeze, up to the temporary directory.
BeginFreeze(f) ==
  /\ pc[f] = "compiled" /\ Acceptable(dataset[f]) # {}
  /\ \/ Exists /\ Ends(f, "alreadyFrozen") /\ UNCHANGED <<temp, todo, faults>>
     \/ ~Exists /\ Fault /\ Ends(f, "writeError") /\ UNCHANGED <<temp, todo>>
     \/ /\ ~Exists
        /\ temp' = [temp EXCEPT ![TempOf(f)] = Directory(EmptyDirectory)]
        /\ todo' = [todo EXCEPT ![f] = PresentSplits(dataset[f]) \cup {"manifest"}]
        /\ Goes(f, "write")
        /\ UNCHANGED <<outcome, faults>>
  /\ UNCHANGED <<dataset, final, readVars, damages>>

\* The files are written in this order, the manifest last.
Before == [train |-> {}, dev |-> {"train"}, test |-> {"train", "dev"},
           manifest |-> Splits]

HasTemp(f) == temp[TempOf(f)].kind = "directory"
TempFiles(f) == temp[TempOf(f)].files
IsFree(f, x) == HasTemp(f) /\ TempFiles(f)[x] = NoFile

\* write_canonical_json creates the file, or fails and may leave part of it.
WriteFile(f, x) ==
  /\ pc[f] = "write" /\ x \in todo[f] /\ Before[x] \cap todo[f] = {}
  /\ \/ /\ IsFree(f, x)
        /\ temp' = [temp EXCEPT ![TempOf(f)].files[x] = FileOf(dataset[f], x)]
        /\ todo' = [todo EXCEPT ![f] = @ \ {x}]
        /\ Goes(f, IF todo[f] = {x} THEN "verify" ELSE "write")
        /\ UNCHANGED <<outcome, faults>>
     \/ ~IsFree(f, x) /\ Abandon(f, "writeError") /\ UNCHANGED <<temp, todo, faults>>
     \/ Fault /\ Abandon(f, "writeError") /\ UNCHANGED <<temp, todo>>
     \/ /\ IsFree(f, x) /\ Fault /\ Abandon(f, "writeError")
        /\ temp' = [temp EXCEPT ![TempOf(f)].files[x] = Junk]
        /\ UNCHANGED todo
  /\ UNCHANGED <<dataset, final, readVars, damages>>

\* verify_frozen_dataset on the directory: a file that cannot be read is an
\* issue in its report.
VerifyCandidate(f) ==
  /\ pc[f] = "verify"
  /\ \/ /\ HasTemp(f) /\ Verifies(TempFiles(f))
        /\ Goes(f, "reread")
        /\ UNCHANGED <<outcome, faults>>
     \/ /\ ~(HasTemp(f) /\ Verifies(TempFiles(f))) /\ UNCHANGED faults
        /\ Abandon(f, "verificationError")
     \/ Fault /\ Abandon(f, "verificationError")
  /\ UNCHANGED <<dataset, todo, temp, final, readVars, damages>>

\* The manifest and the split files that are there, read again.
Rereads(f, x) == HasTemp(f) /\ TempFiles(f)[x].kind = FileOf(dataset[f], x).kind
Differs(f, x) == Rereads(f, x) /\ TempFiles(f)[x] # FileOf(dataset[f], x)

\* They are compared to the last field with what was written; one that cannot be
\* read or parsed by now is an error of another kind.
RereadCandidate(f) ==
  LET written == PresentSplits(dataset[f]) \cup {"manifest"} IN
  /\ pc[f] = "reread"
  /\ \/ /\ \A x \in written : Rereads(f, x) /\ ~Differs(f, x)
        /\ Goes(f, "check")
        /\ UNCHANGED <<outcome, faults>>
     \/ /\ \E x \in written : Differs(f, x)
        /\ Abandon(f, "verificationError") /\ UNCHANGED faults
     \/ /\ \E x \in written : ~Rereads(f, x)
        /\ Abandon(f, "writeError") /\ UNCHANGED faults
     \/ Fault /\ Abandon(f, "writeError")
  /\ UNCHANGED <<dataset, todo, temp, final, readVars, damages>>

CheckFinal(f) ==
  /\ pc[f] = "check"
  /\ IF Exists THEN Abandon(f, "alreadyFrozen")
     ELSE Goes(f, "rename") /\ UNCHANGED outcome
  /\ UNCHANGED <<dataset, todo, temp, final, readVars, faults, damages>>

\* Mutant: what is there is removed first.
CanReplace == TRUE

\* os.rename of a directory succeeds on nothing and on an empty directory.
CanRename == final \in {Nothing, Directory(EmptyDirectory)}

RenameSucceeds(f) ==
  /\ pc[f] = "rename" /\ CanRename /\ HasTemp(f)
  /\ final' = temp[TempOf(f)]
  /\ temp' = [temp EXCEPT ![TempOf(f)] = Nothing]
  /\ Goes(f, "return")
  /\ UNCHANGED <<dataset, todo, outcome, readVars, faults, damages>>

RenameFails(f) ==
  /\ pc[f] = "rename"
  /\ \/ ~(CanRename /\ HasTemp(f)) /\ UNCHANGED faults
     \/ Fault
  /\ Abandon(f, IF Exists THEN "alreadyFrozen" ELSE "writeError")
  /\ UNCHANGED <<dataset, todo, temp, final, readVars, damages>>

Return(f) ==
  /\ pc[f] = "return"
  /\ Ends(f, "published")
  /\ UNCHANGED <<dataset, todo, temp, final, readVars, faults, damages>>

\* _cleanup_temporary_directory: a failure of rmtree is ignored.
Cleanup(f) ==
  /\ pc[f] = "cleanup"
  /\ Goes(f, "done")
  /\ \/ temp' = [temp EXCEPT ![TempOf(f)] = Nothing] /\ UNCHANGED faults
     \/ Fault /\ UNCHANGED temp
  /\ UNCHANGED <<dataset, todo, outcome, final, readVars, damages>>

\* The process dies; the file system stays as it is.
Crash(f) ==
  /\ pc[f] \notin {"idle", "done", "crashed"}
  /\ Fault
  /\ Goes(f, "crashed")
  /\ UNCHANGED <<dataset, todo, temp, outcome, final, readVars, damages>>

-----------------------------------------------------------------------------
(* Other users of the file system. *)

\* Somebody makes a file or an empty directory of that name.
Occupy ==
  /\ ~Exists
  /\ final' \in {OtherFile, Directory(EmptyDirectory)}
  /\ UNCHANGED <<callVars, temp, readVars, faults, damages>>

SplitsIn(files) == {s \in Splits : files[s].kind = "split"}
AllCases(files) == UNION {files[s].cases : s \in SplitsIn(files)}

\* One file is lost, or cannot be read.
Spoilt(files) == {[files EXCEPT ![x] = y] : x \in Files, y \in {NoFile, Junk}}

\* A split file is put in the place of another.
Misplaced(files) ==
  {[files EXCEPT ![s] = files[t]] : s \in Splits, t \in SplitsIn(files)}

\* An entry of the manifest is lost, or is that of another split.
Mislabelled(files) ==
  {[files EXCEPT !["manifest"].artifacts[s] = cases] :
     s \in Splits,
     cases \in {{}} \cup {files["manifest"].artifacts[t] : t \in Splits}}

WithCases(files, s, cases) == [files EXCEPT ![s].cases = cases]
WithMetadata(files, s, plan) == [files EXCEPT ![s].metadata = plan]
WithPlan(files, plan, guideline) ==
  [files EXCEPT !["manifest"].plan = plan, !["manifest"].guideline = guideline]

\* A case is taken out of a split file, or one of another file is added to it.
Edited(files) ==
  UNION {{WithCases(files, s, files[s].cases \ {c}),
          WithCases(files, s, files[s].cases \cup {c})} :
           s \in SplitsIn(files), c \in AllCases(files)}

\* What nothing is compared with is edited: the metadata of a split file, the
\* plan or the guideline in the manifest.
Redescribed(files) ==
  {WithMetadata(files, s, plan) : s \in SplitsIn(files), plan \in Plans}
  \cup IF files["manifest"].kind = "manifest"
       THEN {WithPlan(files, plan, guideline) : plan \in Plans, guideline \in Guidelines}
       ELSE {}

\* Nobody computes the hashes anew.
Damaged(files) ==
  Spoilt(files) \cup Misplaced(files) \cup Edited(files) \cup Redescribed(files)
  \cup IF files["manifest"].kind = "manifest" THEN Mislabelled(files) ELSE {}

Damage ==
  /\ damages < MaxDamages /\ damages' = damages + 1
  /\ \/ /\ final.kind = "directory"
        /\ \E files \in Damaged(final.files) : final' = Directory(files)
        /\ UNCHANGED temp
     \/ \E f \in Calls :
          /\ temp[f].kind = "directory"
          /\ \E files \in Damaged(temp[f].files) :
               temp' = [temp EXCEPT ![f] = Directory(files)]
          /\ UNCHANGED final
  /\ UNCHANGED <<callVars, readVars, faults>>

-----------------------------------------------------------------------------
(* verify_frozen_dataset on the release, while calls are running. *)

FinalFile(x) == IF final.kind = "directory" THEN final.files[x] ELSE NoFile

\* The file as it is now, or an OSError.
Reads(x) ==
  \/ seen' = [seen EXCEPT ![x] = FinalFile(x)] /\ UNCHANGED faults
  \/ Fault /\ seen' = [seen EXCEPT ![x] = Unreadable]

ReadManifest ==
  /\ report = "none" /\ seen["manifest"] = Unread
  /\ Reads("manifest")
  /\ report' = IF seen'["manifest"].kind = "manifest" THEN "none" ELSE "invalid"
  /\ UNCHANGED <<callVars, temp, final, damages>>

ReadSplit(s) ==
  /\ report = "none" /\ seen["manifest"] # Unread /\ seen[s] = Unread
  /\ \A t \in Before[s] : seen[t] # Unread
  /\ Reads(s)
  /\ UNCHANGED <<callVars, temp, final, report, damages>>

Report ==
  /\ report = "none" /\ \A x \in Files : seen[x] # Unread
  /\ report' = IF Verifies(seen) THEN "valid" ELSE "invalid"
  /\ UNCHANGED <<callVars, temp, final, seen, faults, damages>>

Reader == ReadManifest \/ (\E s \in Splits : ReadSplit(s)) \/ Report

-----------------------------------------------------------------------------

FreezeStep(f) ==
  \/ Refuse(f) \/ BeginFreeze(f) \/ (\E x \in Files : WriteFile(f, x))
  \/ VerifyCandidate(f) \/ RereadCandidate(f)
  \/ CheckFinal(f) \/ RenameSucceeds(f) \/ RenameFails(f) \/ Return(f) \/ Cleanup(f)

Next ==
  \/ \E f \in Calls : CompileDataset(f) \/ FreezeStep(f) \/ Crash(f)
  \/ Occupy \/ Damage \/ Reader

Spec == Init /\ [][Next]_vars

-----------------------------------------------------------------------------
(* Correctness. *)

TypeOK ==
  /\ pc \in [Calls -> Steps]
  /\ DOMAIN dataset = Calls
  /\ todo \in [Calls -> SUBSET Files]
  /\ DOMAIN temp = Calls
  /\ \A f \in Calls : temp[f].kind \in {"nothing", "directory"}
  /\ outcome \in [Calls -> Outcomes]
  /\ final.kind \in {"nothing", "file", "directory"}
  /\ DOMAIN seen = Files
  /\ report \in {"none", "valid", "invalid"}
  /\ faults \in 0 .. MaxFaults /\ damages \in 0 .. MaxDamages

\* No family, content or document of a compiled dataset is in two splits, and no
\* document has two cases.
NoLeakage ==
  \A f \in Calls : \A c, d \in dataset[f].cases :
    \A r \in c.records, q \in d.records :
      /\ \/ SourceOf[r].family = SourceOf[q].family
         \/ SourceOf[r].content = SourceOf[q].content
         => c.split = d.split
      /\ SourceOf[r].document = SourceOf[q].document => c = d

Renamed(f) == pc[f] = "return" \/ outcome[f] = "published"

\* Of a call that has published, the files found under the version are all the
\* files of its dataset and no others, as long as nobody writes into them.
PublishedIsWhole ==
  \A f \in Calls :
    Renamed(f) /\ damages = 0 => final = Directory(DirectoryOf(dataset[f]))

\* A version is published once, however many calls try at the same time.
OneWinner ==
  \A f, g \in Calls : Renamed(f) /\ Renamed(g) => f = g

\* A call that is told the version is frozen finds something under its name.
LosersSeeARelease ==
  \A f \in Calls : outcome[f] = "alreadyFrozen" => Exists

\* A temporary directory that is left behind comes from a failure: one each.
DebrisComesFromFaults ==
  Cardinality({f \in Calls : pc[f] \in {"done", "crashed"} /\ temp[f] # Nothing})
    <= faults

\* The part of a directory that its hashes cover.
CasesIn(file) == IF file.kind = "split" THEN file.cases ELSE {}
Covered(files) ==
  [cases |-> [s \in Splits |-> CasesIn(files[s])],
   artifacts |-> files["manifest"].artifacts, corpus |-> files["manifest"].corpus]

\* A report of a valid release is given on all the cases of one dataset that a
\* call compiled, each in its split, even if files were lost, exchanged or edited
\* before or between the reads. It says nothing of the plan, the guideline and
\* the metadata, which verify_frozen_dataset compares with nothing.
ValidReportsAreTrue ==
  report = "valid" =>
    \E f \in Calls : pc[f] # "idle" /\ Covered(seen) = Covered(DirectoryOf(dataset[f]))

\* A reader that meets a release at all and can read its files finds it valid,
\* unless somebody has written into it: no release is ever half there.
IntactReleasesVerify ==
  report = "invalid" =>
    damages > 0 \/ seen["manifest"] = NoFile \/ \E x \in Files : seen[x] = Unreadable

-----------------------------------------------------------------------------
(* Refinement: the version is a write-once release store. *)

Vacant(entry) == entry \in {Nothing, OtherFile, Directory(EmptyDirectory)}
CompleteRelease(entry) == entry.kind = "directory" /\ Verifies(entry.files)

Store == INSTANCE ReleaseStore
           WITH IsVacant <- Vacant, IsComplete <- CompleteRelease,
                release <- final, tampered <- damages > 0

\* What a reader finds under the version goes from nothing to a complete release
\* in one step and never changes again, unless somebody writes into it.
ImplementsStore == Store!Spec
=============================================================================
