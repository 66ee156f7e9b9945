# Verification of support_learning

TLA+ models of the parts of this repository where processes, requests and
messages meet: the outbox relay, the uploads, the folders and the sessions of
the backend (`backend/`), and the human review and the dataset releases of the
data studio (`ai_data_studio/`); and of the algorithms by which source
understanding (`source_understanding/`) reads a document. Each model is checked
with TLC on small instances, and almost all invariants are proved with TLAPS for
every value of the constants: any number of processes, requests and records, and
documents of any length.

    tlc -workers 2 -config OutboxRelay.cfg MCOutboxRelay.tla
    tlapm OutboxRelayProofs.tla

## 1. The system

### Components

| Component | State it keeps | Operations | Hard parts |
|---|---|---|---|
| Outbox relay (`backend/src/async`, `outbox`) | `outbox_events` rows; jobs in BullMQ; the batch in hand | append, claim, reclaim, give up, publish, mark, reschedule, fail, stop | leases, crashes between publish and mark, several relays |
| Upload (`documents/document-upload`, `storage`) | `documents`, `document_versions`, `document_sources`; staging and final objects | init document, init version, complete, delete | storage and database are two systems; a staging object the browser rewrites at will; READ COMMITTED joins; out-of-order completion |
| Idempotency (`idempotency`) | `idempotency_records`; advisory locks | lock key, look up, record, expire | retries while the first call runs; lost answers; expiry |
| Folders (`folders`, `documents`) | `folders.parent_id`, `documents.folder_id`, `deleted_at` | create, rename, move, delete | check-then-write without a lock |
| Sessions (`sessions`, `auth`) | one row per session; signed tokens; the client's cookies | login, refresh, logout, guard | compare-and-swap after a read; times taken before the statement that compares with them; lost answers |
| Links (`workspaces`, `tags`, `documents`) | link rows | link, unlink, delete an end | link while an end is deleted |
| Users, audit, shell | rows written once; configuration | profile, append, start-up | none between requests |
| Human review (`ai_data_studio/review`, `repositories`) | the JSONL repository; the Argilla dataset and its responses | export, sync, apply a webhook | late, repeated and reordered webhooks; reviewers during a sync |
| Working records (`schemas`, `validation`) | immutable values | validate | rules that span records and source documents |
| Dataset releases (`datasets`) | release directories | compile, freeze, publish, verify | check then rename; crashes |
| Training export (`training`) | none | read a release | none |
| Adapters (`source_understanding/adapters`) | none between calls | decode, extract elements, audit | any sequence of lines is a document; tables in tables, wrappers and text boxes |
| Source understanding (`pipeline`, `structure`, `profiling`, `relations`, `assembly`, `completion`) | none between calls | profile, score boundaries, group, consolidate, relate, route, assemble, annotate, report | fifteen stages, each of which may refuse what another one has made |
| Projection (`retrieval_units`) | none between calls | cut to a budget, account for every element | budgets against groups that must not be cut |
| Semantics and evaluation (`semantics`, `evaluation`) | none between calls | annotate, measure | contracts with a model that may answer anything |

The table `backend/prisma/schema.prisma` ties the backend parts together: a
completed upload appends an outbox event in its own transaction; the relay
publishes it; folders hold documents; a session authenticates every request.
The data studio is a separate program: it reads documents that source
understanding has produced, keeps working records about them in a JSONL file,
sends them to Argilla and takes reviews back as webhooks, and finally freezes
accepted records into releases, which the training export reads.

### What makes each part correct

- *Relay*: a committed event is published at least once and decided once; a
  relay that has lost its claim changes nothing; attempts are used up by faults
  only; nothing is left behind.
- *Upload*: a version is received once, with an object that meets the upload
  contract; that object and the row never change afterwards; the document points to
  the newest received version.
- *Idempotency*: one key creates one thing, and answers with it.
- *Folders*: the parents form a tree; a deleted folder is empty.
- *Sessions*: a refresh token is used once; what is revoked stays so, and an
  expired session is not renewed by anything that begins after the expiry.
- *Review*: an answer is applied at most once, and only on the reviews it was
  given on; a webhook does not change an adjudicated record; a synchronisation does
  not touch what a reviewer is working on.
- *Releases*: a release is complete or absent, published by one call, and never
  replaced; no source is in two splits; a verification that passes has read all the
  cases of a compiled dataset.
- *Source understanding*: a text is read to the end whatever its lines; every
  element is indexed once or named as left out; tables, lists and code stay
  whole; paths name the headings that are open; what was observed is not changed;
  what is shown as an extract is quoted from the source.

`PROJECT.json` lists the hazards of this code at their lines, with the property
that covers each, or why none does.

## 2. Modules

| Module | Models | Constants that bound it |
|---|---|---|
| `OutboxDelivery` | the contract of the outbox, with no relay in sight | |
| `OutboxRelay` | `outbox-relay.repository.ts`, `outbox-relay.runner.ts`, `bullmq-publisher`, `relay.main.ts`; implements `OutboxDelivery` | `BatchSize`, `MaxPublishAttempts` (configuration), `MaxFaults` |
| `VersionUpload` | `complete`, `finalizeObject`, document deletion | `MaxVersions` |
| `UploadInit` | `initDocument`, `initNewVersion`, `withUploadGrant`, the idempotency service | `Ttl`, `MaxClock`, `MaxVersions` |
| `FolderTree` | folder create, move, delete; documents put into folders | the sets of ids |
| `SessionRotation` | login, refresh, logout, guard of one session | `Ttl`, `MaxTokens`, `MaxClock` |
| `ReviewWorkflow` | export and sync to Argilla, import of webhooks, and what annotation runs save beside them | `MaxAnswers` |
| `GoldCompilation` | what `datasets/compilation.py`, `compiler.py` and `validation/split.py`, `batch.py` accept and make of it; the files of a release and what `verify_frozen_dataset` compares in them | the records and plans |
| `ReleaseStore` | the contract of a released version | |
| `DatasetRelease` | `datasets/freeze.py`, `publishing.py`; any number of freezes of one version and a verifying reader; implements `ReleaseStore` | `MaxFaults`, `MaxDamages` |

Source understanding is a chain of modules, one per part of the program, each of
which EXTENDS the one before it. They are operators over a document, which is a
sequence of elements; only `SourcePipeline` and `SourceReading` have a state.

| Module | Models |
|---|---|
| `SourceElements` | an element as the algorithms tell elements apart: type, native group, parent and heading level, style, the patterns its text matches, page evidence |
| `StructureSignals` | `structure/signals.py`: what is a heading by its number, its label, the preface or an outline |
| `BoundaryScoring` | `structure/boundary.py`: the boundary between two neighbours and the guards of its integrity |
| `LogicalGrouping` | `structure/grouping.py` with `dialogue.py`, `qa.py`, `log.py`, `subdocument.py` |
| `IntegrityConsolidation` | `structure/integrity.py`: native and heuristic groups of tables, lists, code and formulas |
| `ContextHierarchy` | `structure/hierarchy.py`: the tree of headings and the path of each element |
| `ContentRegions` | `profiling/content_profiler.py`, `profiling/regions.py` |
| `StructuralRelations` | `relations/builder.py`, `relations/table_continuation.py` |
| `CanonicalAssembly` | `structure/integration.py`, `region_routing.py`, `quality.py`, `assembly.py`, the integrity of `schemas/document.py` |
| `SemanticAnnotation` | `semantics/annotator.py`, `request.py`, `model.py`, the candidates of `provider.py`, the annotation rules of `schemas/document.py` |
| `SourcePipeline` | `pipeline.py`, `pipeline_support.py`, `completion.py`: the stages in order, one action each, and the report |
| `RetrievalUnits` | `retrieval_units/builder.py` |
| `SemanticRetrieval` | `retrieval_units/semantic.py`: the gate of a benchmark report and the enricher |
| `TextAdapters` | `adapters/markdown.py`, `plaintext.py`, `_text_common.py` |
| `DocxAdapter` | `adapters/docx.py`, `_docx_*.py`: from the XML trees of a package to its elements |
| `SourceReading` | `adapters/runner.py`: a source from its bytes to its units, annotated again and enriched if it is asked |

`MC*` modules give the constants their values for TLC; `*Proofs` modules hold the
theorems. `MCLibrary` (`VersionUpload` and `FolderTree`) and `MCWorkingRecords`
(`ReviewWorkflow` and `DatasetRelease`) each check two systems that share no state
in one run: each acts while the other has not begun, because a behaviour in which
both act shows nothing more. They are no composition. `PROJECT.json` maps every definition to the lines it stands for.

How state and steps correspond to the code:

- **A step is what runs without an await that another process can use**: one SQL
  statement or one transaction that holds its locks to the end, one request to
  the object store, one publication. Between two steps any other process runs.
- **PostgreSQL** is READ COMMITTED. In `VersionUpload` the locking `SELECT ...
  FOR UPDATE OF d` waits, then rereads the locked row but keeps the joined row
  of the start of the statement; `StaleJoin = TRUE` is this behaviour, `FALSE`
  the code with the current version read under the lock. In `UploadInit` locks
  are rows of the variable `locks`, released when the transaction ends. In
  `FolderTree` nothing is locked, as in the code.
- **Time**: in `OutboxRelay` one flag per row says that its back-off or lease is
  over; it may come true at any moment, also while a relay works on the row.
  `UploadInit` and `SessionRotation` have a clock that any step may be followed by.
  A session's conditions on the time compare with a `now` that the process takes
  before it sends the statement (`TakeNow`, then `Rotate`; `BeginRefresh`, then
  `Read`; `BeginLogout`, then `Guard`). A token's `exp` counts whole seconds, the
  row's `expiresAt` milliseconds: `Second` is the number of ticks in a second.
- **The staging object** is written by the browser whenever it likes, with any
  content, also one it has written before: the presigned URL outlives the upload.
  A conditional copy compares contents, as the code compares ETags.
- **Failure**: `Crash` ends a relay anywhere, and BullMQ may have accepted the job
  whose publication failed. `BreaksOff` ends a call at any step, with its
  transaction rolled back or committed and its answer lost. `Log(part)` writes a
  part of a synchronisation. Webhooks stay in a set, so that each may arrive
  late, never, several times or in another order.
- **Files**: in `DatasetRelease` every access to the file system is a step. `rename`
  is that of POSIX and replaces nothing but an empty directory. A failed write may
  leave part of a file, and a read may raise an `OSError`. A manifest holds a hash
  per split file, one over these and one over the sources; beside them the plan and
  the guideline stand for everything in it that nothing is compared with
  (`guideline_version`, `split_manifest_hash`, `dataset_version`, `created_at`), as
  the metadata of a split file does for what `hashing.py` excludes. `Damage` is a
  write from outside: a file lost, unreadable or overwritten by that of another
  split, a case taken out or added, a wrong entry in the manifest, another plan,
  guideline or metadata; it never computes hashes anew. A release is its files,
  and losing them with the machine (`fsync` of the file, none of the directory) is
  left out.
- **The JSONL repository** compares only what identifies a record when it saves
  one, so an annotation run may change the suggestions of a record in any state,
  or save a new record in the place of a reviewed one (`Annotate`).
- **Documents**: an element is a record of what the algorithms tell apart. Text is
  the set of patterns it matches (a number, a label, a question), a style the
  properties that are compared, an identifier the position of an element. Scores
  are counts of the signals, as the thresholds of the default policies separate
  them; confidences, which no later stage reads, are left out. A line of text is
  the set of block markers it begins with. Policies whose values are numbers are
  constants, with the smaller values of the configuration that make every rule
  apply to a short document.
- **Word documents**: a package is the tree of its body, those of its headers and
  footers, its notes, its styles and lists, and the policy it is read under. A tree is a sequence of
  nodes in document order, each with the number of the one it stands in (`up`);
  the recursive walks of the code are sets of nodes, by what stands between them
  and the node the walk begins at. A paragraph is its properties and, in place of
  its runs, whether it has text and which patterns that matches.
- **Annotations**: what a provider answers is an input, a function from the
  targets it is asked about to candidates, so that it may answer anything: a
  target it was not asked about, evidence from elsewhere, too many candidates, a
  type outside its capabilities, or an exception (`Rogue`). The annotator's
  batches, its validation of each candidate, its choice of the best per target
  and the rebuilding of the document are the code's. A benchmark report is an
  input too: for each type, scope and method the measured rates and the version,
  configuration and policy they were measured with. `Reannotate` annotates the
  document that came out once more, with the same or another annotator, and
  `EnrichUnits` adds to the units what the gate lets through. The gate compares the
  reasons of a slice as tuples, and gathers them in another order for a generative
  slice of an extractive type than its report is validated in: such a slice makes
  the whole gate raise (`Contradicted`). The version of the annotation format is
  that of the report or the report is not used; the version of the configuration
  fingerprint is one constant in all of them.
- **Objects and hashes**: an object is its content, which stands for its ETag; a
  token is the number of its signature; a task is the record it was built from,
  because its hash covers the whole record; a manifest holds the cases its hashes
  are computed from. A webhook names the task its reviewer opened or the one that
  has replaced it since; which one is Argilla's affair, so both may happen.

## 3. Runs

All runs finish in less than three minutes on two workers.

| Run | Instance | Shows |
|---|---|---|
| `relay` | 2 relays, 1 routable and 1 unroutable event, batches of 2, 3 attempts, 3 faults; 93 thousand states | claims are fenced, an event has one job, is given up only after faults and left behind only by them; the refinement of `OutboxDelivery` (in it: what is settled stays so, and only a queued event is published); every event is settled |
| `library` | 2 calls, 2 versions, two matching contents and a mismatching one, written by the browser in any order and as often as it likes; in behaviours of their own 3 folders, 1 document, 2 requests, one move at a time; XLIB states | one event per receipt, every final object meets the upload contract and settles, nothing is written after a deletion; the walk of `assertNoCycle` keeps the tree acyclic although it reads while others create and delete |
| `versions_backward` | 2 calls, 3 versions | **violated**: the stale join lets an older version take the pointer back |
| `versions_rewritten` | 2 calls, 1 version, 2 matching contents | **violated**: a staging object that is rewritten A, B, A between stat and conditional copy replaces a final object that was verified |
| `init_retries` | 2 documents, 1 key, 2 bodies, 2 calls, a time to live of one tick; 103 thousand states | idempotency under retries and expiry, no deadlock between the locks, every call ends |
| `folders_cycle` | 2 folders, 2 moves at once | **violated**: two moves make a cycle |
| `folders_nonempty` | 2 folders, 1 document, 2 requests | **violated**: a folder is deleted with something in it |
| `session_race` | 3 requests, 4 tokens, 3 ticks of which 2 are a second; XSES states | one winner per token, losers have a winner, a revoked session stays so and an expired one is rotated at most once, by a refresh that was under way, at most one refresh succeeds after a suspension |
| `review_sync` | 2 reviewers, 1 answer | **violated**: a task is replaced under a response |
| `working_records` | 1 record, 1 reviewer, 2 suggestions, 2 decisions, 2 answers; in behaviours of their own 2 freezes of one version, 4 records of 3 documents (one a copy of another in a second group), 3 plans, 1 fault, 1 damage, a reader; XWOR states | an answer is applied once and on the reviews it was given on; webhooks leave adjudicated records alone; current answers are not refused; no leakage, one winner, whole and immutable releases, true reports, no debris without a fault, the refinement of `ReleaseStore` |
| `understanding` | every document of up to 3 elements of 11 kinds, with 17 rarer kinds in up to 3 elements beside them, longer ones for outlines, prefaces, roots, lists, tables over pages and pasted documents, what a caller may add, every text of up to 3 lines of 9 kinds (more for fences and lists), Word documents of two or three blocks out of 34 (tables in cells, wrappers, text boxes and revisions among them) under three views of revisions, packages with one thing wrong each, and documents with honest and rogue annotators and matching, outdated, poor and missing reports, under 4 budgets; XUND states | a text and a Word document are always understood and each table that is shown is read once (`TextIsUnderstood`), paths are the open headings, elements are accounted for once, groups stay whole, only figures, charts and formulas without text are left out, continuations are chains, observations are kept (also through a second annotation), what is shown with a unit was measured and is said by an annotation of the unit's elements, and no source gets stuck |
| `understanding_extracts` | the annotated documents of `understanding` | **violated**: a topic marked as an extract is shown without a quotation |

The type invariants are no part of the runs: `TypeCorrect` (of a module that shares
its proofs with another one, `FolderTypeCorrect` or `ReviewTypeCorrect`) establishes
them for all values of the constants.

Why these bounds are enough for what they look for:

- Two relays are the smallest number that can take a claim from one another, and
  with three faults an event can use up all its attempts. A batch of two makes the second event wait under a lease that
  the first one uses up.
- Two calls and three versions are what an overtaken completion needs: one
  version that was current, one that overtakes it, and one that waited. Two calls,
  one version and two contents are what a rewritten staging object needs.
- One key, two bodies and two calls make every case of a replay: the same body
  running, finished, expired, and a different body. Two documents show a key
  that is used again after its time to live. Two keys that compete for one
  version number need a bigger instance than TLC finishes in a minute; there
  the theorem `LocksSufficeAlways` is the evidence.
- Three refreshes are a winner, a loser and one that presents the loser's or an
  even older cookie; four tokens let a token be replaced twice.
- Three ticks of which two make a second let a session expire between any two
  steps, and a token be signed in the middle of a second.
- Two answers allow a conflict, a second review, and an old answer that arrives
  after it. One reviewer is enough because answers are told apart by their
  dates; the identity of the reviewer only matters for open responses, and
  `review_sync` has two.
- Two freezes are a winner and a loser at each of the three places where a call
  can lose: the first check, the second, and the rename. The records make every
  rule of the split refuse something: a copy in another group, a document with
  two targets, a group without a split, a batch with a record missing. One
  damage shows a reader's report; the theorem covers any number.
- Two blocks beside each other are what a list or a heading needs to be told from
  its neighbour, three what a list that goes on after something else needs; a
  table two levels deep in each kind of container takes every walk into tables.
- Three elements are what a stage can tell apart by looking at an element, its
  predecessor and its successor. Rules that need more have a smaller threshold
  (an outline of 3 sections, a contents of 2 entries) and documents of their own.
- Six of the eight signals for a table that goes on hold of every pair that gets so
  far, so the default of 4 is always met; a `MinSignals` of 7 makes one of the other two
  (the same orientation, the same column types) necessary.
- Two candidates per target, batches and requests of two targets and three
  observations per unit are what makes a limit cut something off in a document of
  three elements; a budget of 4 tokens lets one observation through and not two.

Deadlock is checked in the relay, review and understanding runs; in the last a
source that no action takes to an end would be one. The other models end by
design: when every id, token or version is used and no request is running,
nothing is left to do.

### Fairness

- `OutboxRelay`: a process that is up continues with the batch in its hands (an
  awaited promise settles), a stopped one is restarted by its supervisor, a
  stopping one stops, and clocks advance: weak fairness. Claiming an event is
  strongly fair: the query orders candidates by `available_at`, so an event waits
  only for the older ones, but its row may be locked by another relay (`SKIP
  LOCKED`), or all relays may be busy, infinitely often in between.
  Faults are not fair; `MaxFaults` bounds them.
- `UploadInit`: each call's next statement is strongly fair, because PostgreSQL
  queues waiting transactions for a lock in the order of their arrival.
- `SourceReading` states no fairness: each step has one outcome but for the choice
  of a budget, so that a reading that does not get stuck comes to its end.
- No other module states fairness, and none of their properties needs it.

### Where the code and its texts differ

Six runs end in a violation, each of a sentence in the documentation or tests
(`findings` in `PROJECT.json` has the lines):

1. `NeverMovesBackward`: a completion that waited for the document row compares
   its version with the current version of before the wait.
2. `FinalIsImmutable`: the copy to the final object has a condition on the staging
   object only, its ETag. Two completions that both found no final object, having
   seen different contents, both copy if the browser puts the first content back in
   between; the second copy replaces the object that the other call has verified
   and recorded. The new object meets the upload contract too (`FinalMeetsContract`),
   but completing the version again then answers that its ETag differs.
3. `Acyclic`: two concurrent moves each pass the cycle check.
4. `DeletedFoldersAreEmpty`: a folder counted as empty receives something before
   it is marked deleted.
5. `SyncKeepsActiveReviews`: responses are loaded before, and tasks logged after,
   a moment at which a reviewer may begin.
6. `ExtractsAreQuoted`: the value of every annotation whose payload is marked
   extractive is rendered, but only a concept, an entity or a keyword has to have
   evidence and to repeat it; a topic may be marked so without any.

Other behaviours the models contain, which no text excludes or which are known
limits: a suspended user's refresh that had already read the session succeeds
once more (no second one does); so does a refresh whose `UPDATE` was under way when
the session expired; a login that has read the user opens a session although the
user was suspended before the row was inserted, and no refresh or guard lets it be
used; a client that loses the answer of a refresh is logged out; an annotation run
may save a new record over an adjudicated one, which opens it again; a relay may
publish a job after another one has given the event up; an export of a batch
ends at the first record that is already adjudicated; a replayed idempotency key
answers `UPLOADING` whatever has become of the version.

The reading of Word documents shows five. A table in a wrapper that is not one of
the known ones, and an `altChunk` in a cell, are skipped without a diagnostic,
although `_docx_preservation.py:16` has it that an unsupported structure must not
lose source silently. The text of a formula counts as text of its paragraph, so
that only a formula without text, or with text in a revision that is not shown,
becomes a `FORMULA`. References to notes in cells are not recorded. A table that
is wrapped in a cell comes after the whole table that contains it. And a whole
document is refused if a page header or footer has a question with its answer, or
two native lists that go on over a blank paragraph: the stage of regions would give
their elements the category of the pair or the list, and does not overrule
boilerplate (`profiling/regions.py:205-240`, `258-312`). `ReadsPlainly`, the
condition of `TextIsUnderstood`, names both, and a heading that reads as an answer,
which leaves no boundary for the section it begins.

Projection shows one. A formula without text costs nothing and is cut off alone
where a budget ends; as no unit is made of what has no text, it ends up
unresolved (`retrieval_units/builder.py:195-240`, `329-373`). `OnlyFiguresAreUnplaced` names it for
this reason.

A verification of a release says nothing of its plan, guideline, versions, date
and the metadata of its files: no hash covers them and nothing is compared with
them. `ValidReportsAreTrue` is about the cases of each split and their sources.

The models of semantics contain four more. A benchmark with a generative slice of an
extractive type makes the whole gate raise, whatever its other slices are. An annotation that is kept by a second call carries the
configuration under which its provider's name is registered last. A second call
of the same provider with `replace` off repeats identifiers and fails, leaving
the document as it was. The gate compares version, configuration and policy with the
report, not the capabilities that the provider declared when it answered.

## 4. Proofs

Every theorem holds for all values of the constants that satisfy the `ASSUME`s of
its module, unless an extra assumption is named here.

- **`OutboxRelayProofs`**: type correctness, all invariants of `relay`, the
  refinement, and the shape of a row, the bound on attempts, that a published event
  is queued and that settled rows stay settled, which no run checks on their own. The guarded `UPDATE`s compare
  only `claim_owner`; that this fences claims (`ClaimIsFenced`) follows from the
  shape of the loop: a relay polls with an empty batch in hand (`LoopShape`), so
  the row it owns is the one it last claimed. It needs distinct instance ids
  (`DistinctIds`), and so do the accounting of attempts, by which every attempt
  but the one in progress is paid for by a fault (`AttemptsAreCharged`), and the
  two invariants that rest on it. `PublishedIsQueued`, `OneJobPerEvent`, `TerminalIsFinal`
  and the refinement hold also if two relays share an id.
- **`DocumentProofs`**, on `VersionUpload`: type correctness, all properties of
  `library` about uploads, that the current version is a received one and that received
  rows do not change, whatever the browser writes. That the pointer is monotone and
  newest (`CurrentIsNewest`) is proved if the version is read under the lock or only
  one call exists (`~StaleJoin \/ OneCall`), and `versions_backward` shows why. A final
  object meets the contract because what a call has seen did, and the copy is of what
  it has seen (`StorageInv`); it settles because a call that finds one does not copy
  (`FinalSettles`). That it never changes, and that its ETag stays the recorded one,
  is proved if no two completions overlap (`OneCall`), whatever the browser writes
  and wherever calls break off: `versions_rewritten` shows why. What is recorded then is what is there (`LoneInv`).
- **`DocumentProofs`**, on `FolderTree`: type correctness, and `Acyclic` under `SerialMoves`. The walk
  only meets folders above its starting point; creations and deletions never
  change a parent, so without another move what it has visited stays above the
  target, and the moved folder is not among it.
- **`UploadInitProofs`**: type correctness and the four safety properties. A call past
  the advisory lock holds it, and one past the row lock holds the document, so
  what it read of the record and of the version numbers is still true when it
  inserts (`CallInv`); a record names a version made under its key, and older
  versions under that key are a time to live older (`DataInv`).
- **`SessionRotationProofs`**: type correctness, the four properties of the run, and
  that the session row outlives the token it names, by less than a second, for every
  length of a second and of a token's life. Tokens are
  numbered as they are signed and every swap leads to a later one; a request that
  has read the session either still sees what the row holds or was overtaken by a
  swap from the token it presents. No request knows a version of the row that is
  yet to come (`VersionsPassed`), so after a suspension the first swap leaves no
  other that could follow it; and so it is after an expiry with the refreshes whose
  time was taken before it, which no request joins any more (`Late`).
- **`WorkingRecordProofs`**, on `ReviewWorkflow`: type correctness and the four properties of
  `working_records` about reviews, with annotation runs that save over any record. Answers are
  dated in their order and are later than all reviews
  in their task, and an answer is only applied to its task; so the reviews of a
  record have increasing dates none of which is later than the last answer
  (`Dated`), and each was given on the ones before it. This gives uniqueness, and it shows that the chronology and chain
  checks of a record never refuse an answer to the record as it is.
- **`WorkingRecordProofs`**, on `DatasetRelease`: all properties of `working_records` about releases, that a call
  told the version is frozen finds something there, and the
  refinement of `ReleaseStore`, for any number of records, calls,
  faults and damages. Every manifest anywhere still tells which dataset it was computed
  from, one that some call compiled (`Known`), because a damage changes its entries but
  not the hash over all of them (`IsManifestOf`); so a verification that passes has read
  the cases of that dataset and no others, whatever has become of the other files and of
  what no hash covers (`VerifiedIsWhole`).
  While nobody writes from outside, the version is vacant or whole
  (`FinalInv`), and a whole one can be neither renamed onto nor occupied.
  `OneWinner` is proved as long as nobody has written into the directories: a
  release whose files are all removed leaves an empty directory, which the rename
  of another call would replace. Each temporary directory that no call owns any
  more is charged to a fault of its own (`DebrisInv`), so that there are never more
  of them than there were faults.
- **`SourceReadingProofs`**: for sources of any length, seven properties of
  `understanding`, that the elements of every source are elements, and that
  annotations name the annotator that made them. The inductive invariant `AInv`
  says what the pipeline knows at any moment, also after a stage has failed and
  while documents are annotated again: what each stage has left is what its definition makes of
  what the stages before it had left (`Found`), the document is the assembled one
  but for its annotations (`Kept`), and the units are those of the document
  (`Indexed`). The properties follow from it and from what the definitions compute:
  - *Adapters*: plain text, Markdown and Word make elements of whatever they are
    given (`ElementsAlways`). Styles that are based on each other in a circle, lists
    that go on, and tables in tables and text boxes are recursive functions.
    Each has a solution (`IterationExists` counts up from the first, `RecursionHasSolution`
    goes down to nodes that stand later), and a least counterexample, by the
    well-foundedness of the numbers, takes the place of an induction.
  - *Paths*: the stack of the hierarchy always is the sequence of headings that
    are open, each above the next (`IsOpenPath`), so the path of an element names
    exactly the headings whose section it stands in (`PathsAreOpenHeadings`).
  - *Units*: the spans that must not be cut cover each group and each family of
    table parts; what the builder cuts between them is a partition of the blocks.
    So every element is in one unit or named as left out
    (`EveryElementIsAccountedOnce`), no group is divided (`GroupsAreRetrievedWhole`) and
    what is left out has no text (`OnlyFiguresAreUnplaced`).
  - *Continuations*: a table goes on in at most one other, and at most one goes on
    in it, because of several pairs that fit none is taken
    (`ContinuationsAreChains`).
  - *Annotations*: an annotation names the annotator that said it, its version and
    configuration, also after others have annotated the document (`SaidAlways`).
    With the ranking, the limits and the gate this gives `OnlyMeasuredIsShown`, which
    claims a quotation of concepts, entities and keywords only. That
    the stages only add to what was observed is `ObservationsAreKept`.
- **`OrderlyReadingProofs`**: what the stages refuse. An orderly document
  (`Orderly`) names only what was observed, the items of a list stand together,
  between two elements of a table are only those of tables inside of it, and margins
  are set off by something new. The guards are proved to hold of such a
  document one after the other, each of what the stages before it have made: the
  spans that the source names do not cross, so consolidation, the units and the
  material of each element are accepted; and so are the regions and the outline,
  the relations, the hierarchy, and last the assembled document and its projection.
  Hence an orderly document is understood to the end
  (`OrderlyIsAlwaysUnderstood`), whatever its elements are, and the adapters of text
  and Markdown make no other (`LinesAreAlwaysUnderstood`).
- **`DocxReadingProofs`**: Word documents are orderly too, whatever their trees
  contain. The argument goes over the tree of a part, from the
  nodes that stand last to the root. What is read of a table is whole: its own
  elements, and those of the tables inside of it, each in one piece (`IsWhole`);
  what is laid out after each other stays so if no two pieces read the same table
  (`Sound`, `Portion`, `PortionsLaid`), and two blocks never do, for neither stands in what the
  other holds. Parts have names and notes have anchors of their own, so the whole
  package is as sound as its parts. The pass over lists moves items into groups that
  are together, and touches nothing else. That a shown table is read at least once
  goes the other way, from a table up through the wrappers, cells and text boxes
  that hold it, each of which is opened. This proves `TextIsUnderstood`, the last
  of the properties of `understanding`.

The assumptions of the last three modules are on what comes from outside:
`NoneAssumption`, `GuardAssumption` and part of `RegionAssumption` (`None`, which
stands for Python's `None`, is no number, name or group),
`SourcesAssumption` (the lines and trees of a source, and what reports hold, are
of their types; a node of a tree stands in one before it; a header or footer is a part
of its own name, as the entries of a package are; an annotator that is asked later
is one of the program's), `PoliciesAssumption`, `GateAssumption`, `RegionAssumption` and
`RelationAssumption` (policies, limits, tolerances and shares are those the program's own validation accepts).
Annotators answer anything.

Only model-checked are the liveness properties (`EventuallySettled`, `CallsEnd`),
because fairness and ENABLED are out of the prover's reach; every invariant and every
action property of a passing run is proved, under the conditions named above.
Of the violated properties, three hold under a condition that excludes the run, which
is the assumption of their theorem: `NeverMovesBackward`, `FinalIsImmutable` and `Acyclic`.
The other three have no theorem.

## 5. Not modelled, and the plan

Left out for good: password hashing, cookie attributes, signatures, request
shapes, configuration parsing, logging, health checks, the audit log, which is
written in the transaction of the change and read by nothing, and data,
benchmarks and reports. `ai_data_studio/repositories` assumes one writer
(its README), and so does `ReviewWorkflow`: its webhook handler runs on the
event loop of one process and does not yield.

Of the releases, three things are left out so far: batches that the compiler infers
from reviews, the rules of `eligibility.py` (the eligible records are a constant
of `GoldCompilation`), and the projection of decisions to annotations. The
freezer's tests let a rename onto an empty directory fail
(`tests/ai_data_studio/test_dataset_freeze_atomicity.py` replaces `os.rename`); on POSIX it
succeeds, and the model has that.

Of source understanding, PDF is left out, whose pages another library reads; of
DOCX, the opening of the package, its relationships, assets and metadata, and the
runs of a paragraph. Of semantics, the
heuristic provider, the context that a request carries beside its targets, languages
(also the one in the key of a gate's decision), the separators and views of rendered text, and units of other scopes than
element and group, are left out; so is how `evaluation/` measures, whose reports
are inputs. Character offsets,
confidences that no threshold reads, reasons, metadata and timings are
abstracted, and so are the checks
that each stage makes of its own hand-over, which hold by construction.

The operators of source understanding were compared with the program on random
documents, stage by stage (signals, boundaries, groups, hierarchy, regions, relations,
errors, readiness, quality, retrieval units, annotations, gate, enriched units):
35 thousand documents of elements, 8 thousand texts, 3 thousand Word documents and
10 thousand annotated documents, with no difference.

Planned, in this order:

1. `LibraryLinks`: workspaces, tags and documents with links written while one of
   their ends is deleted.
2. The heuristic provider and the adapter of PDF.
3. An abstract specification of an upload that `VersionUpload` with the version
   read under the lock implements.
