---------------------------- MODULE ReviewWorkflow ----------------------------
(***************************************************************************)
(* Human review of working records through Argilla:                        *)
(*   ai_data_studio/review/service.py, argilla_orchestration.py,           *)
(*   argilla_remote.py (sync_tasks), argilla_webhook.py, contracts.py,     *)
(*   ai_data_studio/repositories/jsonl.py,                                 *)
(*   ai_data_studio/schemas/working.py and validation/review.py.           *)
(*                                                                         *)
(* An export writes the records of a batch as tasks into an Argilla        *)
(* dataset: it builds the tasks, fetches what the dataset holds, and logs  *)
(* what is new or has changed.  Reviewers answer there at any time.  Every *)
(* answer is sent as a webhook, which may come late, out of order, more    *)
(* than once or never; the handler runs without interruption on the event  *)
(* loop of the one process that writes the repository.                     *)
(*                                                                         *)
(* A task's hash covers the whole record, so a task is taken to be the     *)
(* record it was built from, and expected_decision_hash its decisions.     *)
(* An answer without decisions stands for the decisions of its task.       *)
(*                                                                         *)
(* Left out: source, target and batch of a record, which never change once *)
(* it is stored; the signature and the shape of a webhook, which refuse it *)
(* before anything is read.                                                *)
(***************************************************************************)
EXTENDS Naturals, Sequences

CONSTANTS
  Batch,          \* the records of the batch
  Reviewers,      \* Argilla users
  Suggestions,    \* what annotation runs can suggest for a record
  Decisions,      \* possible decisions on a record
  Undecided,      \* those that leave some type without a decision
  NoTask,         \* no such record in the dataset
  MaxAnswers      \* bounds the answers given in Argilla

ASSUME DecisionsAssumption == Undecided \subseteq Decisions
ASSUME BoundsAssumption == MaxAnswers \in Nat

VARIABLES
  records,    \* the repository
  tasks,      \* Argilla: the task logged for each record
  opened,     \* Argilla: the task on which each reviewer began a response to it
  answers,    \* Argilla: how many were submitted; dates responses (updated_at)
  webhooks,   \* every webhook ever sent: each can arrive at any later time
  export      \* the local state of the export

reviewVars == <<records, tasks, opened, answers, webhooks, export>>
argilla == <<tasks, opened, answers, webhooks>>

ReviewOutcomes == {"ACCEPT", "MODIFY", "CONFLICT", "REJECT"}
Reviews == [reviewer : Reviewers, at : Nat, outcome : ReviewOutcomes,
            before : Decisions, after : Decisions]
WorkingRecords ==
  [suggestions : Suggestions, decisions : Decisions, reviews : Seq(Reviews),
   status : {"REVIEW_REQUIRED", "PASS", "REJECT"}]
Answers ==
  [record : Batch, reviewer : Reviewers, at : Nat, outcome : ReviewOutcomes,
   decisions : Decisions, task : WorkingRecords]

\* built: the tasks of this export so far; changed: those that will be logged.
NoExport == [at |-> "idle", built |-> [d \in Batch |-> NoTask], changed |-> {}]
ExportStates ==
  [at : {"idle", "build", "log"},
   built : [Batch -> WorkingRecords \cup {NoTask}], changed : SUBSET Batch]

Unreviewed(s, c) ==
  [suggestions |-> s, decisions |-> c, reviews |-> <<>>, status |-> "REVIEW_REQUIRED"]

\* The reviewers whose response to the record is not discarded.
Active(d) == {u \in Reviewers : opened[d][u] # NoTask}

ReviewInit ==
  /\ \E s \in Suggestions, c \in Decisions : records = [d \in Batch |-> Unreviewed(s, c)]
  /\ tasks = [d \in Batch |-> NoTask]
  /\ opened = [d \in Batch |-> [u \in Reviewers |-> NoTask]]
  /\ answers = 0
  /\ webhooks = {}
  /\ export = NoExport

-----------------------------------------------------------------------------
(* The rules for records. *)

Last(r) == r.reviews[Len(r.reviews)]

\* validate_review_chain: the hashes of the reviews lead to the decisions.
Chained(r) ==
  \A i \in DOMAIN r.reviews :
    r.reviews[i].after =
      IF i = Len(r.reviews) THEN r.decisions ELSE r.reviews[i + 1].before

\* validate_record, with the chain that WorkingRecordValidator adds to it.
Valid(r) ==
  /\ \A i, j \in DOMAIN r.reviews : i < j => r.reviews[i].at <= r.reviews[j].at
  /\ r.status = "PASS" =>
       /\ r.decisions \notin Undecided
       /\ r.reviews # <<>> => Last(r).outcome \in {"ACCEPT", "MODIFY"}
  /\ Chained(r)

Reviewable(r) == r.status = "REVIEW_REQUIRED" /\ Valid(r)

\* HumanReviewSubmission and ReviewAttempt.
Allowed(a) ==
  /\ a.outcome = "ACCEPT" => a.decisions = a.task.decisions
  /\ a.outcome = "MODIFY" => a.decisions # a.task.decisions

StatusAfter(outcome) ==
  CASE outcome \in {"ACCEPT", "MODIFY"} -> "PASS"
    [] outcome = "CONFLICT" -> "REVIEW_REQUIRED"
    [] OTHER -> "REJECT"

\* Mutant: the two hashes of an attempt are swapped.
AttemptBackwards(r, a) ==
  [reviewer |-> a.reviewer, at |-> a.at, outcome |-> a.outcome,
   before |-> a.decisions, after |-> r.decisions]

Attempt(r, a) ==
  [reviewer |-> a.reviewer, at |-> a.at, outcome |-> a.outcome,
   before |-> r.decisions, after |-> a.decisions]

Reviewed(r, a) ==
  [suggestions |-> r.suggestions, decisions |-> a.decisions,
   reviews |-> Append(r.reviews, Attempt(r, a)), status |-> StatusAfter(a.outcome)]

-----------------------------------------------------------------------------
(* The webhook handler. *)

\* _matches_last_review: the answer was applied already.
Duplicate(r, a) == r.reviews # <<>> /\ Last(r) = Attempt(a.task, a)

\* Mutant: the answer need only have been given on the same decisions.
ApplicableByDecisions(r, a) == Allowed(a) /\ a.task.decisions = r.decisions

\* Mutant: answers are compared by their decisions, duplicates excepted.
ApplicableByHash(r, a) ==
  Allowed(a) /\ ~Duplicate(r, a) /\ Reviewable(r) /\ a.task.decisions = r.decisions

\* Mutant: any answer to a task of this revision, whatever became of the record.
ApplicableLate(r, a) == Allowed(a) /\ ~Duplicate(r, a) /\ a.task.decisions = r.decisions

Applicable(r, a) == Allowed(a) /\ ~Duplicate(r, a) /\ Reviewable(r) /\ a.task = r

\* apply_response_webhook, apply_submission; an answer that is refused or
\* already applied changes nothing.
Apply(a) ==
  LET d == a.record
      candidate == Reviewed(records[d], a) IN
  /\ Applicable(records[d], a) /\ Valid(candidate)
  /\ records' = [records EXCEPT ![d] = candidate]
  /\ UNCHANGED <<argilla, export>>

\* External: an annotation run saves the record with other suggestions, or a
\* new one in its place.  save compares no more than what identifies the
\* record, so both may happen at any time, also to a record that was reviewed.
Annotate(d, s) ==
  /\ \/ /\ s # records[d].suggestions
        /\ records' = [records EXCEPT ![d].suggestions = s]
     \/ \E c \in Decisions :
          /\ records[d].reviews # <<>>
          /\ records' = [records EXCEPT ![d] = Unreviewed(s, c)]
  /\ UNCHANGED <<argilla, export>>

-----------------------------------------------------------------------------
(* The export. *)

BeginExport ==
  /\ export.at = "idle"
  /\ export' = [export EXCEPT !.at = "build"]
  /\ UNCHANGED <<records, argilla>>

\* build_task: one record is read; any that is not reviewable ends the export.
Build(d) ==
  /\ export.at = "build" /\ export.built[d] = NoTask
  /\ export' = IF Reviewable(records[d]) THEN [export EXCEPT !.built[d] = records[d]]
               ELSE NoExport
  /\ UNCHANGED <<records, argilla>>

\* _load_remote_records and the decisions taken on what it returned:
\* ArgillaRemoteReviewConflictError if a task to replace has a response.
Load ==
  LET changed == {d \in Batch : tasks[d] # export.built[d]} IN
  /\ export.at = "build" /\ \A d \in Batch : export.built[d] # NoTask
  /\ export' = IF \E d \in changed : tasks[d] # NoTask /\ Active(d) # {} THEN NoExport
               ELSE [export EXCEPT !.at = "log", !.changed = changed]
  /\ UNCHANGED <<records, argilla>>

\* records.log: an upsert, in parts if it fails midway.
Log(part) ==
  /\ export.at = "log" /\ part \subseteq export.changed
  /\ tasks' = [d \in Batch |-> IF d \in part THEN export.built[d] ELSE tasks[d]]
  /\ export' = NoExport
  /\ UNCHANGED <<records, opened, answers, webhooks>>

-----------------------------------------------------------------------------
(* External: Argilla. *)

\* A reviewer begins a response: a draft, for which no webhook is accepted.
Open(u, d) ==
  /\ tasks[d] # NoTask /\ opened[d][u] = NoTask
  /\ opened' = [opened EXCEPT ![d][u] = tasks[d]]
  /\ UNCHANGED <<records, tasks, answers, webhooks, export>>

\* ... submits it, or submits it again: response.created, response.updated.  The
\* webhook names the task that was opened or the one that has replaced it since.
Submit(u, d, outcome, decisions) ==
  /\ u \in Active(d) /\ answers < MaxAnswers
  /\ answers' = answers + 1
  /\ \E task \in {opened[d][u], tasks[d]} :
       webhooks' = webhooks \cup
         {[record |-> d, reviewer |-> u, at |-> answers + 1, outcome |-> outcome,
           decisions |-> decisions, task |-> task]}
  /\ UNCHANGED <<records, tasks, opened, export>>

Discard(u, d) ==
  /\ u \in Active(d)
  /\ opened' = [opened EXCEPT ![d][u] = NoTask]
  /\ UNCHANGED <<records, tasks, answers, webhooks, export>>

-----------------------------------------------------------------------------

ReviewNext ==
  \/ \E a \in webhooks : Apply(a)
  \/ \E d \in Batch, s \in Suggestions : Annotate(d, s)
  \/ BeginExport \/ Load
  \/ \E d \in Batch : Build(d)
  \/ \E part \in SUBSET Batch : Log(part)
  \/ \E d \in Batch, u \in Reviewers :
       \/ Open(u, d) \/ Discard(u, d)
       \/ \E o \in ReviewOutcomes, c \in Decisions : Submit(u, d, o, c)

ReviewSpec == ReviewInit /\ [][ReviewNext]_reviewVars

-----------------------------------------------------------------------------
(* Properties *)

\* Every variable has its type.
ReviewTypeOK ==
  /\ records \in [Batch -> WorkingRecords]
  /\ tasks \in [Batch -> WorkingRecords \cup {NoTask}]
  /\ opened \in [Batch -> [Reviewers -> WorkingRecords \cup {NoTask}]]
  /\ answers \in Nat
  /\ webhooks \subseteq Answers
  /\ export \in ExportStates

\* Duplicate delivery is "a no-op rather than appending a second ReviewAttempt":
\* no answer is ever applied twice, however often and late its webhook arrives.
AppliedAtMostOnce ==
  \A d \in Batch : \A i, j \in DOMAIN records[d].reviews :
    records[d].reviews[i].at = records[d].reviews[j].at => i = j

\* The reviews of a record are a history: each is an answer that its reviewer
\* gave on the decisions and on exactly the reviews before it, so none was
\* given in ignorance of another, in whatever order the webhooks came and
\* whatever annotation runs have saved in between.
ReviewsBuildOnEachOther ==
  \A d \in Batch : \A i \in DOMAIN records[d].reviews :
    \E a \in webhooks :
      /\ a.record = d /\ records[d].reviews[i] = Attempt(a.task, a)
      /\ a.task.reviews = SubSeq(records[d].reviews, 1, i - 1)

\* "M3.2 does not rewrite a previous human adjudication silently": no webhook
\* changes a record that has passed or was rejected, also after an annotation
\* run has changed its suggestions.  Only one that saves a new record in its
\* place, without the reviews, opens it again.
AdjudicationIsFinal ==
  [][\A d \in Batch : records[d].status # "REVIEW_REQUIRED" =>
       \/ records'[d] = [records[d] EXCEPT !.suggestions = records'[d].suggestions]
       \/ \E c \in Decisions : records'[d] = Unreviewed(records'[d].suggestions, c)
     ]_reviewVars

\* An answer given on the record as it is now is not refused for its date or the
\* review chain: those checks only ever stop what the task hash stops anyway.
NoCurrentAnswerRefused ==
  \A a \in webhooks :
    /\ a.task = records[a.record] /\ Allowed(a)
    /\ StatusAfter(a.outcome) = "PASS" => a.decisions \notin Undecided
    => Applicable(records[a.record], a) /\ Valid(Reviewed(records[a.record], a))

\* "changed review_task_hash, active UI response: fail closed": a sync never
\* replaces a task that a reviewer has an open response to.
SyncKeepsActiveReviews ==
  [][\A d \in Batch : tasks[d] # NoTask /\ Active(d) # {} => tasks'[d] = tasks[d]]_reviewVars
=============================================================================
