------------------------- MODULE WorkingRecordProofs -------------------------
(***************************************************************************)
(* Theorems about what happens to working records: ReviewWorkflow, how     *)
(* they are reviewed, and DatasetRelease, how a dataset is compiled from   *)
(* them and frozen.  The two have no state in common.                      *)
(***************************************************************************)
EXTENDS ReviewWorkflow, DatasetRelease, Integers, FiniteSetTheorems, TLAPS

-----------------------------------------------------------------------------
(***************************************************************************)
(* Proofs about ReviewWorkflow, for any records, reviewers, suggestions    *)
(* and decisions and any number of answers.  The argument: answers are     *)
(* dated in the order they are given, an answer is later than every review *)
(* in its task, and it is only applied to its task; so the reviews of a    *)
(* record have strictly increasing dates, none later than the last answer. *)
(***************************************************************************)


\* The reviews of a record are those of answers given up to n, in their order.
Dated(r, n) ==
  /\ \A i \in DOMAIN r.reviews : r.reviews[i].at <= n
  /\ \A i, j \in DOMAIN r.reviews : i < j => r.reviews[i].at < r.reviews[j].at

IsTask(t, n) == t \in WorkingRecords /\ Dated(t, n) /\ Reviewable(t)

RepositoryInv == \A d \in Batch : Dated(records[d], answers) /\ Valid(records[d])

DatasetInv ==
  \A d \in Batch : /\ tasks[d] # NoTask => IsTask(tasks[d], answers)
                   /\ \A u \in Reviewers : opened[d][u] # NoTask =>
                        tasks[d] # NoTask /\ IsTask(opened[d][u], answers)

ExportInv ==
  /\ \A d \in Batch : export.built[d] # NoTask => IsTask(export.built[d], answers)
  /\ export.at = "log" => \A d \in Batch : export.built[d] # NoTask

WebhookInv ==
  \A a \in webhooks : a.at <= answers /\ a.at > 0 /\ IsTask(a.task, a.at - 1)

ReviewInv == ReviewTypeOK /\ RepositoryInv /\ DatasetInv /\ ExportInv /\ WebhookInv

-----------------------------------------------------------------------------
LEMMA ReviewTypes ==
  ASSUME NEW r \in WorkingRecords
  PROVE  /\ r.reviews \in Seq(Reviews) /\ Len(r.reviews) \in Nat
         /\ r.suggestions \in Suggestions /\ r.decisions \in Decisions
         /\ r.status \in {"REVIEW_REQUIRED", "PASS", "REJECT"}
         /\ \A i \in DOMAIN r.reviews : r.reviews[i] \in Reviews /\ r.reviews[i].at \in Nat
<1>1. r.reviews \in Seq(Reviews)
  BY DEF WorkingRecords
<1>2. \A i \in DOMAIN r.reviews : r.reviews[i] \in Reviews
  BY <1>1
<1> QED BY <1>1, <1>2 DEF WorkingRecords, Reviews

LEMMA AnswerTypes ==
  ASSUME NEW a \in Answers
  PROVE  /\ a.record \in Batch /\ a.reviewer \in Reviewers /\ a.at \in Nat
         /\ a.outcome \in ReviewOutcomes /\ a.decisions \in Decisions /\ a.task \in WorkingRecords
BY DEF Answers

LEMMA LaterDates ==
  ASSUME NEW r \in WorkingRecords, NEW n \in Int, NEW m \in Int, n <= m, Dated(r, n)
  PROVE  Dated(r, m)
<1>1. \A i \in DOMAIN r.reviews : r.reviews[i].at \in Nat /\ r.reviews[i].at <= n
  BY ReviewTypes DEF Dated
<1>2. \A i \in DOMAIN r.reviews : r.reviews[i].at <= m
  BY <1>1
<1> QED BY <1>2 DEF Dated

\* What a review makes of a record whose reviews are all earlier.
LEMMA ReviewedIsDated ==
  ASSUME NEW r \in WorkingRecords, NEW a \in Answers, Dated(r, a.at - 1)
  PROVE  /\ Reviewed(r, a) \in WorkingRecords
         /\ Reviewed(r, a).reviews = Append(r.reviews, Attempt(r, a))
         /\ Len(Reviewed(r, a).reviews) = Len(r.reviews) + 1
         /\ \A i \in DOMAIN r.reviews : Reviewed(r, a).reviews[i] = r.reviews[i]
         /\ Last(Reviewed(r, a)) = Attempt(r, a)
         /\ Dated(Reviewed(r, a), a.at)
<1> DEFINE s == Append(r.reviews, Attempt(r, a))
<1>1. Attempt(r, a) \in Reviews /\ Attempt(r, a).at = a.at
  BY ReviewTypes, AnswerTypes DEF Attempt, Reviews
<1>2. /\ s \in Seq(Reviews) /\ Len(s) = Len(r.reviews) + 1 /\ s[Len(s)] = Attempt(r, a)
      /\ \A i \in DOMAIN r.reviews : s[i] = r.reviews[i]
  BY <1>1, ReviewTypes
<1>3. StatusAfter(a.outcome) \in {"REVIEW_REQUIRED", "PASS", "REJECT"}
  BY AnswerTypes DEF StatusAfter, ReviewOutcomes
<1>4. Reviewed(r, a) \in WorkingRecords /\ Reviewed(r, a).reviews = s
  BY <1>2, <1>3, ReviewTypes, AnswerTypes DEF Reviewed, WorkingRecords
<1>5. \A i \in DOMAIN r.reviews : r.reviews[i].at \in Nat /\ r.reviews[i].at < a.at
  BY ReviewTypes, AnswerTypes DEF Dated
<1>6. \A i \in DOMAIN s : i \in DOMAIN r.reviews \/ i = Len(s)
  BY <1>2, ReviewTypes
<1>7. \A i \in DOMAIN s : s[i].at <= a.at
  BY <1>1, <1>2, <1>5, <1>6, AnswerTypes
<1>8. \A i, j \in DOMAIN s : i < j => i \in DOMAIN r.reviews
  BY <1>2, ReviewTypes
<1>9. ASSUME NEW i \in DOMAIN s, NEW j \in DOMAIN s, i < j PROVE s[i].at < s[j].at
  <2>1. CASE j \in DOMAIN r.reviews
    BY <1>2, <1>8, <1>9, <2>1 DEF Dated
  <2>2. CASE j = Len(s)
    BY <1>1, <1>2, <1>5, <1>8, <1>9, <2>2
  <2> QED BY <1>6, <2>1, <2>2
<1>10. Dated(Reviewed(r, a), a.at)
  BY <1>4, <1>7, <1>9 DEF Dated
<1> QED BY <1>2, <1>4, <1>10 DEF Last

LEMMA NoExportType ==
  NoExport \in ExportStates /\ NoExport.at = "idle" /\ \A d \in Batch : NoExport.built[d] = NoTask
BY DEF NoExport, ExportStates

\* What an annotation run saves in the place of a record.
LEMMA UnreviewedIsValid ==
  ASSUME NEW s \in Suggestions, NEW c \in Decisions
  PROVE  /\ Unreviewed(s, c) \in WorkingRecords /\ Valid(Unreviewed(s, c))
         /\ Unreviewed(s, c).reviews = <<>> /\ Unreviewed(s, c).status = "REVIEW_REQUIRED"
         /\ \A n : Dated(Unreviewed(s, c), n)
<1>1. /\ Unreviewed(s, c) \in WorkingRecords /\ Unreviewed(s, c).reviews = <<>>
      /\ Unreviewed(s, c).status = "REVIEW_REQUIRED"
  BY DEF Unreviewed, WorkingRecords
<1>2. DOMAIN Unreviewed(s, c).reviews = {}
  BY <1>1
<1> QED BY <1>1, <1>2 DEF Dated, Valid, Chained

LEMMA ReviewInitHolds == ASSUME ReviewInit PROVE ReviewInv
<1>1. PICK s \in Suggestions, c \in Decisions : records = [d \in Batch |-> Unreviewed(s, c)]
  BY DEF ReviewInit
<1>2. ASSUME NEW d \in Batch PROVE records[d] \in WorkingRecords /\ Valid(records[d])
  BY <1>1, UnreviewedIsValid
<1>3. ReviewTypeOK
  <2>1. records \in [Batch -> WorkingRecords]
    BY <1>1, <1>2
  <2>2. export \in ExportStates
    BY NoExportType DEF ReviewInit
  <2> QED BY <2>1, <2>2 DEF ReviewInit, ReviewTypeOK
<1>4. ASSUME NEW d \in Batch PROVE Dated(records[d], answers)
  BY <1>1, UnreviewedIsValid
<1> QED BY <1>2, <1>3, <1>4 DEF ReviewInit, ReviewInv, RepositoryInv, DatasetInv, ExportInv, WebhookInv, NoExport

-----------------------------------------------------------------------------
(* A webhook is handled. *)

LEMMA Applied ==
  ASSUME ReviewInv, NEW a \in webhooks, Apply(a)
  PROVE  /\ a.record \in Batch /\ a \in Answers /\ a.task = records[a.record]
         /\ records[a.record].status = "REVIEW_REQUIRED" /\ Dated(records[a.record], a.at - 1)
         /\ records' = [records EXCEPT ![a.record] = Reviewed(records[a.record], a)]
         /\ Valid(Reviewed(records[a.record], a))
         /\ UNCHANGED <<tasks, opened, answers, webhooks, export>>
<1>1. a \in Answers /\ a.record \in Batch
  BY AnswerTypes DEF ReviewInv, ReviewTypeOK
<1>2. Dated(a.task, a.at - 1)
  BY DEF ReviewInv, WebhookInv, IsTask
<1> QED BY <1>1, <1>2 DEF Apply, Applicable, Reviewable, argilla

LEMMA ApplyKeeps == ASSUME ReviewInv, NEW a \in webhooks, Apply(a) PROVE ReviewInv'
<1> DEFINE r == records[a.record]
<1>1. r \in WorkingRecords
  BY Applied DEF ReviewInv, ReviewTypeOK
<1>2. Reviewed(r, a) \in WorkingRecords /\ Dated(Reviewed(r, a), a.at)
  BY <1>1, Applied, ReviewedIsDated
<1>3. a.at <= answers /\ a.at \in Nat /\ answers \in Nat
  BY AnswerTypes DEF ReviewInv, ReviewTypeOK, WebhookInv
<1>4. Dated(Reviewed(r, a), answers)
  BY <1>2, <1>3, LaterDates
<1>5. ReviewTypeOK'
  BY <1>2, Applied DEF ReviewInv, ReviewTypeOK
<1>6. ASSUME NEW d \in Batch PROVE Dated(records'[d], answers') /\ Valid(records'[d])
  BY <1>4, Applied DEF ReviewInv, ReviewTypeOK, RepositoryInv
<1>7. DatasetInv' /\ ExportInv' /\ WebhookInv'
  BY Applied DEF ReviewInv, DatasetInv, ExportInv, WebhookInv
<1> QED BY <1>5, <1>6, <1>7 DEF ReviewInv, RepositoryInv

LEMMA AnnotateKeeps ==
  ASSUME ReviewInv, NEW d \in Batch, NEW s \in Suggestions, Annotate(d, s) PROVE ReviewInv'
<1>1. UNCHANGED <<tasks, opened, answers, webhooks, export>>
  BY DEF Annotate, argilla
<1>2. ASSUME NEW e \in Batch
      PROVE  /\ records'[e] \in WorkingRecords
             /\ Dated(records'[e], answers) /\ Valid(records'[e])
  <2>1. CASE records' = [records EXCEPT ![d].suggestions = s]
    <3>1. /\ records'[e] \in WorkingRecords /\ records'[e].reviews = records[e].reviews
          /\ records'[e].decisions = records[e].decisions
          /\ records'[e].status = records[e].status
      BY <2>1 DEF ReviewInv, ReviewTypeOK, WorkingRecords
    <3> QED BY <3>1 DEF ReviewInv, RepositoryInv, Dated, Valid, Chained, Last
  <2>2. ASSUME NEW c \in Decisions, records' = [records EXCEPT ![d] = Unreviewed(s, c)]
        PROVE  /\ records'[e] \in WorkingRecords
               /\ Dated(records'[e], answers) /\ Valid(records'[e])
    <3>1. records'[e] = records[e] \/ records'[e] = Unreviewed(s, c)
      BY <2>2 DEF ReviewInv, ReviewTypeOK
    <3> QED BY <3>1, UnreviewedIsValid DEF ReviewInv, ReviewTypeOK, RepositoryInv
  <2> QED BY <2>1, <2>2 DEF Annotate
<1>3. ReviewTypeOK'
  <2>1. records' \in [Batch -> WorkingRecords]
    BY <1>2, UnreviewedIsValid DEF Annotate, ReviewInv, ReviewTypeOK
  <2> QED BY <1>1, <2>1 DEF ReviewInv, ReviewTypeOK
<1>4. DatasetInv' /\ ExportInv' /\ WebhookInv'
  BY <1>1 DEF ReviewInv, DatasetInv, ExportInv, WebhookInv
<1> QED BY <1>1, <1>2, <1>3, <1>4 DEF ReviewInv, RepositoryInv

-----------------------------------------------------------------------------
(* The export and Argilla: nothing they do changes a record. *)

LEMMA RepositoryKept ==
  ASSUME ReviewInv, UNCHANGED records, answers' \in Nat, answers <= answers'
  PROVE  RepositoryInv'
<1>1. ASSUME NEW d \in Batch PROVE Dated(records[d], answers') /\ Valid(records[d])
  BY LaterDates DEF ReviewInv, ReviewTypeOK, RepositoryInv
<1> QED BY <1>1 DEF RepositoryInv

LEMMA ExportSteps ==
  ASSUME ReviewInv, UNCHANGED <<records, opened, answers, webhooks>>, ExportInv',
         tasks' \in [Batch -> WorkingRecords \cup {NoTask}], export' \in ExportStates,
         \A d \in Batch : tasks'[d] # tasks[d] => IsTask(tasks'[d], answers) /\ tasks'[d] # NoTask
  PROVE  ReviewInv'
<1>1. ReviewTypeOK'
  BY DEF ReviewInv, ReviewTypeOK
<1>2. RepositoryInv'
  BY RepositoryKept DEF ReviewInv, ReviewTypeOK
<1>3. DatasetInv'
  BY DEF ReviewInv, DatasetInv
<1>4. WebhookInv'
  BY DEF ReviewInv, WebhookInv
<1> QED BY <1>1, <1>2, <1>3, <1>4 DEF ReviewInv

LEMMA ExportKeeps ==
  ASSUME ReviewInv,
         \/ BeginExport \/ Load \/ \E d \in Batch : Build(d)
         \/ \E part \in SUBSET Batch : Log(part)
  PROVE  ReviewInv'
<1>1. export \in ExportStates /\ tasks \in [Batch -> WorkingRecords \cup {NoTask}]
  BY DEF ReviewInv, ReviewTypeOK
<1>2. ASSUME export' = NoExport PROVE ExportInv' /\ export' \in ExportStates
  BY <1>2, NoExportType DEF ExportInv
<1>3. CASE BeginExport
  <2>1. export' = [export EXCEPT !.at = "build"]
    BY <1>3 DEF BeginExport
  <2>2. export' \in ExportStates /\ export'.at = "build" /\ export'.built = export.built
    BY <1>1, <2>1 DEF ExportStates
  <2>3. ExportInv'
    BY <1>3, <2>2 DEF ReviewInv, ExportInv, BeginExport, argilla
  <2> QED BY <1>1, <1>3, <2>2, <2>3, ExportSteps DEF BeginExport, argilla
<1>4. CASE Load
  <2> DEFINE changed == {d \in Batch : tasks[d] # export.built[d]}
  <2>1. CASE export' = NoExport
    BY <1>1, <1>2, <1>4, <2>1, ExportSteps DEF Load, argilla
  <2>2. CASE export' = [export EXCEPT !.at = "log", !.changed = changed]
    <3>1. export' \in ExportStates /\ export'.at = "log" /\ export'.built = export.built
      BY <1>1, <2>2 DEF ExportStates
    <3>2. ExportInv'
      BY <1>4, <3>1 DEF ReviewInv, ExportInv, Load, argilla
    <3> QED BY <1>1, <1>4, <3>1, <3>2, ExportSteps DEF Load, argilla
  <2> QED BY <1>4, <2>1, <2>2 DEF Load
<1>5. ASSUME NEW d \in Batch, Build(d) PROVE ReviewInv'
  <2>1. CASE export' = NoExport
    BY <1>1, <1>2, <1>5, <2>1, ExportSteps DEF Build, argilla
  <2>2. CASE export' # NoExport
    <3>1. Reviewable(records[d]) /\ export' = [export EXCEPT !.built[d] = records[d]]
      BY <1>5, <2>2 DEF Build
    <3>2. records[d] \in WorkingRecords /\ IsTask(records[d], answers)
      BY <3>1 DEF ReviewInv, ReviewTypeOK, RepositoryInv, IsTask
    <3>3. /\ export' \in ExportStates /\ export'.at = export.at
          /\ export'.built = [export.built EXCEPT ![d] = records[d]]
          /\ export.built \in [Batch -> WorkingRecords \cup {NoTask}]
      BY <1>1, <3>1, <3>2 DEF ExportStates
    <3>4. export'.at # "log" /\ answers' = answers
      BY <1>5, <3>3 DEF Build, argilla
    <3>5. \A e \in Batch : export'.built[e] # NoTask => IsTask(export'.built[e], answers)
      BY <3>2, <3>3 DEF ReviewInv, ExportInv
    <3>6. ExportInv'
      BY <3>4, <3>5 DEF ExportInv
    <3> QED BY <1>1, <1>5, <3>3, <3>6, ExportSteps DEF Build, argilla
  <2> QED BY <2>1, <2>2
<1>6. ASSUME NEW part \in SUBSET Batch, Log(part) PROVE ReviewInv'
  <2>1. /\ tasks' = [d \in Batch |-> IF d \in part THEN export.built[d] ELSE tasks[d]]
        /\ export.at = "log" /\ export' = NoExport
        /\ UNCHANGED <<records, opened, answers, webhooks>>
    BY <1>6 DEF Log
  <2>2. \A d \in Batch : export.built[d] # NoTask /\ IsTask(export.built[d], answers)
    BY <2>1 DEF ReviewInv, ExportInv
  <2>3. /\ tasks' \in [Batch -> WorkingRecords \cup {NoTask}]
        /\ \A d \in Batch : tasks'[d] # tasks[d] =>
             IsTask(tasks'[d], answers) /\ tasks'[d] # NoTask
    BY <1>1, <2>1, <2>2 DEF IsTask
  <2> QED BY <1>2, <2>1, <2>3, ExportSteps
<1> QED BY <1>3, <1>4, <1>5, <1>6

LEMMA ReviewersKeep ==
  ASSUME ReviewInv, NEW u \in Reviewers, NEW d \in Batch, Open(u, d) \/ Discard(u, d)
  PROVE  ReviewInv'
<1>1. UNCHANGED <<records, tasks, answers, webhooks, export>>
  BY DEF Open, Discard
<1>2. /\ opened \in [Batch -> [Reviewers -> WorkingRecords \cup {NoTask}]]
      /\ tasks \in [Batch -> WorkingRecords \cup {NoTask}]
  BY DEF ReviewInv, ReviewTypeOK
<1>3. PICK task \in {tasks[d], NoTask} :
        opened' = [opened EXCEPT ![d][u] = task] /\ (task # NoTask => tasks[d] # NoTask)
  BY DEF Open, Discard
<1>4. opened' \in [Batch -> [Reviewers -> WorkingRecords \cup {NoTask}]]
  BY <1>2, <1>3
<1>5. ASSUME NEW e \in Batch, NEW v \in Reviewers, opened'[e][v] # NoTask
      PROVE  tasks[e] # NoTask /\ IsTask(opened'[e][v], answers)
  <2>1. CASE e = d /\ v = u
    <3>1. opened'[e][v] = task
      BY <1>2, <1>3, <2>1
    <3> QED BY <1>3, <1>5, <2>1, <3>1 DEF ReviewInv, DatasetInv
  <2>2. CASE ~(e = d /\ v = u)
    <3>1. opened'[e][v] = opened[e][v]
      BY <1>2, <1>3, <2>2
    <3> QED BY <1>5, <3>1 DEF ReviewInv, DatasetInv
  <2> QED BY <2>1, <2>2
<1>6. ReviewTypeOK'
  BY <1>1, <1>4 DEF ReviewInv, ReviewTypeOK
<1>7. DatasetInv'
  BY <1>1, <1>5 DEF ReviewInv, DatasetInv
<1>8. RepositoryInv' /\ ExportInv' /\ WebhookInv'
  BY <1>1 DEF ReviewInv, RepositoryInv, ExportInv, WebhookInv
<1> QED BY <1>6, <1>7, <1>8 DEF ReviewInv

LEMMA SubmitKeeps ==
  ASSUME ReviewInv, NEW u \in Reviewers, NEW d \in Batch, NEW o \in ReviewOutcomes,
         NEW c \in Decisions, Submit(u, d, o, c)
  PROVE  ReviewInv'
<1>0. PICK t \in {opened[d][u], tasks[d]} :
        webhooks' = webhooks \cup
          {[record |-> d, reviewer |-> u, at |-> answers + 1, outcome |-> o,
            decisions |-> c, task |-> t]}
  BY DEF Submit
<1> DEFINE a == [record |-> d, reviewer |-> u, at |-> answers + 1, outcome |-> o,
                 decisions |-> c, task |-> t]
<1>1. /\ answers' = answers + 1 /\ webhooks' = webhooks \cup {a} /\ opened[d][u] # NoTask
      /\ UNCHANGED <<records, tasks, opened, export>>
  BY <1>0 DEF Submit, Active
<1>2. answers \in Nat /\ answers' \in Nat /\ answers <= answers' /\ webhooks \subseteq Answers
  BY <1>1 DEF ReviewInv, ReviewTypeOK
<1>3. IsTask(t, answers)
  BY <1>1 DEF ReviewInv, DatasetInv
<1>4. a \in Answers /\ a.at = answers + 1 /\ a.task = t
  BY <1>2, <1>3 DEF Answers, IsTask
<1>5. ReviewTypeOK'
  BY <1>1, <1>2, <1>4 DEF ReviewInv, ReviewTypeOK
<1>6. RepositoryInv'
  BY <1>1, <1>2, RepositoryKept
<1>7. ASSUME NEW task, IsTask(task, answers) PROVE IsTask(task, answers')
  BY <1>2, <1>7, LaterDates DEF IsTask
<1>8. DatasetInv' /\ ExportInv'
  BY <1>1, <1>7 DEF ReviewInv, DatasetInv, ExportInv
<1>9. ASSUME NEW b \in webhooks' PROVE b.at <= answers' /\ b.at > 0 /\ IsTask(b.task, b.at - 1)
  <2>1. CASE b \in webhooks
    <3>1. b.at \in Nat /\ b.at <= answers /\ b.at > 0 /\ IsTask(b.task, b.at - 1)
      BY <1>2, <2>1, AnswerTypes DEF ReviewInv, WebhookInv
    <3> QED BY <1>2, <3>1
  <2>2. CASE b = a
    <3>1. b.at = answers' /\ b.at - 1 = answers /\ b.at > 0
      BY <1>1, <1>2, <1>4, <2>2
    <3> QED BY <1>2, <1>3, <1>4, <2>2, <3>1
  <2> QED BY <1>1, <2>1, <2>2
<1> QED BY <1>5, <1>6, <1>8, <1>9 DEF ReviewInv, WebhookInv

-----------------------------------------------------------------------------
(* The invariant, and what it implies. *)

LEMMA ReviewNextKeeps == ASSUME ReviewInv, [ReviewNext]_reviewVars PROVE ReviewInv'
<1>1. ASSUME NEW a \in webhooks, Apply(a) PROVE ReviewInv'
  BY <1>1, ApplyKeeps
<1>2. ASSUME NEW d \in Batch, NEW s \in Suggestions, Annotate(d, s) PROVE ReviewInv'
  BY <1>2, AnnotateKeeps
<1>3. CASE UNCHANGED reviewVars
  BY <1>3 DEF reviewVars, ReviewInv, ReviewTypeOK, RepositoryInv, DatasetInv, ExportInv, WebhookInv
<1>4. ASSUME NEW u \in Reviewers, NEW d \in Batch, Open(u, d) \/ Discard(u, d) PROVE ReviewInv'
  BY <1>4, ReviewersKeep
<1>5. ASSUME NEW u \in Reviewers, NEW d \in Batch, NEW o \in ReviewOutcomes, NEW c \in Decisions,
             Submit(u, d, o, c)
      PROVE  ReviewInv'
  BY <1>5, SubmitKeeps
<1> QED BY <1>1, <1>2, <1>3, <1>4, <1>5, ExportKeeps DEF ReviewNext

THEOREM ReviewInvariance == ReviewSpec => []ReviewInv
BY ReviewInitHolds, ReviewNextKeeps, PTL DEF ReviewSpec

\* Every variable of the review workflow always has its type.
THEOREM ReviewTypeCorrect == ReviewSpec => []ReviewTypeOK
<1>1. ReviewInv => ReviewTypeOK
  BY DEF ReviewInv
<1> QED BY <1>1, ReviewInvariance, PTL

\* However webhooks are repeated, delayed or reordered, no answer is applied to
\* a record twice: the dates of a record's reviews are all different.
THEOREM AppliedAtMostOnceAlways == ReviewSpec => []AppliedAtMostOnce
<1>1. ASSUME ReviewInv, NEW d \in Batch, NEW i \in DOMAIN records[d].reviews,
             NEW j \in DOMAIN records[d].reviews,
             records[d].reviews[i].at = records[d].reviews[j].at
      PROVE  i = j
  <2>1. records[d] \in WorkingRecords /\ Dated(records[d], answers)
    BY <1>1 DEF ReviewInv, ReviewTypeOK, RepositoryInv
  <2>2. \A k \in DOMAIN records[d].reviews : k \in Nat /\ records[d].reviews[k].at \in Nat
    BY <2>1, ReviewTypes
  <2>3. ~(i < j) /\ ~(j < i)
    BY <1>1, <2>1, <2>2 DEF Dated
  <2> QED BY <2>2, <2>3
<1>2. ReviewInv => AppliedAtMostOnce
  BY <1>1 DEF AppliedAtMostOnce
<1> QED BY <1>2, ReviewInvariance, PTL

LEMMA Prefixes ==
  ASSUME NEW s \in Seq(Reviews), NEW e \in Reviews, NEW i \in 1 .. Len(s) + 1
  PROVE  SubSeq(Append(s, e), 1, i - 1) = SubSeq(s, 1, i - 1)
         /\ (i = Len(s) + 1 => SubSeq(Append(s, e), 1, i - 1) = s)
OBVIOUS

\* The invariant is inductive: a webhook adds a review to the very record its
\* answer names, and an annotation run keeps all reviews or none.
LEMMA HistoryStep ==
  ASSUME ReviewInv, ReviewsBuildOnEachOther, [ReviewNext]_reviewVars
  PROVE  ReviewsBuildOnEachOther'
<1> DEFINE Answered(reviews, d, i) ==
      \E b \in webhooks : /\ b.record = d /\ reviews[i] = Attempt(b.task, b)
                          /\ b.task.reviews = SubSeq(reviews, 1, i - 1)
<1>1. ASSUME webhooks \subseteq webhooks',
             \A d \in Batch : \A i \in DOMAIN records'[d].reviews : Answered(records'[d].reviews, d, i)
      PROVE  ReviewsBuildOnEachOther'
  BY <1>1 DEF ReviewsBuildOnEachOther
<1>2. \A d \in Batch : \A i \in DOMAIN records[d].reviews : Answered(records[d].reviews, d, i)
  BY DEF ReviewsBuildOnEachOther
<1>3. ASSUME NEW a \in webhooks, Apply(a) PROVE ReviewsBuildOnEachOther'
  <2> DEFINE r == records[a.record]
             s == Append(r.reviews, Attempt(r, a))
  <2>1. r \in WorkingRecords /\ records \in [Batch -> WorkingRecords]
    BY <1>3, Applied DEF ReviewInv, ReviewTypeOK
  <2>2. /\ a.task = r /\ UNCHANGED webhooks /\ a \in Answers /\ a.record \in Batch
        /\ records' = [records EXCEPT ![a.record] = Reviewed(r, a)]
    BY <1>3, Applied
  <2>3. r.reviews \in Seq(Reviews) /\ Attempt(r, a) \in Reviews
    BY <2>1, <2>2, ReviewTypes, AnswerTypes DEF Attempt, Reviews
  <2>4. records'[a.record].reviews = s
    BY <2>1, <2>2 DEF Reviewed
  <2>5. ASSUME NEW i \in DOMAIN s PROVE Answered(s, a.record, i)
    <3>1. i \in 1 .. Len(r.reviews) + 1
      BY <2>3
    <3>2. SubSeq(s, 1, i - 1) = SubSeq(r.reviews, 1, i - 1)
      BY <2>3, <3>1, Prefixes
    <3>3. CASE i = Len(r.reviews) + 1
      <4>1. s[i] = Attempt(r, a) /\ SubSeq(s, 1, i - 1) = r.reviews
        BY <2>3, <3>1, <3>3, Prefixes
      <4> QED BY <2>2, <4>1
    <3>4. CASE i # Len(r.reviews) + 1
      <4>1. i \in DOMAIN r.reviews /\ s[i] = r.reviews[i]
        BY <2>3, <3>1, <3>4
      <4>2. Answered(r.reviews, a.record, i)
        BY <1>2, <2>2, <4>1
      <4> QED BY <3>2, <4>1, <4>2
    <3> QED BY <3>3, <3>4
  <2>6. \A d \in Batch : d # a.record => records'[d].reviews = records[d].reviews
    BY <2>1, <2>2
  <2>7. ASSUME NEW d \in Batch, NEW i \in DOMAIN records'[d].reviews
        PROVE  Answered(records'[d].reviews, d, i)
    <3>1. CASE d = a.record
      <4> HIDE DEF s, r, Answered
      <4> QED BY <2>4, <2>5, <3>1
    <3>2. CASE d # a.record
      <4> HIDE DEF s, r, Answered
      <4> QED BY <1>2, <2>6, <3>2
    <3> QED BY <3>1, <3>2
  <2> QED BY ONLY <1>1, <2>2, <2>7
<1>4. ASSUME NEW e \in Batch, NEW q \in Suggestions, Annotate(e, q) PROVE ReviewsBuildOnEachOther'
  <2>1. \A d \in Batch : records'[d].reviews = records[d].reviews \/ records'[d].reviews = <<>>
    <3>1. records \in [Batch -> WorkingRecords] /\ \A c : Unreviewed(q, c).reviews = <<>>
      BY DEF ReviewInv, ReviewTypeOK, Unreviewed
    <3>2. CASE records' = [records EXCEPT ![e].suggestions = q]
      BY <3>1, <3>2 DEF WorkingRecords
    <3>3. CASE \E c \in Decisions : records' = [records EXCEPT ![e] = Unreviewed(q, c)]
      BY <3>1, <3>3
    <3> QED BY <1>4, <3>2, <3>3 DEF Annotate
  <2>2. DOMAIN <<>> = {} /\ UNCHANGED webhooks
    BY <1>4 DEF Annotate, argilla
  <2> QED BY <1>1, <1>2, <2>1, <2>2
<1>5. ASSUME UNCHANGED records, webhooks \subseteq webhooks' PROVE ReviewsBuildOnEachOther'
  BY <1>1, <1>2, <1>5
<1> QED BY <1>3, <1>4, <1>5
     DEF ReviewNext, reviewVars, argilla, BeginExport, Load, Build, Log, Open, Discard, Submit

\* Whatever happens to suggestions and tasks, every review of a record was given
\* on exactly the reviews that stand before it.
THEOREM ReviewsBuildOnEachOtherAlways == ReviewSpec => []ReviewsBuildOnEachOther
<1>1. ReviewInit => ReviewsBuildOnEachOther
  <2>1. ASSUME ReviewInit, NEW d \in Batch PROVE DOMAIN records[d].reviews = {}
    BY <2>1, UnreviewedIsValid DEF ReviewInit
  <2> QED BY <2>1 DEF ReviewsBuildOnEachOther
<1> QED BY <1>1, HistoryStep, ReviewInvariance, PTL DEF ReviewSpec

\* A webhook changes no record that a review has passed or rejected; annotation
\* runs change its suggestions, or save a new record in its place.
THEOREM AdjudicationIsFinalAlways == ReviewSpec => AdjudicationIsFinal
<1> DEFINE Kept(d) ==
             records'[d] = [records[d] EXCEPT !.suggestions = records'[d].suggestions]
           Anew(d) ==
             \E c \in Decisions : records'[d] = Unreviewed(records'[d].suggestions, c)
           Step == \A d \in Batch : records[d].status # "REVIEW_REQUIRED" =>
                     \/ Kept(d)
                     \/ Anew(d)
<1>1. ASSUME NEW d \in Batch, ReviewInv, records'[d] = records[d] PROVE Kept(d)
  BY <1>1 DEF ReviewInv, ReviewTypeOK, WorkingRecords
<1>2. ASSUME ReviewInv, NEW a \in webhooks, Apply(a) PROVE Step
  <2>1. \A d \in Batch : records[d].status # "REVIEW_REQUIRED" => records'[d] = records[d]
    BY <1>2, Applied DEF ReviewInv, ReviewTypeOK
  <2> QED BY <1>1, <1>2, <2>1
<1>3. ASSUME ReviewInv, NEW e \in Batch, NEW s \in Suggestions, Annotate(e, s) PROVE Step
  <2>1. CASE records' = [records EXCEPT ![e].suggestions = s]
    <3>1. ASSUME NEW d \in Batch PROVE Kept(d)
      BY <1>3, <2>1 DEF ReviewInv, ReviewTypeOK, WorkingRecords
    <3> QED BY <3>1
  <2>2. ASSUME NEW c \in Decisions, records' = [records EXCEPT ![e] = Unreviewed(s, c)] PROVE Step
    <3>1. ASSUME NEW d \in Batch PROVE records'[d] = records[d] \/ Anew(d)
      BY <1>3, <2>2 DEF ReviewInv, ReviewTypeOK, Unreviewed
    <3> QED BY <1>1, <1>3, <3>1
  <2> QED BY <1>3, <2>1, <2>2 DEF Annotate
<1>4. ASSUME ReviewInv, UNCHANGED records PROVE Step
  BY <1>1, <1>4
<1>5. ASSUME ReviewInv, [ReviewNext]_reviewVars PROVE Step
  BY <1>2, <1>3, <1>4, <1>5
     DEF ReviewNext, reviewVars, argilla, BeginExport, Load, Build, Log, Open, Discard, Submit
<1> QED BY <1>5, ReviewInvariance, PTL DEF ReviewSpec, AdjudicationIsFinal

\* An allowed answer to the record as it is now, with every type decided if it
\* would pass, is applied: its date and the review chain never stand in its way.
THEOREM NoCurrentAnswerRefusedAlways == ReviewSpec => []NoCurrentAnswerRefused
<1>1. ASSUME ReviewInv, NEW a \in webhooks, a.task = records[a.record], Allowed(a),
             StatusAfter(a.outcome) = "PASS" => a.decisions \notin Undecided
      PROVE  /\ Applicable(records[a.record], a)
             /\ Valid(Reviewed(records[a.record], a))
  <2> DEFINE r == records[a.record]
             s == Append(r.reviews, Attempt(r, a))
             c == Reviewed(r, a)
  <2>1. a \in Answers /\ r \in WorkingRecords /\ Dated(r, a.at - 1) /\ Reviewable(r)
    BY <1>1, AnswerTypes DEF ReviewInv, ReviewTypeOK, WebhookInv, IsTask
  <2>2. /\ r.reviews \in Seq(Reviews) /\ Len(r.reviews) \in Nat /\ a.at \in Nat
        /\ \A i \in DOMAIN r.reviews : r.reviews[i].at \in Nat /\ r.reviews[i].at < a.at
    BY <2>1, ReviewTypes, AnswerTypes DEF Dated
  <2>3. ~Duplicate(r, a)
    <3>1. SUFFICES ASSUME r.reviews # <<>> PROVE Last(r) # Attempt(a.task, a)
      BY DEF Duplicate
    <3>2. Len(r.reviews) \in DOMAIN r.reviews
      BY <2>2, <3>1
    <3>3. Last(r).at < a.at /\ Last(r).at \in Nat
      BY <2>2, <3>2 DEF Last
    <3> QED BY <2>2, <3>3 DEF Attempt
  <2>4. /\ Dated(c, a.at) /\ c \in WorkingRecords /\ c.reviews = s /\ Last(c) = Attempt(r, a)
        /\ c.decisions = a.decisions /\ c.status = StatusAfter(a.outcome)
    BY <2>1, ReviewedIsDated DEF Reviewed
  <2>5. /\ Len(s) = Len(r.reviews) + 1 /\ s[Len(s)] = Attempt(r, a)
        /\ \A i \in DOMAIN r.reviews : s[i] = r.reviews[i]
    BY <2>1, <2>4, ReviewedIsDated DEF Last
  <2> HIDE DEF s
  <2>6. \A i, j \in DOMAIN s : i < j => s[i].at <= s[j].at
    <3>1. \A i \in DOMAIN s : s[i].at \in Nat
      BY <2>4, ReviewTypes
    <3>2. \A i, j \in DOMAIN s : i < j => s[i].at < s[j].at
      BY <2>4 DEF Dated
    <3> QED BY <3>1, <3>2
  <2>7. ASSUME NEW i \in DOMAIN s
        PROVE  s[i].after = IF i = Len(s) THEN c.decisions ELSE s[i + 1].before
    <3>1. CASE i = Len(s)
      BY <2>4, <2>5, <3>1 DEF Attempt
    <3>2. CASE i # Len(s)
      <4>1. i \in DOMAIN r.reviews /\ i \in Nat
        <5>1. s \in Seq(Reviews)
          BY <2>4, ReviewTypes
        <5>2. i \in 1..Len(r.reviews) + 1
          BY <2>5, <5>1
        <5> QED BY <2>2, <2>5, <3>2, <5>2
      <4>2. r.reviews[i].after =
              IF i = Len(r.reviews) THEN r.decisions ELSE r.reviews[i + 1].before
        BY <2>1, <4>1 DEF Reviewable, Valid, Chained
      <4>3. CASE i = Len(r.reviews)
        BY <2>5, <3>2, <4>1, <4>2, <4>3 DEF Attempt
      <4>4. CASE i # Len(r.reviews)
        <5>1. i + 1 \in DOMAIN r.reviews
          BY <2>2, <4>1, <4>4
        <5> QED BY <2>5, <3>2, <4>1, <4>2, <4>4, <5>1
      <4> QED BY <4>3, <4>4
    <3> QED BY <3>1, <3>2
  <2>8. c.status = "PASS" => Last(c).outcome \in {"ACCEPT", "MODIFY"}
    BY <2>4 DEF StatusAfter, Attempt
  <2>9. Valid(c)
    BY <1>1, <2>4, <2>6, <2>7, <2>8 DEF Valid, Chained
  <2> QED BY <1>1, <2>1, <2>3, <2>9 DEF Applicable
<1>2. ReviewInv => NoCurrentAnswerRefused
  BY <1>1 DEF NoCurrentAnswerRefused
<1> QED BY <1>2, ReviewInvariance, PTL

-----------------------------------------------------------------------------
(***************************************************************************)
(* Proofs about DatasetRelease, for any records, plans and calls, and any  *)
(* number of failures. The argument: every file anywhere was computed from *)
(* a dataset that some call compiled (Known), and a manifest still shows   *)
(* which one, whatever is overwritten afterwards; and while nobody has     *)
(* written from outside, the version holds nothing or all the files of one *)
(* known dataset, which no rename replaces.                                *)
(***************************************************************************)


-----------------------------------------------------------------------------
(* Compilation. *)

LEMMA CompiledParts ==
  ASSUME NEW ds \in Compiled
  PROVE  \E rs \in SUBSET Records, plan \in Plans, guideline \in Guidelines,
            canonical \in [Documents -> Contents \cup {NoDocument}] :
           Compiles(rs, canonical, plan, guideline)
           /\ ds = Dataset(rs, canonical, plan, guideline)
BY DEF Compiled

\* What holds of the cases of a compiled dataset.
CasesSound(cases) ==
  \A c \in cases :
    /\ c.split \in Splits
    /\ \A r \in c.records :
         \A d \in cases : \A q \in d.records :
           /\ \/ SourceOf[r].family = SourceOf[q].family
              \/ SourceOf[r].content = SourceOf[q].content
              => c.split = d.split
           /\ SourceOf[r].document = SourceOf[q].document => c = d

LEMMA CompiledIsSound == ASSUME NEW ds \in Compiled PROVE CasesSound(ds.cases)
<1>1. PICK rs \in SUBSET Records, plan \in Plans, guideline \in Guidelines,
           canonical \in [Documents -> Contents \cup {NoDocument}] :
         Compiles(rs, canonical, plan, guideline)
         /\ ds = Dataset(rs, canonical, plan, guideline)
  BY CompiledParts
<1> DEFINE Case(r) == CaseOf(r, rs, canonical, plan)
<1>2. ds.cases = {Case(r) : r \in rs}
  BY <1>1 DEF Dataset
<1>3. ASSUME NEW o \in rs PROVE Case(o).split \in Splits
  <2>1. Group(o) \in Groups
    BY RecordsAssumption DEF Group, Sources
  <2>2. plan[Group(o)] # Unassigned /\ plan \in [Groups -> Splits \cup {Unassigned}]
    BY <1>1, RecordsAssumption DEF Compiles, SplitsResolve
  <2> QED BY <2>1, <2>2 DEF CaseOf
<1>4. ASSUME NEW o \in rs, NEW r \in Case(o).records
      PROVE  /\ r \in rs /\ SourceOf[r].document = SourceOf[o].document
             /\ Group(r) = Group(o)
  <2>1. r \in rs /\ SourceOf[r].document = SourceOf[o].document
    BY DEF CaseOf
  <2>2. Group(r) = Group(o)
    BY <1>1, <2>1 DEF Compiles, SplitsResolve, Topological
  <2> QED BY <2>1, <2>2
<1>5. ASSUME NEW o \in rs, NEW p \in rs,
             NEW r \in Case(o).records, NEW q \in Case(p).records
      PROVE  /\ \/ SourceOf[r].family = SourceOf[q].family
                \/ SourceOf[r].content = SourceOf[q].content
                => Case(o).split = Case(p).split
             /\ SourceOf[r].document = SourceOf[q].document => Case(o) = Case(p)
  <2>1. /\ r \in rs /\ Group(r) = Group(o) /\ SourceOf[r].document = SourceOf[o].document
        /\ q \in rs /\ Group(q) = Group(p) /\ SourceOf[q].document = SourceOf[p].document
    BY <1>4
  <2>2. Topological(rs)
    BY <1>1 DEF Compiles, SplitsResolve
  <2>3. \/ SourceOf[r].family = SourceOf[q].family
        \/ SourceOf[r].content = SourceOf[q].content
        \/ SourceOf[r].document = SourceOf[q].document
        => Group(o) = Group(p)
    BY <2>1, <2>2 DEF Topological
  <2> QED BY <2>1, <2>3 DEF CaseOf
<1> HIDE DEF Case
<1> QED BY <1>2, <1>3, <1>4, <1>5 DEF CasesSound

-----------------------------------------------------------------------------
(* Files. *)

ManifestWith(ds, artifacts, plan, guideline) ==
  [kind |-> "manifest", artifacts |-> artifacts, whole |-> Artifacts(ds),
   corpus |-> SourceCorpus(ds.cases), plan |-> plan, guideline |-> guideline]

\* The manifest of a dataset, but for its entries of the split files, its plan
\* and its guideline.
IsManifestOf(m, ds) ==
  /\ m = ManifestWith(ds, m.artifacts, m.plan, m.guideline)
  /\ m.artifacts = [s \in Splits |-> m.artifacts[s]]

SoundFile(file, known) ==
  /\ file.kind = "manifest" => \E ds \in known : IsManifestOf(file, ds)
  /\ file.kind = "split" => file = SplitFile(file.cases, file.metadata)

SoundFiles(files, known) ==
  files = [x \in Files |-> files[x]] /\ \A x \in Files : SoundFile(files[x], known)

SoundEntry(entry, known) ==
  \/ entry \in {Nothing, OtherFile}
  \/ entry = Directory(entry.files) /\ SoundFiles(entry.files, known)

LEMMA EntriesStaySound ==
  ASSUME NEW K, NEW L, K \subseteq L, NEW e, SoundEntry(e, K)
  PROVE  SoundEntry(e, L)
BY DEF SoundEntry, SoundFiles, SoundFile

LEMMA Kinds ==
  /\ Nothing.kind = "nothing" /\ OtherFile.kind = "file" /\ Unread.kind = "unread"
  /\ NoFile.kind = "none" /\ Junk.kind = "junk" /\ Unreadable.kind = "unreadable"
  /\ \A files : Directory(files).kind = "directory" /\ Directory(files).files = files
BY DEF Nothing, OtherFile, Unread, Unreadable, NoFile, Junk, Directory

LEMMA OtherFilesAreSound ==
  ASSUME NEW K
  PROVE  /\ SoundFile(NoFile, K) /\ SoundFile(Junk, K)
         /\ SoundFile(Unread, K) /\ SoundFile(Unreadable, K)
BY DEF SoundFile, NoFile, Junk, Unread, Unreadable

LEMMA SplitsAreFiles == Splits \subseteq Files /\ "manifest" \in Files /\ "manifest" \notin Splits
BY DEF Splits, Files

LEMMA SplitFileParts ==
  ASSUME NEW cases, NEW plan
  PROVE  /\ SplitFile(cases, plan).kind = "split" /\ SplitFile(cases, plan).cases = cases
         /\ SplitFile(cases, plan).metadata = plan
BY DEF SplitFile

LEMMA ManifestParts ==
  ASSUME NEW ds, NEW a, NEW plan, NEW guideline
  PROVE  /\ ManifestWith(ds, a, plan, guideline).kind = "manifest"
         /\ ManifestWith(ds, a, plan, guideline).artifacts = a
         /\ ManifestWith(ds, a, plan, guideline).whole = Artifacts(ds)
         /\ ManifestWith(ds, a, plan, guideline).corpus = SourceCorpus(ds.cases)
         /\ ManifestWith(ds, a, plan, guideline).plan = plan
         /\ ManifestWith(ds, a, plan, guideline).guideline = guideline
BY DEF ManifestWith

LEMMA FilesOfDataset ==
  ASSUME NEW ds
  PROVE  /\ FileOf(ds, "manifest") = Manifest(ds)
         /\ \A s \in Splits :
              FileOf(ds, s) = IF SplitCases(ds, s) = {} THEN NoFile
                           ELSE SplitFile(SplitCases(ds, s), ds.plan)
<1>1. FileOf(ds, "manifest") = Manifest(ds)
  BY SplitsAreFiles DEF FileOf, PresentSplits
<1>2. ASSUME NEW s \in Splits
      PROVE  FileOf(ds, s) = IF SplitCases(ds, s) = {} THEN NoFile
                           ELSE SplitFile(SplitCases(ds, s), ds.plan)
  <2>1. s # "manifest" /\ (s \in PresentSplits(ds) <=> SplitCases(ds, s) # {})
    BY SplitsAreFiles DEF PresentSplits
  <2> QED BY <2>1 DEF FileOf
<1> QED BY <1>1, <1>2

LEMMA WrittenFilesAreSound ==
  ASSUME NEW K, NEW ds \in K, NEW x \in Files
  PROVE  SoundFile(FileOf(ds, x), K)
<1>1. CASE x = "manifest"
  <2>1. FileOf(ds, x) = Manifest(ds)
    BY <1>1, FilesOfDataset
  <2>2. /\ Manifest(ds).kind = "manifest"
        /\ Manifest(ds) = ManifestWith(ds, Artifacts(ds), ds.plan, ds.guideline)
        /\ Manifest(ds).artifacts = Artifacts(ds) /\ Manifest(ds).plan = ds.plan
        /\ Manifest(ds).guideline = ds.guideline
    BY DEF ManifestWith, Manifest
  <2>3. Artifacts(ds) = [s \in Splits |-> Artifacts(ds)[s]]
    BY DEF Artifacts
  <2>4. IsManifestOf(Manifest(ds), ds)
    BY <2>2, <2>3 DEF IsManifestOf
  <2> QED BY <2>1, <2>2, <2>4 DEF SoundFile
<1>2. CASE x \in Splits
  <2>1. \A cases, plan : SoundFile(SplitFile(cases, plan), K)
    BY DEF SoundFile, SplitFile
  <2>2. FileOf(ds, x) = NoFile \/ FileOf(ds, x) = SplitFile(SplitCases(ds, x), ds.plan)
    BY <1>2, FilesOfDataset
  <2> QED BY <2>1, <2>2, OtherFilesAreSound
<1> QED BY <1>1, <1>2 DEF Files

\* What the verification accepts are the cases of the dataset of the manifest.
LEMMA VerifiedIsWhole ==
  ASSUME NEW K, NEW files, SoundFiles(files, K), Verifies(files)
  PROVE  \E ds \in K : Covered(files) = Covered(DirectoryOf(ds))
<1> DEFINE m == files["manifest"]
<1>1. PICK ds \in K : IsManifestOf(m, ds)
  BY SplitsAreFiles DEF Verifies, SoundFiles, SoundFile
<1>2. /\ m.whole = Artifacts(ds) /\ m.corpus = SourceCorpus(ds.cases)
      /\ m.artifacts = [s \in Splits |-> m.artifacts[s]]
  <2> HIDE DEF m
  <2> QED BY <1>1, ManifestParts DEF IsManifestOf
<1>3. ASSUME NEW s \in Splits
      PROVE  /\ CasesIn(files[s]) = m.artifacts[s]
             /\ m.artifacts[s] # {} => files[s].cases = m.artifacts[s]
  BY Kinds DEF Verifies, SplitVerifies, CasesIn
<1>4. ASSUME NEW s \in Splits PROVE m.artifacts[s] = m.whole[s]
  <2>1. m.whole = [t \in Splits |-> IF t \in {u \in Splits : m.artifacts[u] # {}}
                                    THEN files[t].cases ELSE {}]
    BY DEF Verifies, WholeVerifies
  <2> QED BY <1>3, <2>1
<1>5. m.artifacts = Artifacts(ds)
  BY <1>2, <1>4 DEF Artifacts
<1> DEFINE D == DirectoryOf(ds)
<1>6. D["manifest"].artifacts = Artifacts(ds) /\ D["manifest"].corpus = SourceCorpus(ds.cases)
  BY SplitsAreFiles, FilesOfDataset DEF DirectoryOf, Manifest
<1>7. ASSUME NEW s \in Splits PROVE CasesIn(D[s]) = CasesIn(files[s])
  <2>1. CasesIn(files[s]) = SplitCases(ds, s)
    BY <1>3, <1>5 DEF Artifacts
  <2>2. D[s] = IF SplitCases(ds, s) = {} THEN NoFile ELSE SplitFile(SplitCases(ds, s), ds.plan)
    BY SplitsAreFiles, FilesOfDataset DEF DirectoryOf
  <2>3. CasesIn(NoFile) = {} /\ \A cases, plan : CasesIn(SplitFile(cases, plan)) = cases
    BY DEF CasesIn, NoFile, SplitFile
  <2> HIDE DEF D
  <2> QED BY <2>1, <2>2, <2>3
<1> HIDE DEF m, D
<1>8. [s \in Splits |-> CasesIn(files[s])] = [s \in Splits |-> CasesIn(D[s])]
  BY <1>7
<1>9. Covered(files) = Covered(D)
  BY <1>2, <1>5, <1>6, <1>8 DEF Covered, m
<1> QED BY <1>9 DEF D

LEMMA WholeIsVerified ==
  ASSUME NEW ds, CasesSound(ds.cases)
  PROVE  Verifies(DirectoryOf(ds))
<1> DEFINE D == DirectoryOf(ds)
<1>1. D["manifest"] = Manifest(ds)
  BY SplitsAreFiles, FilesOfDataset DEF DirectoryOf
<1>2. Manifest(ds).kind = "manifest" /\ Manifest(ds).artifacts = Artifacts(ds)
      /\ Manifest(ds).whole = Artifacts(ds) /\ Manifest(ds).corpus = SourceCorpus(ds.cases)
  BY DEF Manifest
<1>3. ASSUME NEW s \in Splits
      PROVE  /\ Artifacts(ds)[s] = SplitCases(ds, s)
             /\ D[s] = IF SplitCases(ds, s) = {} THEN NoFile
                           ELSE SplitFile(SplitCases(ds, s), ds.plan)
  BY SplitsAreFiles, FilesOfDataset DEF Artifacts, DirectoryOf
<1> HIDE DEF D
<1>4. ASSUME NEW s \in Splits PROVE SplitVerifies(Manifest(ds), s, D[s])
  <2>1. \A c \in SplitCases(ds, s) : c.split = s
    BY DEF SplitCases
  <2>2. Manifest(ds).artifacts[s] = SplitCases(ds, s)
    BY <1>2, <1>3
  <2>3. CASE SplitCases(ds, s) = {}
    BY <1>3, <2>2, <2>3 DEF SplitVerifies
  <2>4. CASE SplitCases(ds, s) # {}
    <3>1. D[s].kind = "split" /\ D[s].cases = SplitCases(ds, s)
      BY <1>3, <2>4, SplitFileParts
    <3> QED BY <2>1, <2>2, <2>4, <3>1 DEF SplitVerifies
  <2> QED BY <2>3, <2>4
<1>5. WholeVerifies(Manifest(ds), D)
  <2> DEFINE declared == {s \in Splits : Manifest(ds).artifacts[s] # {}}
             actual == [s \in Splits |-> IF s \in declared THEN D[s].cases ELSE {}]
  <2>1. ASSUME NEW s \in Splits PROVE actual[s] = SplitCases(ds, s)
    BY <1>2, <1>3, SplitFileParts
  <2>2. actual = Artifacts(ds)
    BY <2>1 DEF Artifacts
  <2>3. UNION {actual[s] : s \in Splits} = ds.cases
    <3> HIDE DEF actual
    <3> QED BY <2>1 DEF SplitCases, CasesSound
  <2> QED BY <1>2, <2>2, <2>3 DEF WholeVerifies
<1> QED BY <1>1, <1>2, <1>4, <1>5 DEF Verifies, D
-----------------------------------------------------------------------------
(* The inductive invariant. *)

\* The datasets that calls have compiled.
Known == {dataset[f] : f \in {g \in Calls : pc[g] # "idle"}}

IsWhole(entry) == \E ds \in Known : entry = Directory(DirectoryOf(ds))

CallInv(f) ==
  /\ IF pc[f] = "idle" THEN dataset[f] = NoDataset ELSE dataset[f] \in Compiled
  /\ SoundEntry(temp[f], Known)
  /\ outcome[f] = "published" => pc[f] = "done"
  /\ damages = 0 /\ pc[f] = "reread" => Verifies(temp[f].files)
  /\ damages = 0 /\ pc[f] \in {"check", "rename"}
       => temp[f] = Directory(DirectoryOf(dataset[f]))

FinalInv ==
  /\ SoundEntry(final, Known)
  /\ damages = 0 => Vacant(final) \/ IsWhole(final)

ReadInv ==
  /\ SoundFiles(seen, Known)
  /\ seen["manifest"] \in {NoFile, Unreadable} => report # "none"
  /\ seen["manifest"] = Unread => \A x \in Files : seen[x] = Unread
  /\ damages = 0 /\ seen["manifest"] \notin {Unread, NoFile, Unreadable}
       => IsWhole(final) /\ \A x \in Files : seen[x] \in {Unread, Unreadable, final.files[x]}

Promises ==
  /\ LosersSeeARelease /\ PublishedIsWhole /\ (damages = 0 => OneWinner)
  /\ ValidReportsAreTrue /\ IntactReleasesVerify

IInv == TypeOK /\ (\A f \in Calls : CallInv(f)) /\ FinalInv /\ ReadInv /\ Promises

LEMMA WholeParts ==
  ASSUME NEW ds, NEW entry, entry = Directory(DirectoryOf(ds))
  PROVE  /\ ~Vacant(entry) /\ entry.kind = "directory" /\ entry.files = DirectoryOf(ds)
         /\ entry.files["manifest"].kind = "manifest"
<1>1. entry.kind = "directory" /\ entry.files = DirectoryOf(ds)
  BY Kinds
<1>2. DirectoryOf(ds)["manifest"] = Manifest(ds) /\ Manifest(ds).kind = "manifest"
  BY SplitsAreFiles, FilesOfDataset DEF DirectoryOf, Manifest
<1>3. EmptyDirectory["manifest"] = NoFile
  BY SplitsAreFiles DEF EmptyDirectory
<1>4. Directory(EmptyDirectory).files # entry.files
  BY <1>1, <1>2, <1>3, Kinds
<1> QED BY <1>1, <1>2, <1>4, Kinds DEF Vacant

LEMMA InitInv == ASSUME Init PROVE IInv
<1>1. TypeOK
  BY ReleaseAssumption, Kinds DEF Init, TypeOK, Steps, Outcomes
<1>2. ASSUME NEW f \in Calls PROVE CallInv(f)
  BY DEF Init, CallInv, SoundEntry
<1>3. FinalInv
  BY DEF Init, FinalInv, SoundEntry, Vacant
<1>4. ReadInv
  <2>1. \A x \in Files : seen[x] = Unread
    BY DEF Init
  <2> QED BY <2>1, OtherFilesAreSound, Kinds, SplitsAreFiles DEF Init, ReadInv, SoundFiles
<1>5. Promises
  BY DEF Init, Promises, LosersSeeARelease, PublishedIsWhole, OneWinner, Renamed,
         ValidReportsAreTrue, IntactReleasesVerify
<1> QED BY <1>1, <1>2, <1>3, <1>4, <1>5 DEF IInv

\* Datasets are compiled once and stay known.
LEMMA KnownGrows ==
  ASSUME \A g \in Calls : pc[g] # "idle" => pc'[g] # "idle" /\ dataset'[g] = dataset[g]
  PROVE  Known \subseteq Known'
BY DEF Known

-----------------------------------------------------------------------------
(* A step of a call that is under way and publishes nothing. *)

Elsewhere == UNCHANGED <<dataset, final, readVars, damages>>

Counts == todo' \in [Calls -> SUBSET Files] /\ faults' \in 0 .. MaxFaults

\* The temporary directories of other calls are left alone.
OwnTemp(f) ==
  /\ DOMAIN temp' = Calls /\ \A g \in Calls \ {f} : temp'[g] = temp[g]
  /\ temp'[f].kind \in {"nothing", "directory"} /\ SoundEntry(temp'[f], Known)

LEMMA PrivateStep ==
  ASSUME IInv, Elsewhere, NEW f \in Calls, pc[f] # "idle",
         NEW p \in Steps \ {"idle"}, pc' = [pc EXCEPT ![f] = p],
         NEW o \in Outcomes, outcome' = [outcome EXCEPT ![f] = o],
         Counts, OwnTemp(f),
         damages = 0 /\ p = "reread" => Verifies(temp'[f].files),
         damages = 0 /\ p \in {"check", "rename"}
           => temp'[f] = Directory(DirectoryOf(dataset[f])),
         o = "published" => p = "done" /\ Renamed(f),
         p # "return",
         o = "alreadyFrozen" => Exists
  PROVE  IInv'
<1>1. /\ pc' \in [Calls -> Steps] /\ pc'[f] = p /\ \A g \in Calls \ {f} : pc'[g] = pc[g]
      /\ outcome' \in [Calls -> Outcomes] /\ outcome'[f] = o
      /\ \A g \in Calls \ {f} : outcome'[g] = outcome[g]
  BY DEF IInv, TypeOK
<1>2. Known' = Known
  BY <1>1 DEF Known, Elsewhere
<1>3. TypeOK'
  BY <1>1 DEF IInv, TypeOK, Elsewhere, readVars, Counts, OwnTemp
<1>4. CallInv(f)'
  BY <1>1, <1>2 DEF IInv, CallInv, Elsewhere, OwnTemp
<1>5. ASSUME NEW g \in Calls \ {f} PROVE CallInv(g)'
  BY <1>1, <1>2 DEF IInv, CallInv, Elsewhere, OwnTemp
<1>6. FinalInv' /\ ReadInv'
  BY <1>2 DEF IInv, FinalInv, ReadInv, IsWhole, Vacant, Elsewhere, readVars
<1>7. \A g \in Calls : Renamed(g)' => Renamed(g)
  BY <1>1 DEF Renamed
<1>8. LosersSeeARelease'
  BY <1>1 DEF IInv, Promises, LosersSeeARelease, Exists, Elsewhere
<1>9. PublishedIsWhole' /\ (damages = 0 => OneWinner)'
  BY <1>7 DEF IInv, Promises, PublishedIsWhole, OneWinner, Elsewhere
<1>10. ValidReportsAreTrue' /\ IntactReleasesVerify'
  BY <1>1 DEF IInv, Promises, ValidReportsAreTrue, IntactReleasesVerify, Elsewhere, readVars
<1> QED BY <1>3, <1>4, <1>5, <1>6, <1>8, <1>9, <1>10 DEF IInv, Promises
LEMMA OutcomeStays ==
  ASSUME IInv, NEW f \in Calls, pc[f] \notin {"idle", "done"}
  PROVE  /\ outcome = [outcome EXCEPT ![f] = outcome[f]] /\ outcome[f] \in Outcomes
         /\ outcome[f] # "published" /\ (outcome[f] = "alreadyFrozen" => Exists)
BY DEF IInv, TypeOK, CallInv, Promises, LosersSeeARelease

LEMMA TempStays == ASSUME IInv, NEW f \in Calls, UNCHANGED temp PROVE OwnTemp(f)
BY DEF IInv, TypeOK, CallInv, OwnTemp

LEMMA Counted ==
  ASSUME IInv, UNCHANGED todo, UNCHANGED faults \/ Fault PROVE Counts
BY ReleaseAssumption DEF IInv, TypeOK, Fault, Counts

\* The call moves on, and its outcome stays as it is.
LEMMA StepOn ==
  ASSUME IInv, Elsewhere, NEW f \in Calls, pc[f] \notin {"idle", "done"},
         NEW p \in Steps \ {"idle", "return"}, pc' = [pc EXCEPT ![f] = p],
         UNCHANGED outcome, Counts, OwnTemp(f),
         damages = 0 /\ p = "reread" => Verifies(temp'[f].files),
         damages = 0 /\ p \in {"check", "rename"}
           => temp'[f] = Directory(DirectoryOf(dataset[f]))
  PROVE  IInv'
BY OutcomeStays, PrivateStep

\* The call ends, or is abandoned, with an answer other than "published".
LEMMA StepOut ==
  ASSUME IInv, Elsewhere, NEW f \in Calls, pc[f] # "idle",
         NEW o \in Outcomes \ {"published"}, Abandon(f, o) \/ Ends(f, o),
         o = "alreadyFrozen" => Exists, Counts, OwnTemp(f)
  PROVE  IInv'
<1>1. outcome' = [outcome EXCEPT ![f] = o]
  BY DEF Abandon, Ends
<1>2. PICK p \in {"cleanup", "done"} : pc' = [pc EXCEPT ![f] = p]
  BY DEF Abandon, Ends, Goes
<1>3. p \in Steps \ {"idle"} /\ p \notin {"reread", "check", "rename", "return"}
  BY DEF Steps
<1> QED BY <1>1, <1>2, <1>3, PrivateStep

LEMMA RefuseKeeps == ASSUME IInv, NEW f \in Calls, Refuse(f) PROVE IInv'
<1>1. pc[f] # "idle" /\ Ends(f, "refused") /\ Elsewhere
      /\ UNCHANGED temp /\ UNCHANGED todo /\ UNCHANGED faults
  BY DEF Refuse, Elsewhere
<1>2. "refused" \in Outcomes \ {"published"} /\ "refused" # "alreadyFrozen"
  BY DEF Outcomes
<1> QED BY <1>1, <1>2, TempStays, Counted, StepOut

LEMMA BeginFreezeKeeps == ASSUME IInv, NEW f \in Calls, BeginFreeze(f) PROVE IInv'
<1>1. pc[f] \notin {"idle", "done"} /\ Elsewhere
  BY DEF BeginFreeze, Elsewhere
<1>2. CASE \E o \in {"alreadyFrozen", "writeError"} :
             /\ Ends(f, o) /\ (o = "alreadyFrozen" => Exists)
             /\ UNCHANGED <<temp, todo>> /\ (UNCHANGED faults \/ Fault)
  <2>1. PICK o \in {"alreadyFrozen", "writeError"} :
             /\ Ends(f, o) /\ (o = "alreadyFrozen" => Exists)
             /\ UNCHANGED <<temp, todo>> /\ (UNCHANGED faults \/ Fault)
    BY <1>2
  <2>2. o \in Outcomes \ {"published"} /\ UNCHANGED temp /\ UNCHANGED todo
    BY <2>1 DEF Outcomes
  <2> QED BY <1>1, <2>1, <2>2, TempStays, Counted, StepOut
<1>3. CASE /\ ~Exists
           /\ temp' = [temp EXCEPT ![TempOf(f)] = Directory(EmptyDirectory)]
           /\ todo' = [todo EXCEPT ![f] = PresentSplits(dataset[f]) \cup {"manifest"}]
           /\ Goes(f, "write")
           /\ UNCHANGED <<outcome, faults>>
  <2>1. SoundEntry(Directory(EmptyDirectory), Known)
    BY Kinds, OtherFilesAreSound DEF SoundEntry, SoundFiles, EmptyDirectory
  <2>2. OwnTemp(f)
    BY <1>3, <2>1, Kinds DEF IInv, TypeOK, TempOf, OwnTemp
  <2>3. PresentSplits(dataset[f]) \cup {"manifest"} \in SUBSET Files
    BY SplitsAreFiles DEF PresentSplits
  <2>4. Counts
    BY <1>3, <2>3 DEF IInv, TypeOK, Counts
  <2> QED BY <1>1, <1>3, <2>2, <2>4, StepOn DEF Goes, Steps
<1> QED BY <1>2, <1>3 DEF BeginFreeze

\* A file is put into a temporary directory.
LEMMA PutFile ==
  ASSUME IInv, NEW f \in Calls, NEW x \in Files, HasTemp(f), NEW file, SoundFile(file, Known),
         temp' = [temp EXCEPT ![TempOf(f)].files[x] = file]
  PROVE  OwnTemp(f)
<1>1. /\ temp[f] = Directory(temp[f].files) /\ SoundFiles(temp[f].files, Known)
      /\ DOMAIN temp = Calls
  BY Kinds DEF IInv, TypeOK, CallInv, SoundEntry, HasTemp, TempOf
<1> DEFINE files == [temp[f].files EXCEPT ![x] = file]
<1>2. temp'[f] = [temp[f] EXCEPT !.files = files] /\ DOMAIN temp' = Calls
      /\ \A g \in Calls \ {f} : temp'[g] = temp[g]
  BY <1>1 DEF TempOf
<1>3. [temp[f] EXCEPT !.files = files] = Directory(files)
  BY <1>1 DEF Directory
<1>4. SoundFiles(files, Known)
  BY <1>1 DEF SoundFiles
<1> HIDE DEF files
<1>5. temp'[f] = Directory(files)
  BY <1>2, <1>3, Zenon
<1>7. temp'[f].files = files /\ temp'[f].kind = "directory"
  BY <1>5, Kinds, Zenon
<1>6. SoundEntry(temp'[f], Known)
  BY <1>4, <1>5, <1>7 DEF SoundEntry
<1> QED BY <1>2, <1>6, <1>7 DEF OwnTemp

LEMMA WriteFileKeeps == ASSUME IInv, NEW f \in Calls, NEW x \in Files, WriteFile(f, x) PROVE IInv'
<1>1. pc[f] \notin {"idle", "done"} /\ Elsewhere /\ dataset[f] \in Known
  BY DEF WriteFile, Elsewhere, Known
<1>2. "writeError" \in Outcomes \ {"published"} /\ "writeError" # "alreadyFrozen"
  BY DEF Outcomes
<1>3. CASE /\ IsFree(f, x)
           /\ temp' = [temp EXCEPT ![TempOf(f)].files[x] = FileOf(dataset[f], x)]
           /\ todo' = [todo EXCEPT ![f] = @ \ {x}]
           /\ Goes(f, IF todo[f] = {x} THEN "verify" ELSE "write")
           /\ UNCHANGED <<outcome, faults>>
  <2>1. SoundFile(FileOf(dataset[f], x), Known) /\ HasTemp(f)
    BY <1>1, <1>3, WrittenFilesAreSound DEF IsFree
  <2>2. OwnTemp(f)
    BY <1>3, <2>1, PutFile
  <2>3. Counts
    BY <1>3 DEF IInv, TypeOK, Counts
  <2>4. PICK p \in {"verify", "write"} : pc' = [pc EXCEPT ![f] = p]
    BY <1>3 DEF Goes
  <2>5. p \in Steps \ {"idle", "return"} /\ p \notin {"reread", "check", "rename"}
    BY DEF Steps
  <2> QED BY <1>1, <1>3, <2>2, <2>3, <2>4, <2>5, StepOn
<1>4. CASE /\ Abandon(f, "writeError") /\ UNCHANGED <<temp, todo>>
           /\ UNCHANGED faults \/ Fault
  <2>1. UNCHANGED temp /\ UNCHANGED todo
    BY <1>4
  <2> QED BY <1>1, <1>2, <1>4, <2>1, TempStays, Counted, StepOut
<1>5. CASE /\ IsFree(f, x) /\ Fault /\ Abandon(f, "writeError")
           /\ temp' = [temp EXCEPT ![TempOf(f)].files[x] = Junk]
           /\ UNCHANGED todo
  <2>1. OwnTemp(f)
    BY <1>5, OtherFilesAreSound, PutFile DEF IsFree
  <2> QED BY <1>1, <1>2, <1>5, <2>1, Counted, StepOut
<1> QED BY <1>3, <1>4, <1>5 DEF WriteFile

LEMMA VerifyCandidateKeeps == ASSUME IInv, NEW f \in Calls, VerifyCandidate(f) PROVE IInv'
<1>1. /\ pc[f] \notin {"idle", "done"} /\ Elsewhere /\ UNCHANGED todo /\ UNCHANGED temp
      /\ UNCHANGED faults \/ Fault
  BY DEF VerifyCandidate, Elsewhere
<1>2. Counts /\ OwnTemp(f)
  BY <1>1, TempStays, Counted
<1>3. CASE Abandon(f, "verificationError")
  <2>1. "verificationError" \in Outcomes \ {"published"} /\ "verificationError" # "alreadyFrozen"
    BY DEF Outcomes
  <2> QED BY <1>1, <1>2, <1>3, <2>1, StepOut
<1>4. CASE HasTemp(f) /\ Verifies(TempFiles(f)) /\ Goes(f, "reread") /\ UNCHANGED outcome
  <2>1. Verifies(temp'[f].files)
    BY <1>1, <1>4 DEF TempFiles, TempOf
  <2> QED BY <1>1, <1>2, <1>4, <2>1, StepOn DEF Goes, Steps
<1> QED BY <1>3, <1>4 DEF VerifyCandidate

\* Files that verify, and of which the declared ones are those of the dataset,
\* are its files and no others.
LEMMA RereadIsWhole ==
  ASSUME IInv, NEW f \in Calls, damages = 0, pc[f] = "reread",
         \A x \in PresentSplits(dataset[f]) \cup {"manifest"} : Rereads(f, x) /\ ~Differs(f, x)
  PROVE  temp[f] = Directory(DirectoryOf(dataset[f]))
<1> DEFINE files == temp[f].files
           ds == dataset[f]
<1>1. temp[f] = Directory(files) /\ SoundFiles(files, Known) /\ Verifies(files)
  BY SplitsAreFiles, Kinds DEF IInv, CallInv, SoundEntry, Rereads, HasTemp, TempOf
<1>2. \A x \in PresentSplits(ds) \cup {"manifest"} : files[x] = FileOf(ds, x)
  BY DEF Rereads, Differs, TempFiles, TempOf
<1>3. files["manifest"].artifacts = Artifacts(ds)
  BY <1>2, FilesOfDataset DEF Manifest
<1>4. ASSUME NEW s \in Splits, s \notin PresentSplits(ds) PROVE files[s] = FileOf(ds, s)
  <2>1. SplitCases(ds, s) = {} /\ FileOf(ds, s) = NoFile
    BY <1>4, FilesOfDataset DEF PresentSplits
  <2>2. files["manifest"].artifacts[s] = {}
    BY <1>3, <2>1 DEF Artifacts
  <2> QED BY <1>1, <2>1, <2>2 DEF Verifies, SplitVerifies
<1>5. ASSUME NEW x \in Files PROVE files[x] = FileOf(ds, x)
  BY <1>2, <1>4 DEF Files
<1> HIDE DEF files, ds
<1>6. [x \in Files |-> files[x]] = DirectoryOf(ds)
  BY <1>5 DEF DirectoryOf
<1> QED BY <1>1, <1>6 DEF SoundFiles, ds

LEMMA RereadCandidateKeeps == ASSUME IInv, NEW f \in Calls, RereadCandidate(f) PROVE IInv'
<1>1. /\ pc[f] = "reread" /\ Elsewhere /\ UNCHANGED todo /\ UNCHANGED temp
      /\ UNCHANGED faults \/ Fault
  BY DEF RereadCandidate, Elsewhere
<1>2. Counts /\ OwnTemp(f)
  BY <1>1, TempStays, Counted
<1>3. CASE Abandon(f, "verificationError") \/ Abandon(f, "writeError")
  <2>1. /\ "verificationError" \in Outcomes \ {"published"} /\ "verificationError" # "alreadyFrozen"
        /\ "writeError" \in Outcomes \ {"published"} /\ "writeError" # "alreadyFrozen"
    BY DEF Outcomes
  <2> QED BY <1>1, <1>2, <1>3, <2>1, StepOut
<1>4. CASE /\ \A x \in PresentSplits(dataset[f]) \cup {"manifest"} : Rereads(f, x) /\ ~Differs(f, x)
           /\ Goes(f, "check") /\ UNCHANGED outcome
  <2>1. damages = 0 => temp'[f] = Directory(DirectoryOf(dataset[f]))
    BY <1>1, <1>4, RereadIsWhole
  <2> QED BY <1>1, <1>2, <1>4, <2>1, StepOn DEF Goes, Steps
<1> QED BY <1>3, <1>4 DEF RereadCandidate

LEMMA CheckFinalKeeps == ASSUME IInv, NEW f \in Calls, CheckFinal(f) PROVE IInv'
<1>1. pc[f] = "check" /\ Elsewhere /\ UNCHANGED todo /\ UNCHANGED temp /\ UNCHANGED faults
  BY DEF CheckFinal, Elsewhere
<1>2. Counts /\ OwnTemp(f)
  BY <1>1, TempStays, Counted
<1>3. CASE Exists /\ Abandon(f, "alreadyFrozen")
  BY <1>1, <1>2, <1>3, StepOut DEF Outcomes
<1>4. CASE Goes(f, "rename") /\ UNCHANGED outcome
  <2>1. damages = 0 => temp'[f] = Directory(DirectoryOf(dataset[f]))
    BY <1>1 DEF IInv, CallInv
  <2> QED BY <1>1, <1>2, <1>4, <2>1, StepOn DEF Goes, Steps
<1> QED BY <1>3, <1>4 DEF CheckFinal

LEMMA RenameFailsKeeps == ASSUME IInv, NEW f \in Calls, RenameFails(f) PROVE IInv'
<1>1. /\ pc[f] # "idle" /\ Elsewhere /\ UNCHANGED todo /\ UNCHANGED temp
      /\ UNCHANGED faults \/ Fault
  BY DEF RenameFails, Elsewhere
<1>2. Counts /\ OwnTemp(f)
  BY <1>1, TempStays, Counted
<1>3. PICK o \in {"alreadyFrozen", "writeError"} :
        Abandon(f, o) /\ (o = "alreadyFrozen" => Exists)
  BY DEF RenameFails
<1>4. o \in Outcomes \ {"published"}
  BY DEF Outcomes
<1> QED BY <1>1, <1>2, <1>3, <1>4, StepOut

LEMMA ReturnKeeps == ASSUME IInv, NEW f \in Calls, Return(f) PROVE IInv'
<1>1. /\ pc[f] # "idle" /\ Elsewhere /\ Renamed(f)
      /\ UNCHANGED todo /\ UNCHANGED temp /\ UNCHANGED faults
      /\ pc' = [pc EXCEPT ![f] = "done"] /\ outcome' = [outcome EXCEPT ![f] = "published"]
  BY DEF Return, Elsewhere, Ends, Goes, Renamed
<1>2. Counts /\ OwnTemp(f)
  BY <1>1, TempStays, Counted
<1>3. "done" \in Steps \ {"idle"} /\ "published" \in Outcomes
  BY DEF Steps, Outcomes
<1> QED BY <1>1, <1>2, <1>3, PrivateStep

LEMMA CleanupKeeps == ASSUME IInv, NEW f \in Calls, Cleanup(f) PROVE IInv'
<1>1. /\ pc[f] \notin {"idle", "done"} /\ Elsewhere /\ UNCHANGED todo /\ UNCHANGED outcome
      /\ pc' = [pc EXCEPT ![f] = "done"]
      /\ UNCHANGED faults \/ Fault
  BY DEF Cleanup, Elsewhere, Goes
<1>2. Counts
  BY <1>1, Counted
<1>3. OwnTemp(f)
  <2>1. CASE temp' = [temp EXCEPT ![f] = Nothing]
    BY <2>1, Kinds DEF IInv, TypeOK, OwnTemp, SoundEntry
  <2> QED BY <2>1, TempStays DEF Cleanup, TempOf
<1> QED BY <1>1, <1>2, <1>3, StepOn DEF Steps

LEMMA CrashKeeps == ASSUME IInv, NEW f \in Calls, Crash(f) PROVE IInv'
<1>1. /\ pc[f] \notin {"idle", "done"} /\ Elsewhere
      /\ UNCHANGED todo /\ UNCHANGED temp /\ UNCHANGED outcome
      /\ pc' = [pc EXCEPT ![f] = "crashed"] /\ Fault
  BY DEF Crash, Elsewhere, Goes
<1>2. Counts /\ OwnTemp(f)
  BY <1>1, TempStays, Counted
<1> QED BY <1>1, <1>2, StepOn DEF Steps

-----------------------------------------------------------------------------
(* The steps that change the version, a directory or the reader. *)

LEMMA CompileDatasetKeeps == ASSUME IInv, NEW f \in Calls, CompileDataset(f) PROVE IInv'
<1>1. PICK ds \in Compiled : dataset' = [dataset EXCEPT ![f] = ds]
  BY DEF CompileDataset
<1>2. /\ pc[f] = "idle" /\ pc' = [pc EXCEPT ![f] = "compiled"]
      /\ UNCHANGED <<todo, temp, outcome, final, seen, report, faults, damages>>
  BY DEF CompileDataset, Goes, readVars
<1>3. /\ pc' \in [Calls -> Steps] /\ pc'[f] = "compiled"
      /\ \A g \in Calls \ {f} : pc'[g] = pc[g] /\ dataset'[g] = dataset[g]
      /\ DOMAIN dataset' = Calls /\ dataset'[f] = ds
  BY <1>1, <1>2 DEF IInv, TypeOK, Steps
<1>4. Known \subseteq Known'
  BY <1>2, <1>3, KnownGrows
<1>5. TypeOK'
  BY <1>2, <1>3 DEF IInv, TypeOK
<1>6. ASSUME NEW g \in Calls PROVE CallInv(g)'
  <2>1. SoundEntry(temp[g], Known')
    BY <1>4, EntriesStaySound DEF IInv, CallInv
  <2>2. CASE g = f
    BY <1>2, <1>3, <2>1, <2>2 DEF IInv, CallInv
  <2>3. CASE g # f
    BY <1>2, <1>3, <2>1, <2>3 DEF IInv, CallInv
  <2> QED BY <2>2, <2>3
<1>7. FinalInv'
  <2>1. SoundEntry(final, Known')
    BY <1>4, EntriesStaySound DEF IInv, FinalInv
  <2> QED BY <1>2, <1>4, <2>1 DEF IInv, FinalInv, IsWhole, Vacant
<1>8. ReadInv'
  <2>1. SoundFiles(seen, Known')
    BY <1>4 DEF IInv, ReadInv, SoundFiles, SoundFile
  <2> QED BY <1>2, <1>4, <2>1 DEF IInv, ReadInv, IsWhole
<1>9. \A g \in Calls : Renamed(g)' => Renamed(g) /\ g # f
  <2>1. outcome[f] # "published"
    BY <1>2 DEF IInv, CallInv
  <2> QED BY <1>2, <1>3, <2>1 DEF Renamed
<1>10. LosersSeeARelease' /\ PublishedIsWhole' /\ (damages = 0 => OneWinner)'
  BY <1>2, <1>3, <1>9 DEF IInv, Promises, LosersSeeARelease, Exists, PublishedIsWhole, OneWinner
<1>11. ValidReportsAreTrue' /\ IntactReleasesVerify'
  BY <1>2, <1>3 DEF IInv, Promises, ValidReportsAreTrue, IntactReleasesVerify
<1> QED BY <1>5, <1>6, <1>7, <1>8, <1>10, <1>11 DEF IInv, Promises

\* Nothing is renamed onto a release that nobody has written into.
LEMMA WholeIsKept ==
  ASSUME IInv, damages = 0, IsWhole(final) PROVE ~CanRename /\ Exists
BY WholeParts DEF IsWhole, CanRename, Vacant, Exists

LEMMA RenamedIsWhole ==
  ASSUME IInv, damages = 0, NEW f \in Calls, Renamed(f) PROVE IsWhole(final)
BY DEF IInv, Promises, PublishedIsWhole, CallInv, Renamed, IsWhole, Known

LEMMA RenameSucceedsKeeps == ASSUME IInv, NEW f \in Calls, RenameSucceeds(f) PROVE IInv'
<1>1. /\ pc[f] = "rename" /\ CanRename /\ HasTemp(f) /\ final' = temp[f]
      /\ temp' = [temp EXCEPT ![f] = Nothing] /\ pc' = [pc EXCEPT ![f] = "return"]
      /\ UNCHANGED <<dataset, todo, outcome, seen, report, faults, damages>>
  BY DEF RenameSucceeds, Goes, TempOf, readVars
<1>2. /\ pc' \in [Calls -> Steps] /\ pc'[f] = "return"
      /\ DOMAIN temp' = Calls /\ temp'[f] = Nothing
      /\ \A g \in Calls \ {f} : pc'[g] = pc[g] /\ temp'[g] = temp[g]
  BY <1>1 DEF IInv, TypeOK, Steps
<1>3. Known' = Known
  BY <1>1, <1>2 DEF Known
<1>4. final'.kind = "directory" /\ final' # Nothing
  BY <1>1, Kinds DEF HasTemp, TempOf
<1>5. damages = 0 => /\ final' = Directory(DirectoryOf(dataset[f])) /\ dataset[f] \in Known
                     /\ ~IsWhole(final) /\ \A g \in Calls : ~Renamed(g)
  <2>1. damages = 0 => final' = Directory(DirectoryOf(dataset[f])) /\ dataset[f] \in Known
    BY <1>1 DEF IInv, CallInv, Known
  <2> QED BY <1>1, <2>1, WholeIsKept, RenamedIsWhole
<1>6. TypeOK'
  BY <1>1, <1>2, <1>4, Kinds DEF IInv, TypeOK
<1>7. ASSUME NEW g \in Calls PROVE CallInv(g)'
  <2>1. CASE g = f
    BY <1>1, <1>2, <1>3, <2>1 DEF IInv, CallInv, SoundEntry
  <2>2. CASE g # f
    BY <1>1, <1>2, <1>3, <2>2 DEF IInv, CallInv
  <2> QED BY <2>1, <2>2
<1>8. FinalInv'
  <2>1. SoundEntry(final', Known')
    BY <1>1, <1>3 DEF IInv, CallInv
  <2>2. damages' = 0 => IsWhole(final)'
    BY <1>1, <1>3, <1>5 DEF IsWhole
  <2> QED BY <2>1, <2>2 DEF FinalInv
<1>9. ReadInv'
  BY <1>1, <1>3, <1>5 DEF IInv, ReadInv
<1>10. LosersSeeARelease'
  BY <1>4 DEF LosersSeeARelease, Exists
<1>11. PublishedIsWhole' /\ (damages = 0 => OneWinner)'
  <2>1. \A g \in Calls : Renamed(g)' => Renamed(g) \/ g = f
    BY <1>1, <1>2 DEF Renamed
  <2> QED BY <1>1, <1>5, <2>1 DEF PublishedIsWhole, OneWinner
<1>12. ValidReportsAreTrue' /\ IntactReleasesVerify'
  BY <1>1, <1>2 DEF IInv, Promises, ValidReportsAreTrue, IntactReleasesVerify
<1> QED BY <1>6, <1>7, <1>8, <1>9, <1>10, <1>11, <1>12 DEF IInv, Promises

\* The state of the calls and of the reader does not depend on the version.
LEMMA OutsideStep ==
  ASSUME IInv, UNCHANGED <<callVars, readVars, faults>>
  PROVE  Known' = Known /\ (\A f \in Calls : Renamed(f)' = Renamed(f)) /\ ValidReportsAreTrue'
BY DEF IInv, callVars, readVars, Known, Renamed, Promises, ValidReportsAreTrue

LEMMA OccupyKeeps == ASSUME IInv, Occupy PROVE IInv'
<1>1. /\ final = Nothing /\ final' \in {OtherFile, Directory(EmptyDirectory)}
      /\ UNCHANGED <<pc, dataset, todo, outcome, temp, seen, report, faults, damages>>
      /\ UNCHANGED <<callVars, readVars, faults>>
  BY DEF Occupy, Exists, callVars, readVars
<1>2. Known' = Known /\ (\A f \in Calls : Renamed(f)' = Renamed(f)) /\ ValidReportsAreTrue'
  BY <1>1, OutsideStep
<1>3. damages = 0 => ~IsWhole(final) /\ \A f \in Calls : ~Renamed(f)
  BY <1>1, WholeIsKept, RenamedIsWhole DEF Exists
<1>4. TypeOK'
  BY <1>1, Kinds DEF IInv, TypeOK
<1>5. ASSUME NEW f \in Calls PROVE CallInv(f)'
  BY <1>1, <1>2 DEF IInv, CallInv
<1>6. FinalInv'
  <2>1. SoundEntry(Directory(EmptyDirectory), Known)
    BY Kinds, OtherFilesAreSound DEF SoundEntry, SoundFiles, EmptyDirectory
  <2> QED BY <1>1, <1>2, <2>1 DEF FinalInv, Vacant, SoundEntry
<1>7. ReadInv'
  BY <1>1, <1>2, <1>3 DEF IInv, ReadInv
<1>8. LosersSeeARelease' /\ PublishedIsWhole' /\ (damages = 0 => OneWinner)'
  BY <1>1, <1>2, <1>3, Kinds DEF LosersSeeARelease, Exists, PublishedIsWhole, OneWinner
<1>9. IntactReleasesVerify'
  BY <1>1 DEF IInv, Promises, IntactReleasesVerify
<1> QED BY <1>2, <1>4, <1>5, <1>6, <1>7, <1>8, <1>9 DEF IInv, Promises

LEMMA ManifestUpdates ==
  ASSUME NEW ds, NEW m, m = ManifestWith(ds, m.artifacts, m.plan, m.guideline)
  PROVE  /\ \A a : [m EXCEPT !.artifacts = a] = ManifestWith(ds, a, m.plan, m.guideline)
         /\ \A n, plan, guideline : n = [m EXCEPT !.plan = plan] =>
              [n EXCEPT !.guideline = guideline] = ManifestWith(ds, m.artifacts, plan, guideline)
<1> DEFINE W(x, y, z) == ManifestWith(ds, x, y, z)
<1>1. ASSUME NEW x, NEW y, NEW z, NEW e
      PROVE  [W(x, y, z) EXCEPT !.artifacts = e] = W(e, y, z)
  BY DEF ManifestWith
<1>2. ASSUME NEW x, NEW y, NEW z, NEW e
      PROVE  [W(x, y, z) EXCEPT !.plan = e] = W(x, e, z)
  BY DEF ManifestWith
<1>3. ASSUME NEW x, NEW y, NEW z, NEW e
      PROVE  [W(x, y, z) EXCEPT !.guideline = e] = W(x, y, e)
  BY DEF ManifestWith
<1> DEFINE x == m.artifacts
           y == m.plan
           z == m.guideline
<1>4. m = W(x, y, z)
  OBVIOUS
<1> HIDE DEF W, x, y, z
<1>5. \A e : [m EXCEPT !.artifacts = e] = W(e, y, z)
  BY <1>1, <1>4
<1>6. ASSUME NEW n, NEW plan, NEW guideline, n = [m EXCEPT !.plan = plan]
      PROVE  [n EXCEPT !.guideline = guideline] = W(x, plan, guideline)
  <2>1. n = W(x, plan, z)
    BY <1>2, <1>4, <1>6
  <2> QED BY <1>3, <2>1
<1> QED BY <1>5, <1>6 DEF W, x, y, z

LEMMA RedescribedIsSound ==
  ASSUME NEW K, NEW ds \in K, NEW a, a = [t \in Splits |-> a[t]], NEW plan, NEW guideline
  PROVE  SoundFile(ManifestWith(ds, a, plan, guideline), K)
<1> DEFINE M == ManifestWith(ds, a, plan, guideline)
<1>1. M.kind = "manifest" /\ M.artifacts = a /\ M.plan = plan /\ M.guideline = guideline
  BY ManifestParts
<1>2. IsManifestOf(M, ds)
  BY <1>1 DEF IsManifestOf
<1> HIDE DEF M
<1>3. SoundFile(M, K)
  BY <1>1, <1>2 DEF SoundFile
<1> QED BY <1>3 DEF M

\* A split file with other cases or other metadata is a split file.
LEMMA EditedIsSound ==
  ASSUME NEW K, NEW files, SoundFiles(files, K), NEW s \in Splits, files[s].kind = "split",
         NEW d, \E y : d = [files EXCEPT ![s].cases = y] \/ d = [files EXCEPT ![s].metadata = y]
  PROVE  SoundFiles(d, K)
<1> DEFINE file == files[s]
<1>1. PICK y : d = [files EXCEPT ![s].cases = y] \/ d = [files EXCEPT ![s].metadata = y]
  OBVIOUS
<1>2. file = SplitFile(file.cases, file.metadata) /\ s \in Files
  BY SplitsAreFiles DEF SoundFiles, SoundFile
<1>3. /\ [file EXCEPT !.cases = y] = SplitFile(y, file.metadata)
      /\ [file EXCEPT !.metadata = y] = SplitFile(file.cases, y)
  <2> HIDE DEF file
  <2>1. /\ [SplitFile(file.cases, file.metadata) EXCEPT !.cases = y] = SplitFile(y, file.metadata)
        /\ [SplitFile(file.cases, file.metadata) EXCEPT !.metadata = y] = SplitFile(file.cases, y)
    BY DEF SplitFile
  <2> QED BY <1>2, <2>1
<1>4. \A cases, plan : SoundFile(SplitFile(cases, plan), K)
  BY DEF SoundFile, SplitFile
<1>5. PICK new : d = [files EXCEPT ![s] = new] /\ SoundFile(new, K)
  BY <1>1, <1>3, <1>4
<1> QED BY <1>2, <1>5 DEF SoundFiles

\* Whatever is overwritten, the files that are left still tell their dataset.
LEMMA DamagedIsSound ==
  ASSUME NEW K, NEW files, SoundFiles(files, K), NEW d \in Damaged(files)
  PROVE  SoundEntry(Directory(d), K)
<1>1. CASE \E x \in Files, y \in {NoFile, Junk} : d = [files EXCEPT ![x] = y]
  <2>1. PICK x \in Files, y \in {NoFile, Junk} : d = [files EXCEPT ![x] = y]
    BY <1>1
  <2>2. SoundFiles(d, K)
    BY <2>1, OtherFilesAreSound DEF SoundFiles
  <2> QED BY <2>2, Kinds DEF SoundEntry
<1>2. CASE \E s \in Splits, t \in Splits : d = [files EXCEPT ![s] = files[t]]
  <2>1. PICK s \in Splits, t \in Splits : d = [files EXCEPT ![s] = files[t]]
    BY <1>2
  <2>2. SoundFiles(d, K)
    BY <2>1, SplitsAreFiles DEF SoundFiles
  <2> QED BY <2>2, Kinds DEF SoundEntry
<1>3. CASE /\ files["manifest"].kind = "manifest"
           /\ \E s \in Splits : \E cases :
                d = [files EXCEPT !["manifest"].artifacts[s] = cases]
  <2> DEFINE m == files["manifest"]
  <2>1. PICK s \in Splits : \E cases : d = [files EXCEPT !["manifest"].artifacts[s] = cases]
    BY <1>3
  <2>9. PICK cases : d = [files EXCEPT !["manifest"].artifacts[s] = cases]
    BY <2>1
  <2>2. PICK ds \in K : IsManifestOf(m, ds)
    BY <1>3, SplitsAreFiles DEF SoundFiles, SoundFile
  <2> DEFINE a == [m.artifacts EXCEPT ![s] = cases]
  <2>3. m = ManifestWith(ds, m.artifacts, m.plan, m.guideline) /\ m.artifacts = [t \in Splits |-> m.artifacts[t]]
    BY <2>2 DEF IsManifestOf
  <2>4. a = [t \in Splits |-> a[t]]
    BY <2>3
  <2> DEFINE M == ManifestWith(ds, a, m.plan, m.guideline)
  <2>5. [m EXCEPT !.artifacts = a] = M
    <3> HIDE DEF m, a
    <3> QED BY <2>3, ManifestUpdates
  <2>6. d = [files EXCEPT !["manifest"] = M]
    BY <2>9, <2>5
  <2>7. SoundFile(M, K)
    BY <2>4, RedescribedIsSound
  <2> HIDE DEF m, a, M
  <2>8. SoundFiles(d, K)
    BY <2>6, <2>7, SplitsAreFiles DEF SoundFiles
  <2> QED BY <2>8, Kinds DEF SoundEntry
<1>5. CASE d \in Edited(files)
  <2>1. \E s \in Splits : files[s].kind = "split" /\ \E y : d = WithCases(files, s, y)
    <3> DEFINE V(s, c) == {WithCases(files, s, files[s].cases \ {c}),
                           WithCases(files, s, files[s].cases \cup {c})}
    <3>1. d \in UNION {V(s, c) : s \in SplitsIn(files), c \in AllCases(files)}
      BY <1>5 DEF Edited
    <3>2. \E s \in SplitsIn(files), c \in AllCases(files) : d \in V(s, c)
      <4> HIDE DEF V
      <4> QED BY <3>1
    <3> QED BY <3>2 DEF SplitsIn
  <2>2. \E s \in Splits : files[s].kind = "split" /\ \E y : d = [files EXCEPT ![s].cases = y]
    BY <2>1 DEF WithCases
  <2>3. SoundFiles(d, K)
    BY <2>2, EditedIsSound
  <2> QED BY <2>3, Kinds DEF SoundEntry
<1>6. CASE d \in Redescribed(files)
  <2>1. CASE \E s \in Splits : files[s].kind = "split" /\ \E y : d = [files EXCEPT ![s].metadata = y]
    <3>1. SoundFiles(d, K)
      BY <2>1, EditedIsSound
    <3> QED BY <3>1, Kinds DEF SoundEntry
  <2>2. CASE /\ files["manifest"].kind = "manifest"
             /\ \E plan, guideline :
                  d = [files EXCEPT !["manifest"].plan = plan, !["manifest"].guideline = guideline]
    <3> DEFINE m == files["manifest"]
    <3>1. PICK plan, guideline :
            d = [files EXCEPT !["manifest"].plan = plan, !["manifest"].guideline = guideline]
      BY <2>2
    <3>2. PICK ds \in K : IsManifestOf(m, ds)
      BY <2>2, SplitsAreFiles DEF SoundFiles, SoundFile
    <3>3. m = ManifestWith(ds, m.artifacts, m.plan, m.guideline)
          /\ m.artifacts = [t \in Splits |-> m.artifacts[t]]
      BY <3>2 DEF IsManifestOf
    <3> DEFINE M == ManifestWith(ds, m.artifacts, plan, guideline)
    <3>4. [[m EXCEPT !.plan = plan] EXCEPT !.guideline = guideline] = M
      <4> DEFINE n == [m EXCEPT !.plan = plan]
      <4> HIDE DEF m, n
      <4>1. n = [m EXCEPT !.plan = plan]
        BY DEF n
      <4>2. \A k, p, g : k = [m EXCEPT !.plan = p] =>
              [k EXCEPT !.guideline = g] = ManifestWith(ds, m.artifacts, p, g)
        BY ONLY <3>3, ManifestUpdates
      <4>3. [n EXCEPT !.guideline = guideline] = M
        BY ONLY <4>1, <4>2
      <4> QED BY <4>3 DEF n
    <3>5. d = [files EXCEPT !["manifest"] = M]
      <4>1. d = [[files EXCEPT !["manifest"] = [m EXCEPT !.plan = plan]]
                   EXCEPT !["manifest"] = [@ EXCEPT !.guideline = guideline]]
        BY <3>1
      <4>2. "manifest" \in DOMAIN files
        BY SplitsAreFiles DEF SoundFiles
      <4> QED BY <3>4, <4>1, <4>2
    <3>6. SoundFile(M, K)
      BY <3>3, RedescribedIsSound
    <3> HIDE DEF m, M
    <3>7. SoundFiles(d, K)
      BY <3>5, <3>6, SplitsAreFiles DEF SoundFiles
    <3> QED BY <3>7, Kinds DEF SoundEntry
  <2>3. \/ \E s \in Splits : files[s].kind = "split" /\ \E y : d = WithMetadata(files, s, y)
        \/ /\ files["manifest"].kind = "manifest"
           /\ \E plan, guideline : d = WithPlan(files, plan, guideline)
    BY <1>6 DEF Redescribed, SplitsIn
  <2>4. \/ \E s \in Splits : files[s].kind = "split" /\ \E y : d = [files EXCEPT ![s].metadata = y]
        \/ /\ files["manifest"].kind = "manifest"
           /\ \E plan, guideline :
                d = [files EXCEPT !["manifest"].plan = plan, !["manifest"].guideline = guideline]
    BY <2>3 DEF WithMetadata, WithPlan
  <2> QED BY <2>1, <2>2, <2>4
<1>4. \/ d \in Edited(files) \/ d \in Redescribed(files)
      \/ \E x \in Files, y \in {NoFile, Junk} : d = [files EXCEPT ![x] = y]
      \/ \E s \in Splits, t \in Splits : d = [files EXCEPT ![s] = files[t]]
      \/ /\ files["manifest"].kind = "manifest"
         /\ \E s \in Splits : \E cases : d = [files EXCEPT !["manifest"].artifacts[s] = cases]
  <2>1. \/ d \in Spoilt(files) \/ d \in Misplaced(files)
        \/ d \in Edited(files) \/ d \in Redescribed(files)
        \/ files["manifest"].kind = "manifest" /\ d \in Mislabelled(files)
    BY DEF Damaged
  <2>2. d \in Spoilt(files) => \E x \in Files, y \in {NoFile, Junk} : d = [files EXCEPT ![x] = y]
    BY DEF Spoilt
  <2>3. d \in Misplaced(files) =>
          \E s \in Splits, t \in Splits : d = [files EXCEPT ![s] = files[t]]
    BY DEF Misplaced, SplitsIn
  <2> DEFINE Mislabel(s, cases) == [files EXCEPT !["manifest"].artifacts[s] = cases]
  <2>4. d \in Mislabelled(files) => \E s \in Splits : \E cases : d = Mislabel(s, cases)
    <3>1. Mislabelled(files) =
            {Mislabel(s, cases) : s \in Splits,
               cases \in {{}} \cup {files["manifest"].artifacts[t] : t \in Splits}}
      BY DEF Mislabelled
    <3> HIDE DEF Mislabel
    <3> QED BY <3>1
  <2> QED BY <2>1, <2>2, <2>3, <2>4
<1> QED BY <1>1, <1>2, <1>3, <1>4, <1>5, <1>6

LEMMA DamageKeeps == ASSUME IInv, Damage PROVE IInv'
<1>1. /\ UNCHANGED <<pc, dataset, todo, outcome, seen, report, faults>>
      /\ UNCHANGED <<callVars, readVars, faults>>
      /\ damages < MaxDamages /\ damages' = damages + 1
  BY DEF Damage, callVars, readVars
<1>2. Known' = Known /\ (\A f \in Calls : Renamed(f)' = Renamed(f)) /\ ValidReportsAreTrue'
  BY <1>1, OutsideStep
<1>3. damages' \in 0 .. MaxDamages /\ damages' # 0
  BY <1>1, ReleaseAssumption DEF IInv, TypeOK
<1>4. /\ SoundEntry(final', Known) /\ final'.kind \in {"nothing", "file", "directory"}
      /\ final = final' \/ final' # Nothing
      /\ DOMAIN temp' = Calls
      /\ \A f \in Calls : SoundEntry(temp'[f], Known) /\ temp'[f].kind \in {"nothing", "directory"}
  <2>0. /\ SoundEntry(final, Known) /\ final.kind \in {"nothing", "file", "directory"}
        /\ DOMAIN temp = Calls
        /\ \A f \in Calls : SoundEntry(temp[f], Known) /\ temp[f].kind \in {"nothing", "directory"}
    BY DEF IInv, TypeOK, CallInv, FinalInv
  <2>1. CASE /\ final.kind = "directory"
             /\ \E files \in Damaged(final.files) : final' = Directory(files)
             /\ UNCHANGED temp
    <3>1. SoundFiles(final.files, Known)
      BY <2>0, <2>1, Kinds DEF SoundEntry
    <3>2. SoundEntry(final', Known) /\ final'.kind = "directory" /\ final' # Nothing
      BY <2>1, <3>1, DamagedIsSound, Kinds
    <3> QED BY <2>0, <2>1, <3>2
  <2>2. CASE /\ \E f \in Calls :
                  /\ temp[f].kind = "directory"
                  /\ \E files \in Damaged(temp[f].files) :
                       temp' = [temp EXCEPT ![f] = Directory(files)]
             /\ UNCHANGED final
    <3>1. PICK f \in Calls : /\ temp[f].kind = "directory"
                             /\ \E files \in Damaged(temp[f].files) :
                                  temp' = [temp EXCEPT ![f] = Directory(files)]
      BY <2>2
    <3>2. SoundFiles(temp[f].files, Known)
      BY <2>0, <3>1, Kinds DEF SoundEntry
    <3>3. PICK files \in Damaged(temp[f].files) : temp' = [temp EXCEPT ![f] = Directory(files)]
      BY <3>1
    <3>4. SoundEntry(Directory(files), Known) /\ Directory(files).kind = "directory"
      BY <3>2, DamagedIsSound, Kinds
    <3> QED BY <2>0, <2>2, <3>3, <3>4
  <2> QED BY <2>1, <2>2 DEF Damage
<1>5. TypeOK'
  BY <1>1, <1>3, <1>4 DEF IInv, TypeOK
<1>6. ASSUME NEW f \in Calls PROVE CallInv(f)'
  BY <1>1, <1>2, <1>3, <1>4 DEF IInv, CallInv
<1>7. FinalInv' /\ ReadInv'
  BY <1>1, <1>2, <1>3, <1>4 DEF IInv, FinalInv, ReadInv
<1>8. LosersSeeARelease'
  BY <1>1, <1>4 DEF IInv, Promises, LosersSeeARelease, Exists
<1>9. PublishedIsWhole' /\ (damages = 0 => OneWinner)' /\ IntactReleasesVerify'
  <2>1. damages' > 0
    BY <1>3
  <2> QED BY <1>3, <2>1 DEF PublishedIsWhole, IntactReleasesVerify
<1> QED BY <1>2, <1>5, <1>6, <1>7, <1>8, <1>9 DEF IInv, Promises

\* The reader writes nothing.
LEMMA ReaderStep ==
  ASSUME IInv, UNCHANGED <<callVars, temp, final, damages>>, UNCHANGED faults \/ Fault,
         DOMAIN seen' = Files, report' \in {"none", "valid", "invalid"},
         ReadInv', ValidReportsAreTrue', IntactReleasesVerify'
  PROVE  IInv'
<1>1. /\ UNCHANGED <<pc, dataset, todo, outcome, temp, final, damages>>
      /\ faults' \in 0 .. MaxFaults
  BY ReleaseAssumption DEF callVars, IInv, TypeOK, Fault
<1>2. Known' = Known /\ \A f \in Calls : Renamed(f)' = Renamed(f)
  BY <1>1 DEF Known, Renamed
<1>3. TypeOK'
  BY <1>1 DEF IInv, TypeOK
<1>4. ASSUME NEW f \in Calls PROVE CallInv(f)'
  BY <1>1, <1>2 DEF IInv, CallInv
<1>5. FinalInv'
  BY <1>1, <1>2 DEF IInv, FinalInv, IsWhole, Vacant
<1>6. LosersSeeARelease' /\ PublishedIsWhole' /\ (damages = 0 => OneWinner)'
  BY <1>1, <1>2 DEF IInv, Promises, LosersSeeARelease, Exists, PublishedIsWhole, OneWinner
<1> QED BY <1>3, <1>4, <1>5, <1>6 DEF IInv, Promises

LEMMA FinalFileSound ==
  ASSUME IInv, NEW x \in Files
  PROVE  /\ SoundFile(FinalFile(x), Known)
         /\ damages = 0 /\ ~IsWhole(final) => FinalFile(x) = NoFile
         /\ IsWhole(final) => /\ FinalFile(x) = final.files[x]
                              /\ FinalFile("manifest").kind = "manifest"
<1>1. SoundFile(FinalFile(x), Known)
  BY Kinds, OtherFilesAreSound DEF IInv, FinalInv, SoundEntry, SoundFiles, FinalFile
<1>2. Vacant(final) => FinalFile(x) = NoFile
  BY Kinds DEF Vacant, FinalFile, EmptyDirectory
<1>3. damages = 0 /\ ~IsWhole(final) => FinalFile(x) = NoFile
  BY <1>2 DEF IInv, FinalInv
<1>4. IsWhole(final) => /\ FinalFile(x) = final.files[x]
                        /\ FinalFile("manifest").kind = "manifest"
  BY WholeParts DEF IsWhole, FinalFile
<1> QED BY <1>1, <1>3, <1>4

LEMMA KnownStays ==
  ASSUME UNCHANGED <<callVars, temp, final, damages>>
  PROVE  Known' = Known /\ IsWhole(final)' = IsWhole(final)
BY DEF callVars, Known, IsWhole

LEMMA ReadManifestKeeps == ASSUME IInv, ReadManifest PROVE IInv'
<1>0. PICK file \in {FinalFile("manifest"), Unreadable} : seen' = [seen EXCEPT !["manifest"] = file]
  BY DEF ReadManifest, Reads
<1>1. /\ UNCHANGED <<callVars, temp, final, damages>> /\ UNCHANGED final /\ UNCHANGED damages
      /\ UNCHANGED faults \/ Fault
      /\ seen["manifest"] = Unread /\ DOMAIN seen = Files
      /\ report' = IF seen'["manifest"].kind = "manifest" THEN "none" ELSE "invalid"
  BY DEF ReadManifest, Reads, IInv, TypeOK
<1>2. Known' = Known /\ IsWhole(final)' = IsWhole(final)
  BY <1>1, KnownStays
<1>3. /\ SoundFile(file, Known)
      /\ damages = 0 /\ file # Unreadable =>
           IF IsWhole(final) THEN file.kind = "manifest" /\ file = final.files["manifest"]
           ELSE file = NoFile
  BY SplitsAreFiles, FinalFileSound, OtherFilesAreSound
<1>4. \A x \in Files : seen[x] = Unread
  BY <1>1 DEF IInv, ReadInv
<1>5. DOMAIN seen' = Files /\ seen'["manifest"] = file
      /\ \A x \in Files \ {"manifest"} : seen'[x] = Unread
  BY <1>0, <1>1, <1>4, SplitsAreFiles
<1>6. ReadInv'
  <2>1. SoundFiles(seen', Known')
    BY <1>0, <1>1, <1>2, <1>3 DEF IInv, ReadInv, SoundFiles
  <2>2. file \in {NoFile, Unreadable} => report' # "none"
    BY <1>1, <1>5, Kinds
  <2> QED BY <1>1, <1>2, <1>3, <1>5, <2>1, <2>2 DEF ReadInv
<1>7. ValidReportsAreTrue'
  BY <1>1 DEF ValidReportsAreTrue
<1>8. IntactReleasesVerify'
  <2>1. damages \in Nat
    BY DEF IInv, TypeOK
  <2>2. report' = "invalid" /\ damages = 0 => file = NoFile \/ file = Unreadable
    BY <1>1, <1>3, <1>5
  <2> QED BY <1>1, <1>5, <2>1, <2>2, SplitsAreFiles DEF IntactReleasesVerify
<1>9. report' \in {"none", "valid", "invalid"}
  BY <1>1
<1> QED BY <1>1, <1>5, <1>6, <1>7, <1>8, <1>9, ReaderStep

LEMMA ReadSplitKeeps == ASSUME IInv, NEW s \in Splits, ReadSplit(s) PROVE IInv'
<1>0. PICK file \in {FinalFile(s), Unreadable} : seen' = [seen EXCEPT ![s] = file]
  BY DEF ReadSplit, Reads
<1>1. /\ UNCHANGED <<callVars, temp, final, damages>> /\ UNCHANGED final /\ UNCHANGED damages
      /\ UNCHANGED faults \/ Fault
      /\ seen["manifest"] # Unread /\ report = "none" /\ UNCHANGED report
  BY DEF ReadSplit, Reads
<1>2. Known' = Known /\ IsWhole(final)' = IsWhole(final)
  BY <1>1, KnownStays
<1>3. seen["manifest"] \notin {NoFile, Unreadable}
  BY <1>1 DEF IInv, ReadInv
<1>4. /\ DOMAIN seen' = Files /\ seen'["manifest"] = seen["manifest"]
      /\ seen'[s] = file /\ \A x \in Files \ {s} : seen'[x] = seen[x]
  BY <1>0, SplitsAreFiles DEF IInv, TypeOK
<1>5. ReadInv'
  <2>1. SoundFile(file, Known) /\ (IsWhole(final) => file \in {Unreadable, final.files[s]})
    BY SplitsAreFiles, FinalFileSound, OtherFilesAreSound
  <2>2. SoundFiles(seen', Known')
    BY <1>0, <1>2, <2>1 DEF IInv, ReadInv, SoundFiles
  <2>3. damages = 0 =>
          IsWhole(final) /\ \A x \in Files : seen'[x] \in {Unread, Unreadable, final.files[x]}
    BY <1>1, <1>3, <1>4, <2>1 DEF IInv, ReadInv
  <2> QED BY <1>1, <1>2, <1>3, <1>4, <2>2, <2>3 DEF ReadInv
<1>6. ValidReportsAreTrue' /\ IntactReleasesVerify'
  BY <1>1 DEF ValidReportsAreTrue, IntactReleasesVerify
<1>7. report' \in {"none", "valid", "invalid"}
  BY <1>1 DEF IInv, TypeOK
<1> QED BY <1>1, <1>4, <1>5, <1>6, <1>7, ReaderStep

LEMMA KnownIsSound == ASSUME IInv, NEW ds \in Known PROVE Verifies(DirectoryOf(ds))
<1>1. ds \in Compiled
  BY DEF IInv, CallInv, Known
<1> QED BY <1>1, CompiledIsSound, WholeIsVerified

LEMMA ReportKeeps == ASSUME IInv, Report PROVE IInv'
<1>1. /\ UNCHANGED <<callVars, temp, final, damages>> /\ UNCHANGED final /\ UNCHANGED damages
      /\ UNCHANGED faults
      /\ (\A x \in Files : seen[x] # Unread) /\ UNCHANGED seen /\ report = "none"
      /\ report' = IF Verifies(seen) THEN "valid" ELSE "invalid"
  BY DEF Report
<1>2. Known' = Known /\ IsWhole(final)' = IsWhole(final)
  BY <1>1, KnownStays
<1>3. seen["manifest"] \notin {Unread, NoFile, Unreadable}
  BY <1>1, SplitsAreFiles DEF IInv, ReadInv
<1>4. ReadInv'
  BY <1>1, <1>2, <1>3 DEF IInv, ReadInv
<1>5. ValidReportsAreTrue'
  <2>1. SUFFICES ASSUME Verifies(seen) PROVE ValidReportsAreTrue'
    BY <1>1 DEF ValidReportsAreTrue
  <2>2. PICK ds \in Known : Covered(seen) = Covered(DirectoryOf(ds))
    BY <2>1, VerifiedIsWhole DEF IInv, ReadInv
  <2>3. PICK f \in Calls : pc[f] # "idle" /\ ds = dataset[f]
    BY DEF Known
  <2>4. UNCHANGED <<pc, dataset>>
    BY <1>1 DEF callVars
  <2> QED BY <1>1, <2>2, <2>3, <2>4 DEF ValidReportsAreTrue
<1>6. IntactReleasesVerify'
  <2>1. damages \in Nat
    BY DEF IInv, TypeOK
  <2>2. damages = 0 /\ (\A x \in Files : seen[x] # Unreadable) => Verifies(seen)
    <3>1. SUFFICES ASSUME damages = 0, \A x \in Files : seen[x] # Unreadable PROVE Verifies(seen)
      OBVIOUS
    <3>2. IsWhole(final) /\ \A x \in Files : seen[x] = final.files[x]
      BY <1>1, <1>3, <3>1 DEF IInv, ReadInv
    <3>3. PICK ds \in Known : final = Directory(DirectoryOf(ds))
      BY <3>2 DEF IsWhole
    <3>4. \A x \in Files : seen[x] = DirectoryOf(ds)[x]
      BY <3>2, <3>3, Kinds
    <3>5. seen = DirectoryOf(ds)
      BY <3>4 DEF IInv, ReadInv, SoundFiles, DirectoryOf
    <3> QED BY <3>5, KnownIsSound
  <2> QED BY <1>1, <2>1, <2>2 DEF IntactReleasesVerify
<1>7. DOMAIN seen' = Files /\ report' \in {"none", "valid", "invalid"}
  BY <1>1 DEF IInv, TypeOK
<1> QED BY <1>1, <1>4, <1>5, <1>6, <1>7, ReaderStep

-----------------------------------------------------------------------------

LEMMA StutterKeeps == ASSUME IInv, UNCHANGED vars PROVE IInv'
<1>1. /\ UNCHANGED <<callVars, temp, final, damages>> /\ UNCHANGED faults /\ UNCHANGED <<seen, report>>
      /\ UNCHANGED final /\ UNCHANGED damages /\ UNCHANGED pc /\ UNCHANGED dataset
  BY DEF vars, callVars, readVars
<1>2. Known' = Known /\ IsWhole(final)' = IsWhole(final)
  BY <1>1, KnownStays
<1>3. ReadInv'
  BY <1>1, <1>2 DEF IInv, ReadInv
<1>4. ValidReportsAreTrue' /\ IntactReleasesVerify'
  BY <1>1 DEF IInv, Promises, ValidReportsAreTrue, IntactReleasesVerify
<1>5. DOMAIN seen' = Files /\ report' \in {"none", "valid", "invalid"}
  BY <1>1 DEF IInv, TypeOK
<1> QED BY <1>1, <1>3, <1>4, <1>5, ReaderStep

LEMMA NextKeeps == ASSUME IInv, [Next]_vars PROVE IInv'
<1>1. ASSUME NEW f \in Calls, CompileDataset(f) \/ FreezeStep(f) \/ Crash(f) PROVE IInv'
  BY <1>1, CompileDatasetKeeps, RefuseKeeps, BeginFreezeKeeps, WriteFileKeeps,
     VerifyCandidateKeeps, RereadCandidateKeeps, CheckFinalKeeps, RenameSucceedsKeeps,
     RenameFailsKeeps, ReturnKeeps, CleanupKeeps, CrashKeeps DEF FreezeStep
<1>2. CASE Reader
  BY <1>2, ReadManifestKeeps, ReadSplitKeeps, ReportKeeps DEF Reader
<1> QED BY <1>1, <1>2, OccupyKeeps, DamageKeeps, StutterKeeps DEF Next

LEMMA Invariance == Spec => []IInv
BY InitInv, NextKeeps, PTL DEF Spec

\* Every variable has its type.
THEOREM TypeCorrect == Spec => []TypeOK
<1>1. IInv => TypeOK
  BY DEF IInv
<1> QED BY <1>1, Invariance, PTL

\* No family, content or document is in two splits of a compiled dataset
\* (validation/split.py), whatever the records and the plan.
THEOREM NoLeakageAlways == Spec => []NoLeakage
<1>1. IInv => NoLeakage
  <2>1. ASSUME IInv, NEW f \in Calls PROVE CasesSound(dataset[f].cases)
    <3>1. CASE dataset[f] = NoDataset
      BY <3>1 DEF NoDataset, CasesSound
    <3>2. CASE dataset[f] \in Compiled
      BY <3>2, CompiledIsSound
    <3> QED BY <2>1, <3>1, <3>2 DEF IInv, CallInv
  <2> QED BY <2>1 DEF NoLeakage, CasesSound
<1> QED BY <1>1, Invariance, PTL

\* What a call has published is whole, and stays so unless somebody writes into it.
THEOREM PublishedIsWholeAlways == Spec => []PublishedIsWhole
<1>1. IInv => PublishedIsWhole
  BY DEF IInv, Promises
<1> QED BY <1>1, Invariance, PTL

\* A version is published once, unless somebody writes into the release: emptied,
\* its directory could be replaced.
THEOREM OneWinnerWhileIntact == Spec => [](damages = 0 => OneWinner)
<1>1. IInv => (damages = 0 => OneWinner)
  BY DEF IInv, Promises
<1> QED BY <1>1, Invariance, PTL

\* A call that answers that the version is frozen leaves something under its name.
THEOREM LosersSeeAReleaseAlways == Spec => []LosersSeeARelease
<1>1. IInv => LosersSeeARelease
  BY DEF IInv, Promises
<1> QED BY <1>1, Invariance, PTL

\* Any number of writes from outside that compute no hashes anew, at any time, and a
\* valid report is still given on all the cases of one compiled dataset only. What
\* else the files say may have been changed by then.
THEOREM ValidReportsAreTrueAlways == Spec => []ValidReportsAreTrue
<1>1. IInv => ValidReportsAreTrue
  BY DEF IInv, Promises
<1> QED BY <1>1, Invariance, PTL

\* A reader finds every release valid that nobody has written into.
THEOREM IntactReleasesVerifyAlways == Spec => []IntactReleasesVerify
<1>1. IInv => IntactReleasesVerify
  BY DEF IInv, Promises
<1> QED BY <1>1, Invariance, PTL

-----------------------------------------------------------------------------
(* What is left behind.                                                    *)

Debris == {f \in Calls : pc[f] \in {"done", "crashed"} /\ temp[f] # Nothing}

\* A call has no directory before it makes one, nor after it has given it away.
Unburdened == \A f \in Calls : pc[f] \in {"idle", "compiled", "return"} => temp[f] = Nothing

DebrisInv == Unburdened /\ IsFiniteSet(Debris) /\ Cardinality(Debris) <= faults

\* A set that has grown by one element at most, and a number that has grown if it has.
LEMMA GrowsByOne ==
  ASSUME NEW S, IsFiniteSet(S), NEW n \in Nat, Cardinality(S) <= n, NEW T, NEW m \in Nat, n <= m,
         NEW x, T \subseteq S \cup {x}, T \subseteq S \/ m = n + 1
  PROVE  IsFiniteSet(T) /\ Cardinality(T) <= m
<1>1. CASE T \subseteq S
  BY <1>1, FS_Subset, FS_CardinalityType
<1>2. CASE m = n + 1
  <2>1. IsFiniteSet(S \cup {x}) /\ Cardinality(S \cup {x}) <= n + 1
    <3>1. Cardinality(S) \in Nat
      BY FS_CardinalityType
    <3>2. IsFiniteSet(S \cup {x}) /\ Cardinality(S \cup {x}) \in {Cardinality(S), Cardinality(S) + 1}
      BY FS_AddElement
    <3> QED BY <3>1, <3>2
  <2>2. IsFiniteSet(T) /\ Cardinality(T) <= Cardinality(S \cup {x})
    BY <2>1, FS_Subset
  <2> QED BY <1>2, <2>1, <2>2, FS_CardinalityType
<1> QED BY <1>1, <1>2

\* A step that touches one call keeps the count, if a failure is what leaves its
\* directory behind.
LEMMA DebrisStep ==
  ASSUME IInv, DebrisInv, IInv', NEW f \in Calls,
         \A g \in Calls \ {f} : pc'[g] = pc[g] /\ (temp[g] = Nothing <=> temp'[g] = Nothing),
         pc'[f] \in {"idle", "compiled", "return"} => temp'[f] = Nothing,
         UNCHANGED faults \/ faults' = faults + 1,
         \/ f \in Debris
         \/ pc'[f] \notin {"done", "crashed"}
         \/ temp'[f] = Nothing
         \/ faults' = faults + 1
  PROVE  DebrisInv'
<1>1. Unburdened'
  BY DEF DebrisInv, Unburdened
<1>2. faults \in Nat /\ faults' \in Nat
  BY ReleaseAssumption DEF IInv, TypeOK
<1>3. Debris' \subseteq Debris \cup {f}
  BY DEF Debris
<1>4. Debris' \subseteq Debris \/ faults' = faults + 1
  BY DEF Debris
<1>5. IsFiniteSet(Debris') /\ Cardinality(Debris') <= faults'
  BY <1>2, <1>3, <1>4, GrowsByOne DEF DebrisInv
<1> QED BY <1>1, <1>5 DEF DebrisInv

LEMMA CallKeepsCount ==
  ASSUME IInv, DebrisInv, IInv', NEW f \in Calls, CompileDataset(f) \/ FreezeStep(f) \/ Crash(f)
  PROVE  DebrisInv'
<1> USE DEF TempOf, Goes
<1>1. DOMAIN pc = Calls /\ DOMAIN temp = Calls /\ faults \in Nat /\ temp[f].kind \in {"nothing", "directory"}
  BY ReleaseAssumption DEF IInv, TypeOK
<1>2. \A g \in Calls \ {f} : pc'[g] = pc[g] /\ (temp[g] = Nothing <=> temp'[g] = Nothing)
  BY <1>1 DEF CompileDataset, FreezeStep, Refuse, BeginFreeze, WriteFile, VerifyCandidate, RereadCandidate, CheckFinal,
    RenameSucceeds, RenameFails, Return, Cleanup, Crash, Ends, Abandon
<1>3. UNCHANGED faults \/ faults' = faults + 1
  BY DEF CompileDataset, FreezeStep, Refuse, BeginFreeze, WriteFile, VerifyCandidate, RereadCandidate, CheckFinal,
    RenameSucceeds, RenameFails, Return, Cleanup, Crash, Fault
<1>4. pc[f] \in {"idle", "compiled", "return"} => temp[f] = Nothing
  BY DEF DebrisInv, Unburdened
<1>5. CASE CompileDataset(f) \/ Refuse(f) \/ Return(f)
  <2>1. UNCHANGED temp /\ pc[f] \in {"idle", "compiled", "return"}
    BY <1>5 DEF CompileDataset, Refuse, Return
  <2> QED BY <1>2, <1>3, <1>4, <2>1, DebrisStep
<1>6. CASE BeginFreeze(f)
  <2>1. temp'[f] = Nothing \/ pc'[f] = "write"
    BY <1>1, <1>4, <1>6 DEF BeginFreeze, Ends
  <2> QED BY <1>2, <1>3, <2>1, DebrisStep
<1>7. CASE (\E x \in Files : WriteFile(f, x)) \/ VerifyCandidate(f) \/ RereadCandidate(f) \/ CheckFinal(f) \/ RenameFails(f)
  <2>1. pc'[f] \in {"write", "verify", "reread", "check", "rename", "cleanup"}
    BY <1>1, <1>7 DEF WriteFile, VerifyCandidate, RereadCandidate, CheckFinal, RenameFails, Abandon
  <2> QED BY <1>2, <1>3, <2>1, DebrisStep
<1>8. CASE RenameSucceeds(f)
  <2>1. temp'[f] = Nothing
    BY <1>1, <1>8 DEF RenameSucceeds
  <2> QED BY <1>2, <1>3, <2>1, DebrisStep
<1>9. CASE Cleanup(f)
  <2>1. pc'[f] = "done" /\ (temp'[f] = Nothing \/ faults' = faults + 1)
    BY <1>1, <1>9 DEF Cleanup, Fault
  <2> QED BY <1>2, <1>3, <2>1, DebrisStep
<1>10. CASE Crash(f)
  <2>1. pc'[f] = "crashed" /\ faults' = faults + 1
    BY <1>1, <1>10 DEF Crash, Fault
  <2> QED BY <1>2, <1>3, <2>1, DebrisStep
<1> QED BY <1>5, <1>6, <1>7, <1>8, <1>9, <1>10 DEF FreezeStep

\* Nobody else takes a directory away or moves a call: damage leaves a directory one.
LEMMA OthersKeepCount ==
  ASSUME IInv, IInv', DebrisInv, Occupy \/ Damage \/ Reader \/ UNCHANGED vars
  PROVE  DebrisInv'
<1>1. UNCHANGED pc /\ (UNCHANGED faults \/ faults' = faults + 1)
  BY DEF Occupy, Damage, Reader, ReadManifest, ReadSplit, Reads, Fault, Report, vars, callVars
<1>2. \A f \in Calls : temp[f] = Nothing <=> temp'[f] = Nothing
  <2>1. CASE Damage
    BY <2>1, Kinds DEF Damage, IInv, TypeOK
  <2>2. CASE ~Damage
    BY <2>2 DEF Occupy, Reader, ReadManifest, ReadSplit, Report, vars
  <2> QED BY <2>1, <2>2
<1>3. Debris' = Debris
  BY <1>1, <1>2 DEF Debris
<1>4. faults \in Nat /\ faults' \in Nat /\ faults <= faults'
  BY <1>1, ReleaseAssumption DEF IInv, TypeOK
<1>5. Cardinality(Debris) <= faults'
  <2>1. Cardinality(Debris) \in Nat
    BY FS_CardinalityType DEF DebrisInv
  <2> QED BY <1>4, <2>1 DEF DebrisInv
<1> QED BY <1>1, <1>2, <1>3, <1>5 DEF DebrisInv, Unburdened

\* However many calls are made, whatever fails and in whatever order: no more temporary
\* directories are left behind than there were failed file operations and crashes.
THEOREM DebrisComesFromFaultsAlways == Spec => []DebrisComesFromFaults
<1>1. Init => DebrisInv
  <2>1. ASSUME Init PROVE Debris = {} /\ Unburdened /\ faults = 0
    BY <2>1 DEF Init, Debris, Unburdened
  <2> QED BY <2>1, FS_EmptySet DEF DebrisInv
<1>2. IInv /\ IInv' /\ DebrisInv /\ [Next]_vars => DebrisInv'
  BY CallKeepsCount, OthersKeepCount DEF Next
<1>3. DebrisInv => DebrisComesFromFaults
  BY DEF DebrisInv, Debris, DebrisComesFromFaults
<1> QED BY <1>1, <1>2, <1>3, Invariance, PTL DEF Spec

-----------------------------------------------------------------------------
(* Refinement. *)

LEMMA WholeIsComplete ==
  ASSUME IInv, NEW ds \in Known, NEW entry, entry = Directory(DirectoryOf(ds))
  PROVE  CompleteRelease(entry)
BY KnownIsSound, Kinds DEF CompleteRelease

\* While nobody has written from outside, the version changes as the store does.
LEMMA StepImplementsStore ==
  ASSUME IInv, IInv', [Next]_vars PROVE [Store!Next]_(Store!vars)
<1>1. damages \in Nat /\ damages' \in Nat /\ damages' >= damages
  <2>1. damages' \in {damages, damages + 1}
    BY DEF Next, vars, CompileDataset, FreezeStep, Refuse, BeginFreeze, WriteFile, VerifyCandidate, RereadCandidate,
           CheckFinal, RenameSucceeds, RenameFails, Return, Cleanup, Crash, Occupy, Damage, Reader,
           ReadManifest, ReadSplit, Report
  <2> QED BY <2>1 DEF IInv, TypeOK
<1>2. CASE damages' > 0
  BY <1>2 DEF Store!Next, Store!Tamper
<1>3. CASE damages' = 0
  <2>1. damages = 0 /\ (damages > 0)' = (damages > 0) /\ ~Damage
    BY <1>1, <1>3 DEF Damage
  <2>2. CASE Occupy
    <3>1. Vacant(final) /\ Vacant(final')
      BY <2>2 DEF Occupy, Exists, Vacant
    <3> QED BY <2>1, <3>1 DEF Store!Next, Store!Reserve
  <2>3. CASE \E f \in Calls : RenameSucceeds(f)
    <3>1. PICK f \in Calls : RenameSucceeds(f)
      BY <2>3
    <3>2. Vacant(final)
      BY <3>1 DEF RenameSucceeds, CanRename, Vacant
    <3>3. final' = Directory(DirectoryOf(dataset[f])) /\ dataset[f] \in Known
      BY <2>1, <3>1 DEF RenameSucceeds, IInv, CallInv, Known, TempOf
    <3>4. CompleteRelease(final')
      BY <3>3, WholeIsComplete
    <3> QED BY <2>1, <3>2, <3>4 DEF Store!Next, Store!Publish
  <2>4. CASE ~Occupy /\ ~\E f \in Calls : RenameSucceeds(f)
    <3>1. UNCHANGED final
      BY <2>1, <2>4 DEF Next, vars, CompileDataset, FreezeStep, Refuse, BeginFreeze, WriteFile,
           VerifyCandidate, RereadCandidate, CheckFinal, RenameFails, Return, Cleanup, Crash, Reader,
           ReadManifest, ReadSplit, Report
    <3> QED BY <2>1, <3>1 DEF Store!vars
  <2> QED BY <2>2, <2>3, <2>4
<1> QED BY <1>1, <1>2, <1>3

\* A version goes from nothing to a complete release in one step and never changes
\* again, unless somebody writes into it from outside.
THEOREM FreezeImplementsStore == Spec => ImplementsStore
<1>1. Init => Store!Init
  BY DEF Init, Store!Init, Vacant
<1> QED BY <1>1, Invariance, StepImplementsStore, PTL DEF Spec, ImplementsStore, Store!Spec
=============================================================================
