---------------------------- MODULE VersionUpload ----------------------------
(***************************************************************************)
(* The versions of one document from upload to receipt:                    *)
(*   backend/src/documents/document-upload.service.ts (complete, and the   *)
(*     version allocation of initNewVersion),                              *)
(*   backend/src/storage/minio-storage.service.ts     (finalizeObject),    *)
(*   backend/src/documents/documents.service.ts       (delete).            *)
(*                                                                         *)
(* A call of complete is a chain of object-storage requests followed by    *)
(* one PostgreSQL transaction.  Any number of calls for any version run at *)
(* once, the browser may write the staging object at any time, and a call  *)
(* may break off between any two of its steps.                             *)
(*                                                                         *)
(* An object is abstracted to its content, which stands for its ETag, and  *)
(* to whether size and media type match the upload contract.               *)
(***************************************************************************)
EXTENDS Naturals

CONSTANTS
  Calls,          \* concurrent executions of complete
  Contents,       \* object contents, one for each ETag
  Matching,       \* those that match the declared size and media type
  MaxVersions,    \* bound: versions allocated in a behaviour
  NoObject,       \* no object under a key, no ETag recorded
  StaleJoin       \* the locking SELECT joins the current version as of the
                  \* start of the statement (see LockedVersionNo)

ASSUME ContentsAssumption == Matching \subseteq Contents /\ NoObject \notin Contents
ASSUME VersionsAssumption == MaxVersions \in Nat \ {0}
ASSUME JoinAssumption == StaleJoin \in BOOLEAN

\* A version is identified by its versionNo, which the unique constraint on
\* (document_id, version_no) allows.
Versions == 1 .. MaxVersions

VARIABLES
  active,      \* documents.status = 'ACTIVE'
  current,     \* versionNo of documents.current_version_id, 0 for NULL
  upload,      \* document_versions.upload_state, "ABSENT" before the insert
  etag,        \* document_sources.etag, set together with verified_at
  appended,    \* DOCUMENT_VERSION_RECEIVED events appended for each version
  staging,     \* the object under the staging key
  final,       \* the object under the final key
  call         \* the local state of each execution of complete

rowVars     == <<active, current, upload, etag, appended>>
storageVars == <<staging, final>>
vars        == <<rowVars, storageVars, call>>

Steps == {"idle", "statStaging", "statFinal", "copy", "statCopied", "select", "lock", "reverify"}

\* at: the step the call takes next;  target: the version it completes;
\* seen: the staging object it has stat'ed;  finalized: what finalizeObject
\* returned;  snapshot: current when its locking SELECT started.
CallStates == [at : Steps, target : Versions, seen : Contents \cup {NoObject},
               finalized : Contents \cup {NoObject}, snapshot : 0 .. MaxVersions]

NoCall == [at |-> "idle", target |-> 1, seen |-> NoObject, finalized |-> NoObject,
           snapshot |-> 0]

Init ==
  /\ active = TRUE /\ current = 0
  /\ upload = [v \in Versions |-> IF v = 1 THEN "UPLOADING" ELSE "ABSENT"]
  /\ etag = [v \in Versions |-> NoObject]
  /\ appended = [v \in Versions |-> 0]
  /\ staging = [v \in Versions |-> NoObject]
  /\ final = [v \in Versions |-> NoObject]
  /\ call = [c \in Calls |-> NoCall]

-----------------------------------------------------------------------------
(* The rest of the API, and the browser. *)

\* initNewVersion allocates latest + 1 under the lock of the document row.
InitNewVersion(v) ==
  /\ active
  /\ upload[v] = "ABSENT"
  /\ \A w \in Versions : w < v => upload[w] # "ABSENT"
  /\ upload' = [upload EXCEPT ![v] = "UPLOADING"]
  /\ UNCHANGED <<active, current, etag, appended, storageVars, call>>

\* The browser PUTs to the presigned URL, which outlives the upload, as often
\* as it likes and also what it has written before.
PutStaging(v, x) ==
  /\ upload[v] # "ABSENT"
  /\ staging' = [staging EXCEPT ![v] = x]
  /\ UNCHANGED <<rowVars, final, call>>

\* DocumentsService.delete; the row update waits for a committing complete.
DeleteDocument ==
  /\ active
  /\ active' = FALSE
  /\ UNCHANGED <<current, upload, etag, appended, storageVars, call>>

-----------------------------------------------------------------------------
(* DocumentUploadService.complete *)

At(c, step) == call[c].at = step
Target(c) == call[c].target
Ends(c) == call' = [call EXCEPT ![c] = NoCall]

\* getOwnedVersion, outside any transaction.
Begin(c, v) ==
  /\ At(c, "idle")
  /\ active /\ upload[v] # "ABSENT"
  /\ call' = [call EXCEPT
       ![c].at = IF upload[v] = "RECEIVED" THEN "reverify" ELSE "statStaging",
       ![c].target = v]
  /\ UNCHANGED <<rowVars, storageVars>>

\* assertReceivedObject: reads only.
Reverify(c) == At(c, "reverify") /\ Ends(c) /\ UNCHANGED <<rowVars, storageVars>>

\* finalizeObject, step by step.
StatStaging(c) ==
  LET object == staging[Target(c)] IN
  /\ At(c, "statStaging")
  /\ IF object \in Matching
     THEN call' = [call EXCEPT ![c].at = "statFinal", ![c].seen = object]
     ELSE Ends(c)
  /\ UNCHANGED <<rowVars, storageVars>>

\* A stat of the final object that decides what finalizeObject returns.
Returns(c, object) ==
  IF object \in Matching
  THEN call' = [call EXCEPT ![c].at = "select", ![c].finalized = object]
  ELSE Ends(c)

\* Mutant: the final object is not looked for before the copy.
CopyInAnyCase(c) ==
  /\ At(c, "statFinal")
  /\ call' = [call EXCEPT ![c].at = "copy"]
  /\ UNCHANGED <<rowVars, storageVars>>

StatFinal(c) ==
  LET object == final[Target(c)] IN
  /\ At(c, "statFinal")
  /\ IF object = NoObject THEN call' = [call EXCEPT ![c].at = "copy"] ELSE Returns(c, object)
  /\ UNCHANGED <<rowVars, storageVars>>

\* Mutant: the copy is not conditional on the ETag.
CopyUnconditionally(c) ==
  /\ At(c, "copy")
  /\ call' = [call EXCEPT ![c].at = "statCopied"]
  /\ final' = [final EXCEPT ![Target(c)] = staging[Target(c)]]
  /\ UNCHANGED <<rowVars, staging>>

\* copyObject on the condition that the staging ETag is the one seen.
Copy(c) ==
  /\ At(c, "copy")
  /\ IF staging[Target(c)] = call[c].seen
     THEN /\ call' = [call EXCEPT ![c].at = "statCopied"]
          /\ final' = [final EXCEPT ![Target(c)] = staging[Target(c)]]
     ELSE Ends(c) /\ UNCHANGED final
  /\ UNCHANGED <<rowVars, staging>>

StatCopied(c) ==
  /\ At(c, "statCopied")
  /\ Returns(c, final[Target(c)])
  /\ UNCHANGED <<rowVars, storageVars>>

\* SELECT ... LEFT JOIN document_versions cv ... FOR UPDATE OF d: the
\* statement takes its snapshot, then waits for the lock of the document row.
StartSelect(c) ==
  /\ At(c, "select")
  /\ call' = [call EXCEPT ![c].at = "lock", ![c].snapshot = current]
  /\ UNCHANGED <<rowVars, storageVars>>

(***************************************************************************)
(* cv.version_no as the SELECT returns it, 0 for NULL.  Under READ         *)
(* COMMITTED PostgreSQL rechecks the row of d it had to wait for in its    *)
(* newest version, but keeps the row of cv, which is not locked, from the  *)
(* snapshot.  When the pointer has moved meanwhile the join condition      *)
(* fails and the LEFT JOIN yields NULL.                                    *)
(***************************************************************************)
LockedVersionNo(c) == IF StaleJoin /\ call[c].snapshot # current THEN 0 ELSE current

Promotes(c) == LockedVersionNo(c) = 0 \/ Target(c) > LockedVersionNo(c)

\* The mutations of the transaction, for a version still UPLOADING.
Receive(c) ==
  LET v == Target(c) IN
  /\ etag' = [etag EXCEPT ![v] = call[c].finalized]
  /\ upload' = [upload EXCEPT ![v] = "RECEIVED"]
  /\ current' = IF Promotes(c) THEN v ELSE current
  /\ appended' = [appended EXCEPT ![v] = @ + 1]
  /\ UNCHANGED active

\* Mutant: only getOwnedVersion looks at the document's status.
CommitEvenIfDeleted(c) ==
  /\ At(c, "lock") /\ Ends(c)
  /\ IF upload[Target(c)] = "UPLOADING" THEN Receive(c) ELSE UNCHANGED rowVars
  /\ UNCHANGED storageVars

\* Mutant: the version is not read again under the lock.
CommitWithoutReread(c) ==
  /\ At(c, "lock") /\ Ends(c)
  /\ IF active THEN Receive(c) ELSE UNCHANGED rowVars
  /\ UNCHANGED storageVars

\* The row lock is held from here to the commit, so the rest is one step: a
\* deleted document is 404, a version RECEIVED meanwhile is only compared.
Commit(c) ==
  /\ At(c, "lock") /\ Ends(c)
  /\ IF active /\ upload[Target(c)] = "UPLOADING" THEN Receive(c) ELSE UNCHANGED rowVars
  /\ UNCHANGED storageVars

\* Storage is unavailable, the connection drops, the process dies: the call
\* ends where it is, and an open transaction is rolled back.
BreaksOff(c) == ~At(c, "idle") /\ Ends(c) /\ UNCHANGED <<rowVars, storageVars>>

CompleteStep(c) ==
  \/ StatStaging(c) \/ StatFinal(c) \/ Copy(c) \/ StatCopied(c)
  \/ StartSelect(c) \/ Commit(c) \/ Reverify(c) \/ BreaksOff(c)

Next ==
  \/ \E v \in Versions : InitNewVersion(v) \/ \E x \in Contents : PutStaging(v, x)
  \/ DeleteDocument
  \/ \E c \in Calls : CompleteStep(c) \/ \E v \in Versions : Begin(c, v)

Spec == Init /\ [][Next]_vars

-----------------------------------------------------------------------------
(* Properties *)

\* Every variable has its type.
TypeOK ==
  /\ active \in BOOLEAN
  /\ current \in 0 .. MaxVersions
  /\ upload \in [Versions -> {"ABSENT", "UPLOADING", "RECEIVED"}]
  /\ etag \in [Versions -> Contents \cup {NoObject}]
  /\ appended \in [Versions -> Nat]
  /\ staging \in [Versions -> Contents \cup {NoObject}]
  /\ final \in [Versions -> Contents \cup {NoObject}]
  /\ call \in [Calls -> CallStates]

Received == {v \in Versions : upload[v] = "RECEIVED"}

\* However many calls race for a version, it is announced exactly when it is
\* RECEIVED, and once.
OneEventPerReceipt ==
  \A v \in Versions : appended[v] = IF v \in Received THEN 1 ELSE 0

\* The pointer names a RECEIVED version as soon as there is one, never an
\* upload in progress.
CurrentIsReceived ==
  IF Received = {} THEN current = 0 ELSE current \in Received

\* Whatever the browser writes to the staging key between the stat and the copy:
\* what is under the final key meets the upload contract, and a RECEIVED version
\* has such an object and the ETag of one.
FinalMeetsContract ==
  /\ \A v \in Versions : final[v] \in Matching \cup {NoObject}
  /\ \A v \in Received : final[v] \in Matching /\ etag[v] \in Matching

\* The calls that have found no final object and go on to copy.
Overwriters(v) == {c \in Calls : At(c, "copy") /\ Target(c) = v}

\* A final object is settled as soon as the copies end that were decided on before
\* it was there: no other call joins them, and each replaces it at most once.
FinalSettles ==
  [][\A v \in Versions : final[v] # NoObject =>
       /\ Overwriters(v)' \subseteq Overwriters(v)
       /\ final'[v] # final[v] => Overwriters(v)' # Overwriters(v)]_vars

\* "copies staging to the final immutable object key": the final object of a
\* RECEIVED version, once verified, is never replaced.
FinalIsImmutable == [][\A v \in Received : final'[v] = final[v]]_vars

\* The ETag persisted with a RECEIVED version is that of its final object, so
\* that completing it again verifies.
ReceivedMatchesFinal == \A v \in Received : etag[v] = final[v]

\* "An older version may finish after a newer version ...; it never moves the
\* current pointer backward."
NeverMovesBackward == [][current' >= current]_vars

\* The pointer is the newest RECEIVED version, in whatever order versions
\* are completed.
CurrentIsNewest == \A v \in Received : v <= current

\* What the immutability triggers enforce is never attempted: a RECEIVED
\* version and its verified source are not updated again.
ReceivedIsImmutable ==
  [][\A v \in Received :
       upload'[v] = "RECEIVED" /\ etag'[v] = etag[v] /\ appended'[v] = appended[v]]_vars

\* A deleted document is left alone by calls that began before the deletion.
NothingAfterDelete == [][~active => UNCHANGED rowVars]_vars
=============================================================================
