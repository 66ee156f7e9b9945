------------------------------ MODULE UploadInit ------------------------------
(***************************************************************************)
(* How a document version comes to exist, exactly once per request:        *)
(*   backend/src/documents/document-upload.service.ts (initDocument,       *)
(*                                   initNewVersion, withUploadGrant),     *)
(*   backend/src/idempotency/idempotency.service.ts.                       *)
(*                                                                         *)
(* A client that gets no answer sends its request again under the same     *)
(* Idempotency-Key, while the first one may still be running.  The service *)
(* takes an advisory lock on the key, looks for the record of an earlier   *)
(* answer, locks the document row, takes the next version number, inserts  *)
(* version and record in one transaction, and only then signs the upload   *)
(* URL.                                                                    *)
(*                                                                         *)
(* Left out: the upload policy and the folder of a new document, which are *)
(* checked and end the request (BreaksOff); what happens to the version    *)
(* afterwards (VersionUpload); other users, whose keys and documents are   *)
(* disjoint from these.                                                    *)
(***************************************************************************)
EXTENDS Naturals, Sequences

CONSTANTS
  Documents,     \* ids; a finite set bounds how many are created
  Keys,          \* Idempotency-Keys
  Bodies,        \* request bodies, as far as canonicalHashV1 tells them apart
  Calls,         \* requests running at once
  NewDocument,   \* the scope of initDocument; a document is the scope of its versions
  Free,          \* a lock nobody holds
  Ttl,           \* idempotencyTtlSeconds
  MaxClock,      \* bounds the clock
  MaxVersions    \* bounds the versions of a document

ASSUME NamesAssumption == NewDocument \notin Documents /\ Free \notin Calls
ASSUME TimeAssumption == Ttl \in Nat \ {0} /\ MaxClock \in Nat

Scopes == Documents \cup {NewDocument}
Ids == Scopes \X Keys            \* unique (user_id, scope, key)

VARIABLES
  versions,   \* document -> its versions; the n-th has versionNo n
  deleted,    \* documents with deleted_at set
  records,    \* id -> idempotency record
  locks,      \* id or document -> the call whose transaction holds its lock
  calls,      \* the local state of each call
  clock

vars == <<versions, deleted, records, locks, calls, clock>>

NoRecord == [document |-> NewDocument, no |-> 0, body |-> NewDocument, expiresAt |-> 0]
Records  == [document : Documents, no : Nat \ {0}, body : Bodies, expiresAt : Nat] \cup {NoRecord}
Versions == [id : Ids, body : Bodies, at : Nat]

\* now: read when lockAndFind is called; seen: the row lockAndFind deleted;
\* document, no: the version to insert, then the version to answer with.
CallStates ==
  [at : {"idle", "key", "look", "document", "number", "insert", "violation", "grant"},
   id : Ids \cup {<<>>}, body : Bodies \cup {NewDocument}, now : Nat,
   seen : Records, document : Scopes, no : Nat]

NoCall == [at |-> "idle", id |-> <<>>, body |-> NewDocument, now |-> 0,
           seen |-> NoRecord, document |-> NewDocument, no |-> 0]

Init ==
  /\ versions = [d \in Documents |-> <<>>]
  /\ deleted = {}
  /\ records = [i \in Ids |-> NoRecord]
  /\ locks = [x \in Ids \cup Documents |-> Free]
  /\ calls = [c \in Calls |-> NoCall]
  /\ clock = 0

-----------------------------------------------------------------------------

At(c, step) == calls[c].at = step
Exists(d) == versions[d] # <<>>
Goes(c, step) == calls' = [calls EXCEPT ![c].at = step]

\* The transaction of c is over, committed or rolled back.
Releases(c) == locks' = [x \in DOMAIN locks |-> IF locks[x] = c THEN Free ELSE locks[x]]

Rolls(c) == Releases(c) /\ calls' = [calls EXCEPT ![c] = NoCall]

Takes(c, x) == locks[x] = Free /\ locks' = [locks EXCEPT ![x] = c]

\* A UUID no document has and no call has drawn.
Fresh(d) == ~Exists(d) /\ \A c \in Calls : calls[c].document # d

\* initDocument draws the id of its document, initNewVersion is given it.
Begin(c, scope, k, b, d) ==
  /\ At(c, "idle")
  /\ \/ scope = NewDocument /\ Fresh(d)
     \/ scope = d /\ Exists(d) /\ Len(versions[d]) < MaxVersions
  /\ calls' = [calls EXCEPT ![c].at = "key", ![c].id = <<scope, k>>, ![c].body = b,
                            ![c].now = clock, ![c].document = d, ![c].no = 1]
  /\ UNCHANGED <<versions, deleted, records, locks, clock>>

\* Mutant: lockAndFind without the advisory lock.
KeyUnlocked(c) ==
  /\ At(c, "key") /\ Goes(c, "look")
  /\ UNCHANGED <<versions, deleted, records, locks, clock>>

\* pg_advisory_xact_lock.
LockKey(c) ==
  /\ At(c, "key") /\ Takes(c, calls[c].id) /\ Goes(c, "look")
  /\ UNCHANGED <<versions, deleted, records, clock>>

Expired(c) == records[calls[c].id] # NoRecord /\ records[calls[c].id].expiresAt <= calls[c].now

AfterLook(c) == IF calls[c].id[1] = NewDocument THEN "insert" ELSE "document"

\* Mutant: an earlier answer under this key is returned whatever its request.
FoundUnchecked(c) ==
  /\ At(c, "look") /\ ~Expired(c) /\ records[calls[c].id] # NoRecord
  /\ Releases(c)
  /\ calls' = [calls EXCEPT ![c].at = "grant", ![c].document = records[calls[c].id].document,
                            ![c].no = records[calls[c].id].no]
  /\ UNCHANGED <<versions, deleted, records, clock>>

\* Mutant: the lock is the session's, and the conflict throws past its release.
FoundLocked(c) ==
  LET r == records[calls[c].id] IN
  /\ At(c, "look") /\ ~Expired(c) /\ r # NoRecord
  /\ IF r.body # calls[c].body THEN calls' = [calls EXCEPT ![c] = NoCall] /\ UNCHANGED locks
     ELSE /\ Releases(c)
          /\ calls' = [calls EXCEPT ![c].at = "grant", ![c].document = r.document, ![c].no = r.no]
  /\ UNCHANGED <<versions, deleted, records, clock>>

\* The record of an earlier answer: its response, or IDEMPOTENCY_CONFLICT.
Found(c) ==
  LET r == records[calls[c].id] IN
  /\ At(c, "look") /\ ~Expired(c) /\ r # NoRecord
  /\ IF r.body # calls[c].body THEN Rolls(c)
     ELSE /\ Releases(c)
          /\ calls' = [calls EXCEPT ![c].at = "grant", ![c].document = r.document, ![c].no = r.no]
  /\ UNCHANGED <<versions, deleted, records, clock>>

\* No record, or one that has expired: its deletion is not yet committed.
NotFound(c) ==
  /\ At(c, "look") /\ (Expired(c) \/ records[calls[c].id] = NoRecord)
  /\ calls' = [calls EXCEPT ![c].at = AfterLook(c), ![c].seen = records[calls[c].id]]
  /\ UNCHANGED <<versions, deleted, records, locks, clock>>

\* Mutant: the document is read without FOR UPDATE.
DocumentUnlocked(c) ==
  /\ At(c, "document")
  /\ IF calls[c].document \in deleted THEN Rolls(c) ELSE UNCHANGED locks /\ Goes(c, "number")
  /\ UNCHANGED <<versions, deleted, records, clock>>

\* SELECT ... FOR UPDATE: a row that was waited for is checked again.
LockDocument(c) ==
  LET d == calls[c].document IN
  /\ At(c, "document") /\ locks[d] = Free
  /\ IF d \in deleted THEN Rolls(c) ELSE Takes(c, d) /\ Goes(c, "number")
  /\ UNCHANGED <<versions, deleted, records, clock>>

ReadLatest(c) ==
  /\ At(c, "number")
  /\ calls' = [calls EXCEPT ![c].at = "insert", ![c].no = Len(versions[calls[c].document]) + 1]
  /\ UNCHANGED <<versions, deleted, records, locks, clock>>

\* Another transaction has committed the same key or the same version number.
Duplicate(c) ==
  \/ records[calls[c].id] # calls[c].seen
  \/ calls[c].no # Len(versions[calls[c].document]) + 1

Row(c) == [id |-> calls[c].id, body |-> calls[c].body, at |-> clock]

Record(c) == [document |-> calls[c].document, no |-> calls[c].no, body |-> calls[c].body,
              expiresAt |-> clock + Ttl]

\* Mutant: the record is written after the transaction, if at all.
InsertWithoutRecord(c) ==
  /\ At(c, "insert")
  /\ IF Duplicate(c) THEN Goes(c, "violation") /\ UNCHANGED <<versions, records, locks>>
     ELSE /\ versions' = [versions EXCEPT ![calls[c].document] = Append(@, Row(c))]
          /\ Releases(c)
          /\ Goes(c, "grant")
          /\ UNCHANGED records
  /\ UNCHANGED <<deleted, clock>>

\* The inserts and the commit: version, source and record appear together.
Insert(c) ==
  /\ At(c, "insert")
  /\ IF Duplicate(c) THEN Goes(c, "violation") /\ UNCHANGED <<versions, records, locks>>
     ELSE /\ versions' = [versions EXCEPT ![calls[c].document] = Append(@, Row(c))]
          /\ records' = [records EXCEPT ![calls[c].id] = Record(c)]
          /\ Releases(c)
          /\ Goes(c, "grant")
  /\ UNCHANGED <<deleted, clock>>

\* withUploadGrant, and the answer.
Grant(c) ==
  /\ At(c, "grant")
  /\ calls' = [calls EXCEPT ![c] = NoCall]
  /\ UNCHANGED <<versions, deleted, records, locks, clock>>

\* A failing statement, a lost connection, a restart of the service: the
\* transaction is rolled back, or its answer is lost.
BreaksOff(c) ==
  /\ ~At(c, "idle") /\ Rolls(c)
  /\ UNCHANGED <<versions, deleted, records, clock>>

\* DocumentsService.delete updates the row, so it waits for the row's lock.
DeleteDocument(d) ==
  /\ Exists(d) /\ d \notin deleted /\ locks[d] = Free
  /\ deleted' = deleted \cup {d}
  /\ UNCHANGED <<versions, records, locks, calls, clock>>

Tick ==
  /\ clock < MaxClock /\ clock' = clock + 1
  /\ UNCHANGED <<versions, deleted, records, locks, calls>>

Proceed(c) ==
  \/ LockKey(c) \/ Found(c) \/ NotFound(c)
  \/ LockDocument(c) \/ ReadLatest(c) \/ Insert(c) \/ Grant(c)

Next ==
  \/ \E c \in Calls :
       \/ \E scope \in Scopes, k \in Keys, b \in Bodies, d \in Documents : Begin(c, scope, k, b, d)
       \/ Proceed(c)
       \/ BreaksOff(c)
  \/ \E d \in Documents : DeleteDocument(d)
  \/ Tick

\* A statement that can run is run, and PostgreSQL hands a lock to the
\* transaction that has waited longest.
Fairness == \A c \in Calls : SF_vars(Proceed(c))

Spec == Init /\ [][Next]_vars
FairSpec == Spec /\ Fairness

-----------------------------------------------------------------------------
(* Properties *)

\* Every variable has its type.
TypeOK ==
  /\ versions \in [Documents -> Seq(Versions)]
  /\ deleted \subseteq Documents
  /\ records \in [Ids -> Records]
  /\ locks \in [Ids \cup Documents -> Calls \cup {Free}]
  /\ calls \in [Calls -> CallStates]
  /\ clock \in Nat

\* "makes init-upload semantically idempotent": requests repeated under one key
\* create one version, until the time to live of their record is over.
OneVersionPerKey ==
  \A d, e \in Documents : \A m \in 1..Len(versions[d]), n \in 1..Len(versions[e]) :
    /\ versions[d][m].id = versions[e][n].id
    /\ versions[d][m].at <= versions[e][n].at
    => <<d, m>> = <<e, n>> \/ versions[d][m].at + Ttl <= versions[e][n].at

\* A caller is answered with a version that is committed, and that was created
\* for this key and this body; "Upload source was not persisted" is never thrown.
AnswersItsOwnRequest ==
  \A c \in Calls : At(c, "grant") =>
    LET d == calls[c].document  n == calls[c].no IN
    /\ d \in Documents /\ n \in 1..Len(versions[d])
    /\ versions[d][n].id = calls[c].id /\ versions[d][n].body = calls[c].body

\* "serializes concurrent version allocation": the locks suffice, no insert ever
\* runs into a unique constraint, so two simultaneous requests both succeed.
LocksSuffice == \A c \in Calls : ~At(c, "violation")

\* "The server locks the owned ACTIVE Document before allocating the next
\* versionNo": a deleted document gets no further version, however long ago the
\* request for it began.
NoVersionAfterDelete == [][\A d \in deleted : versions'[d] = versions[d]]_vars

\* No request waits for ever for a lock.
CallsEnd == \A c \in Calls : ~At(c, "idle") ~> At(c, "idle")
=============================================================================
