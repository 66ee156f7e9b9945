--------------------------- MODULE UploadInitProofs ---------------------------
(***************************************************************************)
(* Proofs about UploadInit, for every number of calls, documents, keys and *)
(* bodies and every time to live.  The argument:                           *)
(*   - a call past LockKey holds the lock of its key and one past          *)
(*     LockDocument the lock of its document (CallInv), so what it has     *)
(*     read of the record and of the version numbers is still true;        *)
(*   - a record names a version made under its key, and every older        *)
(*     version of that key is at least a time to live older (DataInv).     *)
(***************************************************************************)
EXTENDS UploadInit, TLAPS

Working(c) == calls[c].at \in {"key", "look", "document", "number", "insert"}
Draws(c) == Working(c) /\ calls[c].id[1] = NewDocument

\* The row a record or an answer names was made under this key for this body.
Names(vs, d, n, i, b) ==
  /\ d \in Documents /\ n \in 1..Len(vs[d])
  /\ vs[d][n].id = i /\ vs[d][n].body = b

Holds(c) ==
  /\ calls[c].at \in {"look", "document", "number", "insert"} => locks[calls[c].id] = c
  /\ calls[c].at \in {"document", "number"} => calls[c].id[1] # NewDocument
  /\ (calls[c].at \in {"number", "insert"} /\ calls[c].id[1] # NewDocument)
       => locks[calls[c].document] = c /\ calls[c].document \notin deleted

\* What c has read is what the tables say now.
ReadsHold(c) ==
  /\ calls[c].at \in {"document", "number", "insert"}
       => /\ records[calls[c].id] = calls[c].seen
          /\ calls[c].seen = NoRecord \/ calls[c].seen.expiresAt <= calls[c].now
  /\ calls[c].at = "insert" => calls[c].no = Len(versions[calls[c].document]) + 1

Given(c) ==
  /\ Working(c) => /\ calls[c].id \in Ids /\ calls[c].body \in Bodies
                   /\ calls[c].document \in Documents /\ calls[c].now <= clock
  /\ Draws(c) => /\ ~Exists(calls[c].document) /\ calls[c].no = 1
                 /\ \A q \in Calls \ {c} : calls[q].document # calls[c].document

Answers(c) ==
  calls[c].at = "grant" => Names(versions, calls[c].document, calls[c].no, calls[c].id, calls[c].body)

CallInv(c) ==
  Given(c) /\ Holds(c) /\ ReadsHold(c) /\ Answers(c) /\ calls[c].at # "violation"

RecordsName ==
  \A i \in Ids : records[i] # NoRecord =>
    /\ Names(versions, records[i].document, records[i].no, i, records[i].body)
    /\ records[i].expiresAt = versions[records[i].document][records[i].no].at + Ttl

\* A version is the one its key's record names, or a time to live older.
RecordIsNewest ==
  \A d \in Documents : \A n \in 1..Len(versions[d]) :
    LET v == versions[d][n]  r == records[v.id] IN
    /\ v.at <= clock /\ r # NoRecord
    /\ <<r.document, r.no>> = <<d, n>> \/ v.at + Ttl + Ttl <= r.expiresAt

DataInv ==
  /\ RecordsName /\ RecordIsNewest /\ OneVersionPerKey
  /\ \A d \in deleted : Exists(d)

IInv == TypeOK /\ DataInv /\ \A c \in Calls : CallInv(c)

-----------------------------------------------------------------------------
(* Types *)

LEMMA NoRecordType ==
  /\ NoRecord \in Records
  /\ \A r \in Records : r # NoRecord =>
       r.document \in Documents /\ r.no \in Nat \ {0} /\ r.body \in Bodies /\ r.expiresAt \in Nat
<1>1. NoRecord \in Records
  BY DEF Records
<1>2. ASSUME NEW r \in Records, r # NoRecord
      PROVE  r.document \in Documents /\ r.no \in Nat \ {0} /\ r.body \in Bodies /\ r.expiresAt \in Nat
  BY <1>2 DEF Records
<1> QED BY <1>1, <1>2

LEMMA NoCallType ==
  /\ NoCall \in CallStates
  /\ NoCall.at = "idle" /\ NoCall.document = NewDocument
BY NoRecordType DEF NoCall, CallStates, Scopes

LEMMA CallTypes ==
  ASSUME TypeOK, NEW c \in Calls
  PROVE  /\ calls \in [Calls -> CallStates] /\ calls[c] \in CallStates
         /\ calls[c].id \in Ids \cup {<<>>} /\ calls[c].body \in Bodies \cup {NewDocument}
         /\ calls[c].now \in Nat /\ calls[c].seen \in Records
         /\ calls[c].document \in Scopes /\ calls[c].no \in Nat
<1>1. calls \in [Calls -> CallStates] /\ calls[c] \in CallStates
  BY DEF TypeOK
<1> QED BY <1>1 DEF CallStates

LEMMA LocksReleased ==
  ASSUME TypeOK, NEW c \in Calls, Releases(c)
  PROVE  /\ locks' \in [Ids \cup Documents -> Calls \cup {Free}]
         /\ \A x \in Ids \cup Documents : \A q \in Calls \ {c} : locks[x] = q => locks'[x] = q
BY NamesAssumption DEF TypeOK, Releases

-----------------------------------------------------------------------------
(* A step of one call that writes no table disturbs no other call. *)

LEMMA LocalStep ==
  ASSUME IInv, NEW c \in Calls, UNCHANGED <<versions, deleted, records, clock>>,
         calls' \in [Calls -> CallStates], locks' \in [Ids \cup Documents -> Calls \cup {Free}],
         \A q \in Calls \ {c} : calls'[q] = calls[q],
         \A x \in Ids \cup Documents : \A q \in Calls \ {c} : locks[x] = q => locks'[x] = q,
         \A q \in Calls \ {c} : Draws(q) => calls'[c].document # calls[q].document,
         CallInv(c)'
  PROVE  IInv'
<1>1. TypeOK'
  BY DEF IInv, TypeOK
<1>2. DataInv'
  BY DEF IInv, DataInv, RecordsName, Names, RecordIsNewest, OneVersionPerKey, Exists
<1>3. ASSUME NEW q \in Calls, q # c PROVE CallInv(q)'
  <2>1. CallInv(q) /\ calls'[q] = calls[q]
    BY <1>3 DEF IInv
  <2>2. Given(q)'
    <3>1. Draws(q)' => \A p \in Calls \ {q} : calls'[p].document # calls'[q].document
      BY <1>3, <2>1 DEF CallInv, Given, Draws, Working
    <3> QED BY <2>1, <3>1 DEF CallInv, Given, Draws, Working, Exists
  <2>3. Holds(q)'
    <3>1. Working(q) => calls[q].id \in Ids /\ calls[q].document \in Documents
      BY <2>1 DEF CallInv, Given
    <3> QED BY <1>3, <2>1, <3>1 DEF CallInv, Holds, Working
  <2>4. ReadsHold(q)' /\ Answers(q)'
    BY <2>1 DEF CallInv, ReadsHold, Answers, Names
  <2> QED BY <2>1, <2>2, <2>3, <2>4 DEF CallInv
<1> QED BY <1>1, <1>2, <1>3 DEF IInv

\* The call ends and its locks, if it has any, are released.
LEMMA EndStep ==
  ASSUME IInv, NEW c \in Calls, UNCHANGED <<versions, deleted, records, clock>>,
         UNCHANGED locks \/ Releases(c), calls' = [calls EXCEPT ![c] = NoCall]
  PROVE  IInv'
<1>1. TypeOK
  BY DEF IInv
<1>2. /\ calls' \in [Calls -> CallStates] /\ calls'[c] = NoCall
      /\ \A q \in Calls \ {c} : calls'[q] = calls[q]
  BY <1>1, NoCallType DEF TypeOK
<1>3. /\ locks' \in [Ids \cup Documents -> Calls \cup {Free}]
      /\ \A x \in Ids \cup Documents : \A q \in Calls \ {c} : locks[x] = q => locks'[x] = q
  <2>1. CASE UNCHANGED locks
    BY <1>1, <2>1 DEF TypeOK
  <2>2. CASE Releases(c)
    BY <1>1, <2>2, LocksReleased
  <2> QED BY <2>1, <2>2
<1>4. \A q \in Calls \ {c} : Draws(q) => calls'[c].document # calls[q].document
  <2> SUFFICES ASSUME NEW q \in Calls \ {c}, Draws(q) PROVE calls[q].document # NewDocument
    BY <1>2, NoCallType
  <2>1. calls[q].document \in Documents
    BY DEF IInv, CallInv, Given, Draws
  <2> QED BY <2>1, NamesAssumption
<1>5. CallInv(c)'
  BY <1>2, NoCallType DEF CallInv, Given, Draws, Working, Holds, ReadsHold, Answers
<1> QED BY <1>2, <1>3, <1>4, <1>5, LocalStep

-----------------------------------------------------------------------------
(* The actions of a call *)

LEMMA BeginKeeps ==
  ASSUME IInv, NEW c \in Calls, NEW scope \in Scopes, NEW k \in Keys, NEW b \in Bodies,
         NEW d \in Documents, Begin(c, scope, k, b, d)
  PROVE  IInv'
<1>1. TypeOK /\ calls[c] \in CallStates /\ <<scope, k>> \in Ids /\ d \in Scopes
  BY CallTypes DEF IInv, Ids, Scopes
<1>2. calls' \in [Calls -> CallStates]
  BY <1>1, CallTypes DEF Begin, CallStates, TypeOK
<1>3. /\ \A q \in Calls \ {c} : calls'[q] = calls[q]
      /\ calls'[c].at = "key" /\ calls'[c].id = <<scope, k>> /\ calls'[c].body = b
      /\ calls'[c].now = clock /\ calls'[c].document = d /\ calls'[c].no = 1
  BY <1>1, CallTypes DEF Begin, CallStates
<1>4. locks' \in [Ids \cup Documents -> Calls \cup {Free}]
  BY <1>1 DEF Begin, TypeOK
<1>5. \A q \in Calls \ {c} : Draws(q) => d # calls[q].document
  BY DEF IInv, CallInv, Given, Begin, Fresh
<1>6. CallInv(c)'
  <2>1. scope = NewDocument => Fresh(d)
    BY NamesAssumption DEF Begin
  <2>2. clock \in Nat
    BY <1>1 DEF TypeOK
  <2>3. Given(c)'
    <3>1. Draws(c)' => Fresh(d)
      BY <1>3, <2>1 DEF Draws
    <3>2. Draws(c)' => ~Exists(d)' /\ \A q \in Calls \ {c} : calls'[q].document # d
      BY <1>3, <3>1 DEF Fresh, Exists, Begin
    <3>3. clock' = clock /\ clock <= clock
      BY <2>2 DEF Begin
    <3> QED BY <1>1, <1>3, <3>2, <3>3 DEF Given, Exists
  <2> QED BY <1>3, <2>3 DEF CallInv, Holds, ReadsHold, Answers
<1> QED BY <1>2, <1>3, <1>4, <1>5, <1>6, LocalStep DEF Begin

LEMMA LockKeyKeeps == ASSUME IInv, NEW c \in Calls, LockKey(c) PROVE IInv'
<1>1. TypeOK /\ CallInv(c) /\ calls[c] \in CallStates /\ calls[c].id \in Ids
  BY CallTypes DEF IInv, CallInv, Given, Working, LockKey, At
<1>2. /\ calls' \in [Calls -> CallStates] /\ \A q \in Calls \ {c} : calls'[q] = calls[q]
      /\ calls'[c] = [calls[c] EXCEPT !.at = "look"]
  BY <1>1, CallTypes DEF LockKey, Goes, CallStates, TypeOK
<1>3. /\ locks' \in [Ids \cup Documents -> Calls \cup {Free}] /\ locks'[calls[c].id] = c
      /\ \A x \in Ids \cup Documents : \A q \in Calls \ {c} : locks[x] = q => locks'[x] = q
  BY <1>1, NamesAssumption DEF LockKey, Takes, TypeOK
<1>4. \A q \in Calls \ {c} : Draws(q) => calls'[c].document # calls[q].document
  BY <1>1, <1>2 DEF IInv, CallInv, Given, CallStates
<1>5. CallInv(c)'
  BY <1>1, <1>2, <1>3 DEF LockKey, At, CallStates, CallInv, Given, Draws, Working, Exists,
                          Holds, ReadsHold, Answers
<1> QED BY <1>2, <1>3, <1>4, <1>5, LocalStep DEF LockKey

LEMMA FoundKeeps == ASSUME IInv, NEW c \in Calls, Found(c) PROVE IInv'
<1> DEFINE r == records[calls[c].id]
<1>1. TypeOK /\ CallInv(c) /\ calls[c] \in CallStates /\ calls[c].id \in Ids
  BY CallTypes DEF IInv, CallInv, Given, Working, Found, At
<1>2. CASE r.body # calls[c].body
  BY <1>2, EndStep DEF Found, Rolls
<1>3. CASE r.body = calls[c].body
  <2>1. r \in Records /\ r # NoRecord /\ r.document \in Documents /\ r.no \in Nat
    BY <1>1, NoRecordType DEF TypeOK, Found
  <2>2. calls' = [calls EXCEPT ![c].at = "grant", ![c].document = r.document, ![c].no = r.no]
    BY <1>3 DEF Found
  <2>3. /\ calls' \in [Calls -> CallStates] /\ \A q \in Calls \ {c} : calls'[q] = calls[q]
        /\ calls'[c].at = "grant" /\ calls'[c].document = r.document /\ calls'[c].no = r.no
        /\ calls'[c].id = calls[c].id /\ calls'[c].body = calls[c].body
    BY <1>1, <2>1, <2>2, CallTypes DEF CallStates, Scopes, TypeOK
  <2>4. /\ locks' \in [Ids \cup Documents -> Calls \cup {Free}]
        /\ \A x \in Ids \cup Documents : \A q \in Calls \ {c} : locks[x] = q => locks'[x] = q
    BY <1>1, <1>3, LocksReleased DEF Found
  <2>5. Names(versions, r.document, r.no, calls[c].id, r.body)
    BY <1>1, <2>1 DEF IInv, DataInv, RecordsName
  <2>6. \A q \in Calls \ {c} : Draws(q) => calls'[c].document # calls[q].document
    <3>1. Exists(r.document)
      BY <1>1, <2>1, <2>5 DEF Names, Exists, TypeOK
    <3> QED BY <2>3, <3>1 DEF IInv, CallInv, Given
  <2>7. CallInv(c)'
    BY <1>3, <2>3, <2>5 DEF Found, CallInv, Given, Draws, Working, Holds, ReadsHold, Answers, Names
  <2> QED BY <2>3, <2>4, <2>6, <2>7, LocalStep DEF Found
<1> QED BY <1>2, <1>3

LEMMA NotFoundKeeps == ASSUME IInv, NEW c \in Calls, NotFound(c) PROVE IInv'
<1> DEFINE r == records[calls[c].id]
<1>1. TypeOK /\ CallInv(c) /\ calls[c] \in CallStates /\ calls[c].id \in Ids /\ r \in Records
  BY CallTypes DEF IInv, CallInv, Given, Working, NotFound, At, TypeOK
<1>2. AfterLook(c) \in {"insert", "document"}
  BY DEF AfterLook
<1>3. /\ calls' \in [Calls -> CallStates] /\ \A q \in Calls \ {c} : calls'[q] = calls[q]
      /\ calls'[c].at = AfterLook(c) /\ calls'[c].seen = r
      /\ calls'[c].id = calls[c].id /\ calls'[c].body = calls[c].body
      /\ calls'[c].now = calls[c].now /\ calls'[c].no = calls[c].no
      /\ calls'[c].document = calls[c].document
  BY <1>1, <1>2, CallTypes DEF NotFound, CallStates, TypeOK
<1>4. locks' \in [Ids \cup Documents -> Calls \cup {Free}]
  BY <1>1 DEF NotFound, TypeOK
<1>5. \A q \in Calls \ {c} : Draws(q) => calls'[c].document # calls[q].document
  BY <1>3 DEF IInv, CallInv, Given
<1>6. CallInv(c)'
  <2>1. At(c, "look") /\ Given(c) /\ locks[calls[c].id] = c
    BY <1>1 DEF NotFound, At, CallInv, Holds
  <2>2. Given(c)'
    BY <1>2, <1>3, <2>1 DEF NotFound, At, Given, Draws, Working, Exists
  <2>3. Holds(c)'
    BY <1>2, <1>3, <2>1 DEF NotFound, Holds, AfterLook
  <2>4. ReadsHold(c)'
    <3>1. r = NoRecord \/ r.expiresAt <= calls[c].now
      BY DEF NotFound, Expired
    <3>2. AfterLook(c) = "insert" => calls[c].no = 1 /\ versions[calls[c].document] = <<>>
      BY <2>1 DEF AfterLook, Given, Draws, Working, At, Exists
    <3>3. AfterLook(c) = "insert" => calls[c].no = Len(versions[calls[c].document]) + 1
      BY <3>2
    <3> QED BY <1>2, <1>3, <3>1, <3>3 DEF NotFound, ReadsHold
  <2> QED BY <1>2, <1>3, <2>2, <2>3, <2>4 DEF CallInv, Answers
<1> QED BY <1>3, <1>4, <1>5, <1>6, LocalStep DEF NotFound

LEMMA LockDocumentKeeps == ASSUME IInv, NEW c \in Calls, LockDocument(c) PROVE IInv'
<1> DEFINE d == calls[c].document
<1>1. TypeOK /\ CallInv(c) /\ calls[c] \in CallStates /\ calls[c].id \in Ids /\ d \in Documents
  BY CallTypes DEF IInv, CallInv, Given, Working, LockDocument, At
<1>2. CASE d \in deleted
  BY <1>2, EndStep DEF LockDocument, Rolls
<1>3. CASE d \notin deleted
  <2>1. /\ calls' \in [Calls -> CallStates] /\ \A q \in Calls \ {c} : calls'[q] = calls[q]
        /\ calls'[c] = [calls[c] EXCEPT !.at = "number"]
    <3>1. calls' = [calls EXCEPT ![c].at = "number"]
      BY <1>3 DEF LockDocument, Goes
    <3> QED BY <1>1, <3>1, CallTypes DEF CallStates
  <2>2. /\ locks' \in [Ids \cup Documents -> Calls \cup {Free}] /\ locks'[d] = c
        /\ \A x \in Ids \cup Documents : locks[x] = c => locks'[x] = c
        /\ \A x \in Ids \cup Documents : \A q \in Calls \ {c} : locks[x] = q => locks'[x] = q
    BY <1>1, <1>3, NamesAssumption DEF LockDocument, Takes, TypeOK
  <2>3. \A q \in Calls \ {c} : Draws(q) => calls'[c].document # calls[q].document
    BY <1>1, <2>1 DEF IInv, CallInv, Given, CallStates
  <2>4. CallInv(c)'
    <3>1. At(c, "document") /\ Given(c) /\ Holds(c) /\ ReadsHold(c)
      BY <1>1 DEF CallInv, LockDocument
    <3>2. Given(c)'
      BY <1>1, <2>1, <3>1 DEF LockDocument, At, CallStates, Given, Draws, Working, Exists
    <3>3. Holds(c)'
      BY <1>1, <1>3, <2>1, <2>2, <3>1 DEF LockDocument, At, CallStates, Holds
    <3>4. ReadsHold(c)'
      BY <1>1, <2>1, <3>1 DEF LockDocument, At, CallStates, ReadsHold
    <3> QED BY <1>1, <2>1, <3>2, <3>3, <3>4 DEF CallInv, Answers, CallStates
  <2>5. UNCHANGED <<versions, deleted, records, clock>>
    BY DEF LockDocument
  <2> QED BY <2>1, <2>2, <2>3, <2>4, <2>5, LocalStep
<1> QED BY <1>2, <1>3

LEMMA ReadLatestKeeps == ASSUME IInv, NEW c \in Calls, ReadLatest(c) PROVE IInv'
<1> DEFINE n == Len(versions[calls[c].document]) + 1
<1>1. /\ TypeOK /\ CallInv(c) /\ calls[c] \in CallStates /\ calls[c].document \in Documents
      /\ n \in Nat
  BY CallTypes DEF IInv, CallInv, Given, Working, ReadLatest, At, TypeOK
<1>2. /\ calls' \in [Calls -> CallStates] /\ \A q \in Calls \ {c} : calls'[q] = calls[q]
      /\ calls'[c] = [calls[c] EXCEPT !.at = "insert", !.no = n]
  BY <1>1, CallTypes DEF ReadLatest, CallStates, TypeOK
<1>3. locks' \in [Ids \cup Documents -> Calls \cup {Free}]
  BY <1>1 DEF ReadLatest, TypeOK
<1>4. \A q \in Calls \ {c} : Draws(q) => calls'[c].document # calls[q].document
  BY <1>1, <1>2 DEF IInv, CallInv, Given, CallStates
<1>5. CallInv(c)'
  <2>1. At(c, "number") /\ Given(c) /\ Holds(c) /\ ReadsHold(c)
    BY <1>1 DEF CallInv, ReadLatest
  <2>2. Given(c)' /\ Holds(c)'
    BY <1>1, <1>2, <2>1 DEF ReadLatest, At, CallStates, Given, Draws, Working, Exists, Holds
  <2>3. ReadsHold(c)'
    BY <1>1, <1>2, <2>1 DEF ReadLatest, At, CallStates, ReadsHold
  <2> QED BY <1>1, <1>2, <2>2, <2>3 DEF CallInv, Answers, CallStates
<1> QED BY <1>2, <1>3, <1>4, <1>5, LocalStep DEF ReadLatest
-----------------------------------------------------------------------------
(* Insert: the one step of a call that writes tables *)

\* What c has read still holds, so no unique constraint can fire.
LEMMA NoDuplicate == ASSUME IInv, NEW c \in Calls, At(c, "insert") PROVE ~Duplicate(c)
BY DEF IInv, CallInv, ReadsHold, At, Duplicate

LEMMA InsertFacts ==
  ASSUME IInv, NEW c \in Calls, Insert(c)
  PROVE  /\ TypeOK /\ CallInv(c) /\ calls[c].id \in Ids /\ calls[c].body \in Bodies
         /\ calls[c].document \in Documents /\ Row(c) \in Versions /\ Record(c) \in Records
         /\ Record(c) # NoRecord
         /\ versions' = [versions EXCEPT ![calls[c].document] = Append(@, Row(c))]
         /\ records' = [records EXCEPT ![calls[c].id] = Record(c)]
         /\ Releases(c) /\ calls' = [calls EXCEPT ![c].at = "grant"]
         /\ deleted' = deleted /\ clock' = clock
<1>1. TypeOK /\ CallInv(c) /\ At(c, "insert")
  BY DEF IInv, Insert
<1>2. /\ calls[c].id \in Ids /\ calls[c].body \in Bodies /\ calls[c].document \in Documents
      /\ calls[c].no = Len(versions[calls[c].document]) + 1
  BY <1>1 DEF CallInv, Given, Working, ReadsHold, At
<1>3. versions[calls[c].document] \in Seq(Versions) /\ clock \in Nat /\ clock + Ttl \in Nat
  BY <1>1, <1>2, TimeAssumption DEF TypeOK
<1>4. calls[c].no \in Nat \ {0}
  BY <1>2, <1>3
<1>5. Row(c) \in Versions
  BY <1>2, <1>3 DEF Row, Versions
<1>6. Record(c) \in Records /\ Record(c) # NoRecord
  BY <1>2, <1>3, <1>4, NamesAssumption DEF Record, Records, NoRecord
<1> QED BY <1>1, <1>2, <1>5, <1>6, NoDuplicate DEF Insert, Goes

\* The document of c grows by one row, every other document stays as it is.
LEMMA InsertRows ==
  ASSUME IInv, NEW c \in Calls, Insert(c)
  PROVE  LET d == calls[c].document IN
         /\ versions' \in [Documents -> Seq(Versions)]
         /\ calls[c].no = Len(versions[d]) + 1 /\ Len(versions[d]) \in Nat
         /\ Len(versions'[d]) = Len(versions[d]) + 1
         /\ versions'[d][calls[c].no] = Row(c)
         /\ \A n \in 1..Len(versions[d]) : versions'[d][n] = versions[d][n]
         /\ \A e \in Documents \ {d} : versions'[e] = versions[e]
<1> DEFINE d == calls[c].document
<1>1. /\ d \in Documents /\ versions \in [Documents -> Seq(Versions)] /\ Row(c) \in Versions
      /\ versions' = [versions EXCEPT ![d] = Append(@, Row(c))]
  BY InsertFacts DEF TypeOK
<1>2. versions[d] \in Seq(Versions) /\ versions'[d] = Append(versions[d], Row(c))
  BY <1>1
<1>3. calls[c].no = Len(versions[d]) + 1
  BY DEF IInv, CallInv, ReadsHold, Insert, At
<1>4. /\ Len(versions[d]) \in Nat /\ Len(versions'[d]) = Len(versions[d]) + 1
      /\ versions'[d][Len(versions[d]) + 1] = Row(c)
      /\ \A n \in 1..Len(versions[d]) : versions'[d][n] = versions[d][n]
  BY <1>1, <1>2
<1>5. /\ versions' \in [Documents -> Seq(Versions)]
      /\ \A e \in Documents \ {d} : versions'[e] = versions[e]
  BY <1>1, <1>2
<1> QED BY <1>3, <1>4, <1>5

LEMMA InsertNames ==
  ASSUME IInv, NEW c \in Calls, Insert(c), NEW d, NEW n, NEW i, NEW b, Names(versions, d, n, i, b)
  PROVE  Names(versions', d, n, i, b) /\ versions'[d][n] = versions[d][n]
<1>1. d \in Documents /\ n \in 1..Len(versions[d])
  BY DEF Names
<1>2. CASE d = calls[c].document
  BY <1>1, <1>2, InsertRows DEF Names
<1>3. CASE d # calls[c].document
  BY <1>1, <1>3, InsertRows DEF Names
<1> QED BY <1>2, <1>3

\* Every row after the step is the new one or was there before.
LEMMA InsertSplit ==
  ASSUME IInv, NEW c \in Calls, Insert(c), NEW e \in Documents, NEW n \in 1..Len(versions'[e])
  PROVE  \/ e = calls[c].document /\ n = calls[c].no /\ versions'[e][n] = Row(c)
         \/ n \in 1..Len(versions[e]) /\ versions'[e][n] = versions[e][n]
<1>1. CASE e = calls[c].document
  <2>1. n = Len(versions[e]) + 1 \/ n \in 1..Len(versions[e])
    BY <1>1, InsertRows
  <2> QED BY <1>1, <2>1, InsertRows
<1>2. CASE e # calls[c].document
  BY <1>2, InsertRows
<1> QED BY <1>1, <1>2

LEMMA RowTypes ==
  ASSUME TypeOK, NEW d \in Documents, NEW n \in 1..Len(versions[d])
  PROVE  versions[d][n].at \in Nat /\ versions[d][n].id \in Ids
<1>1. versions[d] \in Seq(Versions)
  BY DEF TypeOK
<1>2. versions[d][n] \in Versions
  BY <1>1
<1> QED BY <1>2 DEF Versions

\* An earlier version of the key that is inserted now has outlived its record.
LEMMA EarlierIsOld ==
  ASSUME IInv, NEW c \in Calls, Insert(c), NEW d \in Documents, NEW n \in 1..Len(versions[d]),
         versions[d][n].id = calls[c].id
  PROVE  versions[d][n].at + Ttl <= clock
<1> DEFINE v == versions[d][n]
<1> DEFINE r == records[calls[c].id]
<1>1. /\ TypeOK /\ calls[c].id \in Ids /\ calls[c].seen = r /\ calls[c].now \in Nat
      /\ (r = NoRecord \/ r.expiresAt <= calls[c].now) /\ calls[c].now <= clock
  BY CallTypes DEF IInv, CallInv, ReadsHold, Given, Working, Insert, At
<1>2. r # NoRecord /\ (<<r.document, r.no>> = <<d, n>> \/ v.at + Ttl + Ttl <= r.expiresAt)
  BY DEF IInv, DataInv, RecordIsNewest
<1>3. r.expiresAt = versions[r.document][r.no].at + Ttl
  BY <1>1, <1>2 DEF IInv, DataInv, RecordsName
<1>4. v.at \in Nat /\ Ttl \in Nat /\ clock \in Nat /\ r.expiresAt \in Nat
  BY <1>1, <1>2, RowTypes, NoRecordType, TimeAssumption DEF TypeOK
<1>5. r.expiresAt <= clock
  <2>1. \A a, b, t \in Nat : a <= b /\ b <= t => a <= t
    OBVIOUS
  <2> QED BY <1>1, <1>2, <1>4, <2>1
<1>6. v.at + Ttl <= r.expiresAt
  <2>1. CASE <<r.document, r.no>> = <<d, n>>
    BY <1>3, <1>4, <2>1
  <2>2. CASE v.at + Ttl + Ttl <= r.expiresAt
    BY <1>4, <2>2
  <2> QED BY <1>2, <2>1, <2>2
<1>7. \A a, t, x, z \in Nat : a + t <= x /\ x <= z => a + t <= z
  OBVIOUS
<1> QED BY <1>4, <1>5, <1>6, <1>7

LEMMA InsertData == ASSUME IInv, NEW c \in Calls, Insert(c) PROVE DataInv'
<1> DEFINE i == calls[c].id
<1>1. /\ TypeOK /\ i \in Ids /\ records' = [records EXCEPT ![i] = Record(c)]
      /\ records \in [Ids -> Records] /\ Record(c) # NoRecord
      /\ deleted' = deleted /\ clock' = clock /\ clock \in Nat /\ Ttl \in Nat \ {0}
  BY InsertFacts, TimeAssumption DEF TypeOK
<1>2. /\ Row(c).id = i /\ Row(c).body = calls[c].body /\ Row(c).at = clock
      /\ Record(c).document = calls[c].document /\ Record(c).no = calls[c].no
      /\ Record(c).body = calls[c].body /\ Record(c).expiresAt = clock + Ttl
  BY DEF Row, Record
<1>3. RecordsName'
  <2> SUFFICES ASSUME NEW j \in Ids, records'[j] # NoRecord
               PROVE  /\ Names(versions', records'[j].document, records'[j].no, j, records'[j].body)
                      /\ records'[j].expiresAt
                           = versions'[records'[j].document][records'[j].no].at + Ttl
    BY DEF RecordsName
  <2>1. CASE j = i
    <3>1. records'[j] = Record(c)
      BY <1>1, <2>1
    <3>2. Names(versions', calls[c].document, calls[c].no, i, calls[c].body)
      BY <1>2, InsertFacts, InsertRows DEF Names
    <3> QED BY <1>2, <2>1, <3>1, <3>2, InsertRows
  <2>2. CASE j # i
    <3>1. records'[j] = records[j]
      BY <1>1, <2>2
    <3>2. /\ Names(versions, records[j].document, records[j].no, j, records[j].body)
          /\ records[j].expiresAt = versions[records[j].document][records[j].no].at + Ttl
      BY <3>1 DEF IInv, DataInv, RecordsName
    <3> QED BY <3>1, <3>2, InsertNames
  <2> QED BY <2>1, <2>2
<1>4. RecordIsNewest'
  <2> SUFFICES ASSUME NEW d \in Documents, NEW n \in 1..Len(versions'[d])
               PROVE  LET v == versions'[d][n]  r == records'[v.id] IN
                      /\ v.at <= clock /\ r # NoRecord
                      /\ <<r.document, r.no>> = <<d, n>> \/ v.at + Ttl + Ttl <= r.expiresAt
    BY <1>1 DEF RecordIsNewest
  <2>1. CASE d = calls[c].document /\ n = calls[c].no /\ versions'[d][n] = Row(c)
    BY <1>1, <1>2, <2>1
  <2>2. CASE n \in 1..Len(versions[d]) /\ versions'[d][n] = versions[d][n]
    <3>1. LET v == versions[d][n]  r == records[v.id] IN
          /\ v.at <= clock /\ r # NoRecord /\ v.at \in Nat /\ v.id \in Ids
          /\ <<r.document, r.no>> = <<d, n>> \/ v.at + Ttl + Ttl <= r.expiresAt
      BY <1>1, <2>2, RowTypes DEF IInv, DataInv, RecordIsNewest
    <3>2. CASE versions[d][n].id # i
      BY <1>1, <2>2, <3>1, <3>2
    <3>3. CASE versions[d][n].id = i
      <4>1. versions[d][n].at + Ttl <= clock
        BY <2>2, <3>3, EarlierIsOld
      <4>2. versions[d][n].at + Ttl + Ttl <= Record(c).expiresAt
        BY <1>1, <1>2, <3>1, <4>1
      <4> QED BY <1>1, <2>2, <3>1, <3>3, <4>2
    <3> QED BY <3>2, <3>3
  <2> QED BY <2>1, <2>2, InsertSplit
<1>5. OneVersionPerKey'
  <2> SUFFICES ASSUME NEW d \in Documents, NEW e \in Documents,
                      NEW m \in 1..Len(versions'[d]), NEW n \in 1..Len(versions'[e]),
                      versions'[d][m].id = versions'[e][n].id,
                      versions'[d][m].at <= versions'[e][n].at
               PROVE  <<d, m>> = <<e, n>> \/ versions'[d][m].at + Ttl <= versions'[e][n].at
    BY DEF OneVersionPerKey
  <2>1. CASE /\ d = calls[c].document /\ m = calls[c].no /\ versions'[d][m] = Row(c)
             /\ e = calls[c].document /\ n = calls[c].no
    BY <2>1
  <2>2. CASE /\ d = calls[c].document /\ m = calls[c].no /\ versions'[d][m] = Row(c)
             /\ n \in 1..Len(versions[e]) /\ versions'[e][n] = versions[e][n]
    <3>1. versions[e][n].at + Ttl <= clock
      BY <1>2, <2>2, EarlierIsOld
    <3> QED BY <1>1, <1>2, <2>2, <3>1, RowTypes
  <2>3. CASE /\ m \in 1..Len(versions[d]) /\ versions'[d][m] = versions[d][m]
             /\ e = calls[c].document /\ n = calls[c].no /\ versions'[e][n] = Row(c)
    BY <1>2, <2>3, EarlierIsOld
  <2>4. CASE /\ m \in 1..Len(versions[d]) /\ versions'[d][m] = versions[d][m]
             /\ n \in 1..Len(versions[e]) /\ versions'[e][n] = versions[e][n]
    BY <2>4 DEF IInv, DataInv, OneVersionPerKey
  <2>5. \/ d = calls[c].document /\ m = calls[c].no /\ versions'[d][m] = Row(c)
        \/ m \in 1..Len(versions[d]) /\ versions'[d][m] = versions[d][m]
    BY InsertSplit
  <2>6. \/ e = calls[c].document /\ n = calls[c].no /\ versions'[e][n] = Row(c)
        \/ n \in 1..Len(versions[e]) /\ versions'[e][n] = versions[e][n]
    BY InsertSplit
  <2> QED BY <2>1, <2>2, <2>3, <2>4, <2>5, <2>6
<1>6. \A d \in deleted' : Exists(d)'
  <2> SUFFICES ASSUME NEW d \in deleted PROVE versions'[d] # <<>>
    BY <1>1 DEF Exists
  <2>1. d \in Documents /\ versions[d] # <<>>
    BY <1>1 DEF TypeOK, IInv, DataInv, Exists
  <2>2. CASE d = calls[c].document
    BY <2>2, InsertRows
  <2>3. CASE d # calls[c].document
    BY <2>1, <2>3, InsertRows
  <2> QED BY <2>2, <2>3
<1> QED BY <1>3, <1>4, <1>5, <1>6 DEF DataInv

LEMMA InsertKeeps == ASSUME IInv, NEW c \in Calls, Insert(c) PROVE IInv'
<1>1. /\ TypeOK /\ CallInv(c) /\ At(c, "insert") /\ calls[c].id \in Ids
      /\ calls[c].document \in Documents /\ calls[c] \in CallStates
  BY InsertFacts, CallTypes DEF Insert
<1>2. /\ calls' \in [Calls -> CallStates] /\ \A q \in Calls \ {c} : calls'[q] = calls[q]
      /\ calls'[c] = [calls[c] EXCEPT !.at = "grant"]
  <2>1. calls' = [calls EXCEPT ![c].at = "grant"]
    BY InsertFacts
  <2> QED BY <1>1, <2>1, CallTypes DEF CallStates
<1>3. /\ locks' \in [Ids \cup Documents -> Calls \cup {Free}]
      /\ \A x \in Ids \cup Documents : \A q \in Calls \ {c} : locks[x] = q => locks'[x] = q
  BY <1>1, InsertFacts, LocksReleased
<1>4. TypeOK'
  <2>1. records' \in [Ids -> Records] /\ deleted' = deleted /\ clock' = clock
    BY <1>1, InsertFacts DEF TypeOK
  <2>2. versions' \in [Documents -> Seq(Versions)]
    BY InsertRows
  <2> QED BY <1>1, <1>2, <1>3, <2>1, <2>2 DEF TypeOK
<1>5. CallInv(c)'
  <2>1. Names(versions', calls[c].document, calls[c].no, calls[c].id, calls[c].body)
    <3>1. Row(c).id = calls[c].id /\ Row(c).body = calls[c].body
      BY DEF Row
    <3> QED BY <1>1, <3>1, InsertRows DEF Names
  <2> QED BY <1>1, <1>2, <2>1 DEF CallStates, CallInv, Given, Draws, Working, Holds,
                                  ReadsHold, Answers, Names
<1>6. ASSUME NEW q \in Calls, q # c PROVE CallInv(q)'
  <2>1. /\ CallInv(q) /\ calls'[q] = calls[q] /\ calls[q] \in CallStates
        /\ calls'[c].document = calls[c].document
    BY <1>1, <1>2, <1>6, CallTypes DEF IInv, CallStates
  <2>2. Working(q) => /\ calls[q].id \in Ids /\ calls[q].document \in Documents
                      /\ calls[q].now <= clock
    BY <2>1 DEF CallInv, Given
  <2>3. Draws(q) => calls[q].document # calls[c].document
    BY <1>6, <2>1 DEF CallInv, Given
  <2>4. Given(q)'
    <3>1. Draws(q)' => Draws(q)
      BY <2>1 DEF Draws, Working
    <3>2. Draws(q) => ~Exists(calls[q].document)'
      BY <2>1, <2>2, <2>3, InsertRows DEF CallInv, Given, Draws, Exists
    <3>3. Draws(q) => \A p \in Calls \ {q} : calls'[p].document # calls[q].document
      BY <1>2, <2>1, <2>3 DEF CallInv, Given
    <3> QED BY <2>1, <3>1, <3>2, <3>3, InsertFacts DEF CallInv, Given, Draws, Working
  <2>5. Holds(q)'
    BY <1>3, <1>6, <2>1, <2>2, InsertFacts DEF CallInv, Holds, Working
  <2>6. ReadsHold(q)'
    <3>1. calls[q].at \in {"document", "number", "insert"} => records'[calls[q].id] = records[calls[q].id]
      <4>1. locks[calls[c].id] = c
        BY <1>1 DEF CallInv, Holds, At
      <4>2. calls[q].at \in {"document", "number", "insert"} => locks[calls[q].id] = q
        BY <2>1 DEF CallInv, Holds
      <4>3. calls[q].at \in {"document", "number", "insert"} => calls[q].id # calls[c].id
        BY <1>6, <4>1, <4>2
      <4> QED BY <1>1, <2>2, <4>3, InsertFacts DEF TypeOK, Working
    <3>2. calls[q].at = "insert" => versions'[calls[q].document] = versions[calls[q].document]
      <4> SUFFICES ASSUME calls[q].at = "insert"
                   PROVE  calls[q].document # calls[c].document
        BY <2>2, InsertRows DEF Working
      <4>1. CASE calls[q].id[1] = NewDocument
        BY <2>3, <4>1 DEF Draws, Working
      <4>2. CASE calls[c].id[1] = NewDocument
        <5>1. Draws(c)
          BY <1>1, <4>2 DEF Draws, Working, At
        <5> QED BY <1>1, <1>6, <5>1 DEF CallInv, Given
      <4>3. CASE calls[q].id[1] # NewDocument /\ calls[c].id[1] # NewDocument
        <5>1. locks[calls[q].document] = q
          BY <2>1, <4>3 DEF CallInv, Holds
        <5>2. locks[calls[c].document] = c
          BY <1>1, <4>3 DEF CallInv, Holds, At
        <5> QED BY <1>6, <5>1, <5>2
      <4> QED BY <4>1, <4>2, <4>3
    <3> QED BY <2>1, <3>1, <3>2 DEF CallInv, ReadsHold
  <2>7. Answers(q)'
    <3> DEFINE N(vs) == Names(vs, calls[q].document, calls[q].no, calls[q].id, calls[q].body)
    <3>1. calls[q].at = "grant" => N(versions)
      BY <2>1 DEF CallInv, Answers
    <3>2. N(versions) => N(versions')
      BY <1>1, InsertNames
    <3>3. Answers(q)' <=> (calls[q].at = "grant" => N(versions'))
      BY <2>1 DEF Answers
    <3> QED BY <3>1, <3>2, <3>3
  <2> QED BY <2>1, <2>4, <2>5, <2>6, <2>7 DEF CallInv
<1> QED BY <1>4, <1>5, <1>6, InsertData DEF IInv

-----------------------------------------------------------------------------
(* The environment, and the invariant *)

LEMMA DeleteKeeps == ASSUME IInv, NEW d \in Documents, DeleteDocument(d) PROVE IInv'
<1>1. TypeOK' /\ DataInv'
  <2>1. TypeOK'
    BY DEF IInv, TypeOK, DeleteDocument
  <2>2. RecordsName' /\ RecordIsNewest' /\ OneVersionPerKey'
    BY DEF IInv, DataInv, RecordsName, Names, RecordIsNewest, OneVersionPerKey, DeleteDocument
  <2>3. \A e \in deleted' : Exists(e)'
    BY DEF IInv, DataInv, Exists, DeleteDocument
  <2> QED BY <2>1, <2>2, <2>3 DEF DataInv
<1>2. ASSUME NEW q \in Calls PROVE CallInv(q)'
  <2>1. CallInv(q) /\ q # Free /\ locks[d] = Free
    BY NamesAssumption DEF IInv, DeleteDocument
  <2>2. Given(q)' /\ ReadsHold(q)' /\ Answers(q)'
    BY <2>1 DEF DeleteDocument, CallInv, Given, Draws, Working, Exists, ReadsHold, Answers, Names
  <2>3. Holds(q)'
    BY <2>1 DEF DeleteDocument, CallInv, Holds
  <2> QED BY <2>1, <2>2, <2>3 DEF CallInv, DeleteDocument
<1> QED BY <1>1, <1>2 DEF IInv

LEMMA TickKeeps == ASSUME IInv, Tick PROVE IInv'
<1>1. clock \in Nat /\ clock' = clock + 1 /\ TypeOK /\ TypeOK'
  BY DEF IInv, TypeOK, Tick
<1>2. DataInv'
  <2>1. \A d \in Documents : \A n \in 1..Len(versions[d]) :
          versions[d][n].at <= clock => versions[d][n].at <= clock'
    BY <1>1, RowTypes
  <2> QED BY <2>1 DEF IInv, DataInv, RecordsName, Names, RecordIsNewest, OneVersionPerKey,
                      Exists, Tick
<1>3. ASSUME NEW q \in Calls PROVE CallInv(q)'
  <2>1. CallInv(q) /\ calls[q].now \in Nat
    BY <1>1, CallTypes DEF IInv
  <2>2. calls[q].now <= clock => calls[q].now <= clock'
    BY <1>1, <2>1
  <2> QED BY <2>1, <2>2 DEF Tick, CallInv, Given, Draws, Working, Exists, Holds, ReadsHold,
                            Answers, Names
<1> QED BY <1>1, <1>2, <1>3 DEF IInv

LEMMA InvInit == Init => IInv
<1> SUFFICES ASSUME Init PROVE IInv
  OBVIOUS
<1>1. /\ \A d \in Documents : versions[d] = <<>> /\ Len(versions[d]) = 0
      /\ deleted = {} /\ \A i \in Ids : records[i] = NoRecord
      /\ \A c \in Calls : calls[c].at = "idle"
  BY NoCallType DEF Init
<1>2. TypeOK
  <2>1. <<>> \in Seq(Versions)
    OBVIOUS
  <2> QED BY <2>1, NoCallType, NoRecordType DEF Init, TypeOK
<1>3. DataInv
  BY <1>1 DEF DataInv, RecordsName, RecordIsNewest, OneVersionPerKey
<1>4. \A c \in Calls : CallInv(c)
  BY <1>1 DEF CallInv, Given, Draws, Working, Holds, ReadsHold, Answers
<1> QED BY <1>2, <1>3, <1>4 DEF IInv

LEMMA InvStep == IInv /\ [Next]_vars => IInv'
<1> SUFFICES ASSUME IInv, [Next]_vars PROVE IInv'
  OBVIOUS
<1>1. ASSUME NEW c \in Calls, NEW scope \in Scopes, NEW k \in Keys, NEW b \in Bodies,
             NEW d \in Documents, Begin(c, scope, k, b, d)
      PROVE  IInv'
  BY <1>1, BeginKeeps
<1>2. ASSUME NEW c \in Calls, Proceed(c) PROVE IInv'
  <2>1. CASE Grant(c)
    BY <2>1, EndStep DEF Grant
  <2> QED BY <1>2, <2>1, LockKeyKeeps, FoundKeeps, NotFoundKeeps, LockDocumentKeeps,
             ReadLatestKeeps, InsertKeeps DEF Proceed
<1>3. ASSUME NEW c \in Calls, BreaksOff(c) PROVE IInv'
  BY <1>3, EndStep DEF BreaksOff, Rolls
<1>4. CASE UNCHANGED vars
  <2>1. TypeOK'
    BY <1>4 DEF vars, IInv, TypeOK
  <2>2. DataInv'
    BY <1>4 DEF vars, IInv, DataInv, RecordsName, Names, RecordIsNewest, OneVersionPerKey, Exists
  <2>3. ASSUME NEW c \in Calls PROVE CallInv(c)'
    BY <1>4 DEF vars, IInv, CallInv, Given, Draws, Working, Exists, Holds, ReadsHold, Answers, Names
  <2> QED BY <2>1, <2>2, <2>3 DEF IInv
<1> QED BY <1>1, <1>2, <1>3, <1>4, DeleteKeeps, TickKeeps DEF Next

LEMMA InvAlways == Spec => []IInv
BY InvInit, InvStep, PTL DEF Spec

-----------------------------------------------------------------------------
(* Theorems *)

\* Every variable always has its type.
THEOREM TypeCorrect == Spec => []TypeOK
<1>1. IInv => TypeOK
  BY DEF IInv
<1> QED BY <1>1, InvAlways, PTL

\* However many calls repeat a request under one Idempotency-Key, at once or one
\* after the other, they create one version per time to live.
THEOREM OneVersionPerKeyAlways == Spec => []OneVersionPerKey
<1>1. IInv => OneVersionPerKey
  BY DEF IInv, DataInv
<1> QED BY <1>1, InvAlways, PTL

\* An answer of initDocument or initNewVersion names a committed version of the
\* caller's own key and body.
THEOREM AnswersItsOwnRequestAlways == Spec => []AnswersItsOwnRequest
<1>1. IInv => AnswersItsOwnRequest
  BY DEF IInv, CallInv, Answers, Names, AnswersItsOwnRequest, At
<1> QED BY <1>1, InvAlways, PTL

\* The advisory lock of the key and the lock of the document row together make
\* the two unique constraints superfluous.
THEOREM LocksSufficeAlways == Spec => []LocksSuffice
<1>1. IInv => LocksSuffice
  BY DEF IInv, CallInv, LocksSuffice, At
<1> QED BY <1>1, InvAlways, PTL

\* Only Insert adds a version, and the document it adds to is either not created
\* yet or locked since it was found active.
LEMMA DeletedUntouched ==
  IInv /\ [Next]_vars => [\A d \in deleted : versions'[d] = versions[d]]_vars
<1> SUFFICES ASSUME IInv, Next, NEW d \in deleted PROVE versions'[d] = versions[d]
  BY DEF vars
<1>1. ASSUME NEW c \in Calls, Insert(c) PROVE versions'[d] = versions[d]
  <2>1. CallInv(c) /\ At(c, "insert") /\ d \in Documents /\ Exists(d)
    BY <1>1 DEF IInv, TypeOK, DataInv, Insert
  <2>2. d # calls[c].document
    BY <2>1 DEF CallInv, Given, Draws, Working, Holds, At
  <2> QED BY <1>1, <2>1, <2>2, InsertRows
<1>2. ASSUME NEW c \in Calls, Proceed(c), ~Insert(c) PROVE versions' = versions
  BY <1>2 DEF Proceed, LockKey, Found, NotFound, LockDocument, ReadLatest, Grant
<1>3. ASSUME NEW c \in Calls, Proceed(c) PROVE versions'[d] = versions[d]
  BY <1>1, <1>2, <1>3
<1>4. ASSUME NEW c \in Calls, NEW scope \in Scopes, NEW k \in Keys, NEW b \in Bodies,
             NEW e \in Documents, Begin(c, scope, k, b, e)
      PROVE  versions' = versions
  BY <1>4 DEF Begin
<1>5. (\E c \in Calls : BreaksOff(c)) \/ (\E e \in Documents : DeleteDocument(e)) \/ Tick
        => versions' = versions
  BY DEF BreaksOff, DeleteDocument, Tick
<1> QED BY <1>3, <1>4, <1>5 DEF Next

\* A deleted document gets no further version, however early the request began.
THEOREM NothingAfterDeletion == Spec => NoVersionAfterDelete
BY InvAlways, DeletedUntouched, PTL DEF Spec, NoVersionAfterDelete
=============================================================================
