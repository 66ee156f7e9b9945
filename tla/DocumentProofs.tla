---------------------------- MODULE DocumentProofs ----------------------------
(***************************************************************************)
(* Theorems about what happens to a document: VersionUpload, how it gets   *)
(* its versions, and FolderTree, where it is filed.  The two have no state *)
(* in common.                                                              *)
(***************************************************************************)
EXTENDS VersionUpload, FolderTree, TLAPS

-----------------------------------------------------------------------------
(***************************************************************************)
(* Proofs about VersionUpload for any number of calls, versions and        *)
(* contents.                                                               *)
(***************************************************************************)

-----------------------------------------------------------------------------
(* Types *)

\* The local state of a call has the types of its fields.
LEMMA CallTypes ==
  ASSUME TypeOK, NEW c \in Calls
  PROVE  /\ call \in [Calls -> CallStates]
         /\ call[c] \in CallStates
         /\ call[c].at \in Steps
         /\ call[c].target \in Versions
         /\ call[c].seen \in Contents \cup {NoObject}
         /\ call[c].finalized \in Contents \cup {NoObject}
         /\ call[c].snapshot \in 0 .. MaxVersions
BY DEF TypeOK, CallStates

\* Ending a call puts back a well-typed state, and nothing else.
LEMMA EndsTypes ==
  ASSUME TypeOK, NEW c \in Calls, Ends(c)
  PROVE  call' \in [Calls -> CallStates]
<1>1. NoCall \in CallStates
  BY VersionsAssumption DEF NoCall, CallStates, Steps, Versions
<1>2. call \in [Calls -> CallStates]
  BY DEF TypeOK
<1> QED BY <1>1, <1>2 DEF Ends

\* Every variable keeps its type: the initial state and each handler step.
LEMMA InitTypes == Init => TypeOK
BY VersionsAssumption DEF Init, TypeOK, NoCall, CallStates, Steps, Versions

LEMMA NextTypes == TypeOK /\ [Next]_vars => TypeOK'
<1> SUFFICES ASSUME TypeOK, [Next]_vars PROVE TypeOK'
  OBVIOUS
<1>1. ASSUME NEW v \in Versions, InitNewVersion(v) PROVE TypeOK'
  BY <1>1 DEF TypeOK, InitNewVersion, storageVars
<1>2. ASSUME NEW v \in Versions, NEW x \in Contents, PutStaging(v, x) PROVE TypeOK'
  BY <1>2 DEF TypeOK, PutStaging, rowVars
<1>3. CASE DeleteDocument
  BY <1>3 DEF TypeOK, DeleteDocument, storageVars
<1>4. ASSUME NEW c \in Calls, NEW v \in Versions, Begin(c, v) PROVE TypeOK'
  <2>1. call' \in [Calls -> CallStates]
    BY <1>4, CallTypes DEF Begin, CallStates, Steps
  <2> QED BY <2>1, <1>4 DEF TypeOK, Begin, rowVars, storageVars
<1>5. ASSUME NEW c \in Calls, CompleteStep(c) PROVE TypeOK'
  <2> DEFINE Object == Contents \cup {NoObject}
  <2>1. CASE StatStaging(c)
    <3>1. staging[Target(c)] \in Object
      <4>1. Target(c) \in Versions
        BY CallTypes DEF Target
      <4> QED BY <4>1 DEF TypeOK
    <3>2. call' \in [Calls -> CallStates]
      BY <2>1, <3>1, CallTypes, EndsTypes DEF StatStaging, CallStates, Steps
    <3> QED BY <2>1, <3>2 DEF TypeOK, StatStaging, rowVars, storageVars
  <2>2. ASSUME NEW x \in Object, Returns(c, x) PROVE call' \in [Calls -> CallStates]
    BY <2>2, CallTypes, EndsTypes DEF Returns, CallStates, Steps
  <2>3. final[Target(c)] \in Object /\ Target(c) \in Versions
    <3>1. Target(c) \in Versions
      BY CallTypes DEF Target
    <3> QED BY <3>1 DEF TypeOK
  <2>10. Ends(c) => call' \in [Calls -> CallStates]
    BY EndsTypes
  <2>4. CASE StatFinal(c)
    <3>1. call' \in [Calls -> CallStates]
      <4>1. CASE final[Target(c)] = NoObject
        BY <2>4, <4>1, CallTypes DEF StatFinal, CallStates, Steps
      <4>2. CASE final[Target(c)] # NoObject
        BY <2>4, <4>2, <2>2, <2>3 DEF StatFinal
      <4> QED BY <4>1, <4>2
    <3> QED BY <2>4, <3>1 DEF TypeOK, StatFinal, rowVars, storageVars
  <2>5. CASE Copy(c)
    <3>1. call' \in [Calls -> CallStates]
      BY <2>5, CallTypes, EndsTypes DEF Copy, CallStates, Steps
    <3>2. final' \in [Versions -> Object]
      BY <2>3, <2>5 DEF TypeOK, Copy
    <3> QED BY <2>5, <3>1, <3>2 DEF TypeOK, Copy, rowVars
  <2>6. CASE StatCopied(c)
    <3>1. call' \in [Calls -> CallStates]
      BY <2>6, <2>2, <2>3 DEF StatCopied
    <3> QED BY <2>6, <3>1 DEF TypeOK, StatCopied, rowVars, storageVars
  <2>7. CASE StartSelect(c)
    <3>1. call' \in [Calls -> CallStates]
      BY <2>7, CallTypes DEF StartSelect, CallStates, Steps
    <3> QED BY <2>7, <3>1 DEF TypeOK, StartSelect, rowVars, storageVars
  <2>8. CASE Commit(c)
    <3>1. CASE Receive(c)
      <4>1. call[c].target \in Versions /\ call[c].finalized \in Object
        BY CallTypes
      <4>2. /\ etag' \in [Versions -> Object]
            /\ upload' \in [Versions -> {"ABSENT", "UPLOADING", "RECEIVED"}]
            /\ appended' \in [Versions -> Nat]
            /\ active' \in BOOLEAN
        BY <3>1, <4>1 DEF TypeOK, Receive, Target
      <4>3. current' \in 0 .. MaxVersions
        BY <3>1, <4>1, VersionsAssumption DEF TypeOK, Receive, Target, Versions
      <4> QED BY <4>2, <4>3, <2>8, <2>10 DEF TypeOK, Commit, storageVars
    <3>2. CASE UNCHANGED rowVars
      BY <2>8, <3>2, <2>10 DEF TypeOK, Commit, storageVars, rowVars
    <3> QED BY <2>8, <3>1, <3>2 DEF Commit
  <2>9. CASE Reverify(c) \/ BreaksOff(c)
    BY <2>9, <2>10 DEF TypeOK, Reverify, BreaksOff, rowVars, storageVars
  <2> QED BY <1>5, <2>1, <2>4, <2>5, <2>6, <2>7, <2>8, <2>9 DEF CompleteStep
<1>6. CASE UNCHANGED vars
  BY <1>6 DEF TypeOK, vars, rowVars, storageVars
<1> QED BY <1>1, <1>2, <1>3, <1>4, <1>5, <1>6 DEF Next

\* Every variable always has its type.
THEOREM TypeCorrect == Spec => []TypeOK
BY InitTypes, NextTypes, PTL DEF Spec

-----------------------------------------------------------------------------
(* The rows: every change of them is an allocation, a deletion, or the     *)
(* receipt of a version that was still UPLOADING.                          *)

\* Commit writes to the rows only through Receive, for an UPLOADING version
\* of an ACTIVE document.
Receipt(c) ==
  /\ active
  /\ Target(c) \in Versions
  /\ upload[Target(c)] = "UPLOADING"
  /\ Receive(c)

LEMMA RowSteps ==
  ASSUME TypeOK, [Next]_vars
  PROVE  \/ \E v \in Versions : InitNewVersion(v)
         \/ DeleteDocument
         \/ \E c \in Calls : Receipt(c)
         \/ UNCHANGED rowVars
<1>1. ASSUME NEW c \in Calls, CompleteStep(c) PROVE Receipt(c) \/ UNCHANGED rowVars
  <2>1. Target(c) \in Versions
    BY CallTypes DEF Target
  <2>2. CASE Commit(c)
    BY <2>1, <2>2 DEF Commit, Receipt
  <2>3. CASE ~Commit(c)
    BY <1>1, <2>3 DEF CompleteStep, StatStaging, StatFinal, Copy, StatCopied, StartSelect,
                      Reverify, BreaksOff
  <2> QED BY <2>2, <2>3
<1>2. ASSUME NEW c \in Calls, NEW v \in Versions, Begin(c, v) PROVE UNCHANGED rowVars
  BY <1>2 DEF Begin
<1>3. ASSUME NEW v \in Versions, NEW x \in Contents, PutStaging(v, x) PROVE UNCHANGED rowVars
  BY <1>3 DEF PutStaging
<1>4. CASE UNCHANGED vars
  BY <1>4 DEF vars
<1> QED BY <1>1, <1>2, <1>3, <1>4 DEF Next

\* What a receipt does to the version it is for and to the others.
LEMMA ReceiptEffect ==
  ASSUME TypeOK, NEW c \in Calls, Receipt(c)
  PROVE  /\ Received' = Received \cup {Target(c)}
         /\ Target(c) \notin Received
         /\ current' = IF Promotes(c) THEN Target(c) ELSE current
         /\ appended' = [appended EXCEPT ![Target(c)] = @ + 1]
         /\ etag' = [etag EXCEPT ![Target(c)] = call[c].finalized]
         /\ upload' = [upload EXCEPT ![Target(c)] = "RECEIVED"]
BY DEF Receipt, Receive, Received, TypeOK

\* The other changes of the rows leave the RECEIVED versions alone.
LEMMA ReceivedUnchanged ==
  ASSUME TypeOK,
         (\E v \in Versions : InitNewVersion(v)) \/ DeleteDocument \/ UNCHANGED rowVars
  PROVE  /\ Received' = Received
         /\ UNCHANGED <<current, etag, appended>>
<1>1. CASE \E v \in Versions : InitNewVersion(v)
  <2> PICK v \in Versions : InitNewVersion(v)
    BY <1>1
  <2>1. \A w \in Versions : (upload'[w] = "RECEIVED") <=> (upload[w] = "RECEIVED")
    BY DEF InitNewVersion, TypeOK
  <2> QED BY <2>1 DEF InitNewVersion, Received
<1>2. CASE DeleteDocument
  BY <1>2 DEF DeleteDocument, Received
<1>3. CASE UNCHANGED rowVars
  BY <1>3 DEF rowVars, Received
<1> QED BY <1>1, <1>2, <1>3

LEMMA InitNothingReceived ==
  Init => Received = {} /\ current = 0 /\ appended = [v \in Versions |-> 0]
BY DEF Init, Received

\* The outbox event is appended in the transaction that receives the version
\* (outbox.append in complete), so a version is announced once, when RECEIVED.
THEOREM OneEventPerReceiptAlways == Spec => []OneEventPerReceipt
<1>1. Init => OneEventPerReceipt
  BY InitNothingReceived DEF OneEventPerReceipt
<1>2. TypeOK /\ OneEventPerReceipt /\ [Next]_vars => OneEventPerReceipt'
  <2> SUFFICES ASSUME TypeOK, OneEventPerReceipt, [Next]_vars PROVE OneEventPerReceipt'
    OBVIOUS
  <2>1. ASSUME NEW c \in Calls, Receipt(c) PROVE OneEventPerReceipt'
    <3>1. Target(c) \in Versions
      BY <2>1 DEF Receipt
    <3>2. appended[Target(c)] = 0
      BY <2>1, <3>1, ReceiptEffect DEF OneEventPerReceipt
    <3>3. appended \in [Versions -> Nat]
      BY DEF TypeOK
    <3> QED BY <2>1, <3>1, <3>2, <3>3, ReceiptEffect DEF OneEventPerReceipt
  <2>2. CASE ~ \E c \in Calls : Receipt(c)
    BY <2>2, RowSteps, ReceivedUnchanged DEF OneEventPerReceipt
  <2> QED BY <2>1, <2>2
<1> QED BY <1>1, <1>2, TypeCorrect, PTL DEF Spec

\* A promotion chooses the version being received, and the first receipt
\* always promotes.
LEMMA CurrentIsReceivedInductive == TypeOK /\ CurrentIsReceived /\ [Next]_vars => CurrentIsReceived'
<1> SUFFICES ASSUME TypeOK, CurrentIsReceived, [Next]_vars PROVE CurrentIsReceived'
  OBVIOUS
<1>1. ASSUME NEW c \in Calls, Receipt(c) PROVE CurrentIsReceived'
  <2>1. CASE Promotes(c)
    BY <1>1, <2>1, ReceiptEffect DEF CurrentIsReceived
  <2>2. CASE ~Promotes(c)
    <3>1. current # 0
      BY <2>2 DEF Promotes, LockedVersionNo
    <3>2. current \in Received
      BY <3>1 DEF CurrentIsReceived
    <3> QED BY <1>1, <2>2, <3>2, ReceiptEffect DEF CurrentIsReceived
  <2> QED BY <2>1, <2>2
<1>2. CASE ~ \E c \in Calls : Receipt(c)
  BY <1>2, RowSteps, ReceivedUnchanged DEF CurrentIsReceived
<1> QED BY <1>1, <1>2

\* documents.current_version_id names a RECEIVED version from the first
\* receipt on.
THEOREM CurrentIsReceivedAlways == Spec => []CurrentIsReceived
<1>1. Init => CurrentIsReceived
  BY InitNothingReceived DEF CurrentIsReceived
<1> QED BY <1>1, CurrentIsReceivedInductive, TypeCorrect, PTL DEF Spec

\* The second read of the version, under the lock, keeps every call from
\* writing to a version another one has received: the immutability triggers
\* of the database never fire.
THEOREM ReceivedStaysImmutable == Spec => ReceivedIsImmutable
<1>1. TypeOK /\ [Next]_vars =>
        \A v \in Received :
          upload'[v] = "RECEIVED" /\ etag'[v] = etag[v] /\ appended'[v] = appended[v]
  <2> SUFFICES ASSUME TypeOK, [Next]_vars, NEW v \in Received
               PROVE  upload'[v] = "RECEIVED" /\ etag'[v] = etag[v] /\ appended'[v] = appended[v]
    OBVIOUS
  <2>1. v \in Versions /\ upload[v] = "RECEIVED"
    BY DEF Received
  <2>2. ASSUME NEW c \in Calls, Receipt(c)
        PROVE  upload'[v] = "RECEIVED" /\ etag'[v] = etag[v] /\ appended'[v] = appended[v]
    <3>1. v # Target(c)
      BY <2>2, ReceiptEffect
    <3>2. /\ upload \in [Versions -> {"ABSENT", "UPLOADING", "RECEIVED"}]
          /\ etag \in [Versions -> Contents \cup {NoObject}]
          /\ appended \in [Versions -> Nat]
      BY DEF TypeOK
    <3> QED BY <2>1, <2>2, <3>1, <3>2, ReceiptEffect
  <2>3. CASE ~ \E c \in Calls : Receipt(c)
    <3>1. Received' = Received /\ UNCHANGED <<etag, appended>>
      BY <2>3, RowSteps, ReceivedUnchanged
    <3>2. upload'[v] = "RECEIVED"
      BY <3>1 DEF Received
    <3> QED BY <3>1, <3>2
  <2> QED BY <2>2, <2>3
<1> QED BY <1>1, TypeCorrect, PTL DEF Spec, ReceivedIsImmutable

\* The locking SELECT asks for an ACTIVE document again, so a call that began
\* before the deletion writes nothing after it.
THEOREM NothingAfterDeletion == Spec => NothingAfterDelete
<1>1. TypeOK /\ [Next]_vars => (~active => UNCHANGED rowVars)
  <2> SUFFICES ASSUME TypeOK, [Next]_vars, ~active PROVE UNCHANGED rowVars
    OBVIOUS
  <2> QED BY RowSteps DEF InitNewVersion, DeleteDocument, Receipt
<1> QED BY <1>1, TypeCorrect, PTL DEF Spec, NothingAfterDelete

-----------------------------------------------------------------------------
(* The current version: the promotion is right whenever the joined version *)
(* is the current one under the lock, that is if it is read under the lock *)
(* or if no two calls run at once.                                         *)

LocksSeeCurrent == \A c \in Calls : At(c, "lock") => LockedVersionNo(c) = current

\* Only one call at a time, so that no pointer moves between the snapshot of
\* the SELECT and its lock.
OneCall == \A c, d \in Calls : c = d

LEMMA LocksSeeCurrentInductive ==
  ASSUME ~StaleJoin \/ OneCall
  PROVE  /\ Init => LocksSeeCurrent
         /\ TypeOK /\ LocksSeeCurrent /\ [Next]_vars => LocksSeeCurrent'
<1>1. Init => LocksSeeCurrent
  BY DEF Init, LocksSeeCurrent, At, NoCall
<1>2. CASE ~StaleJoin
  BY <1>1, <1>2 DEF LocksSeeCurrent, LockedVersionNo
<1>3. ASSUME OneCall, TypeOK, LocksSeeCurrent, [Next]_vars, NEW c \in Calls, At(c, "lock")'
      PROVE  LockedVersionNo(c)' = current'
  <2>1. call \in [Calls -> CallStates]
    BY <1>3 DEF TypeOK
  <2>2. CASE call' = call
    <3>1. UNCHANGED current
      <4>1. ASSUME NEW d \in Calls, CompleteStep(d) PROVE UNCHANGED current
        <5>1. ~Commit(d)
          BY <2>1, <2>2, <1>3 DEF Commit, Ends, NoCall, At, OneCall
        <5> QED BY <4>1, <5>1 DEF CompleteStep, StatStaging, StatFinal, Copy, StatCopied,
                 StartSelect, Reverify, BreaksOff, rowVars
      <4> QED BY <1>3, <4>1 DEF Next, InitNewVersion, PutStaging, DeleteDocument, Begin, vars,
               rowVars
    <3>2. At(c, "lock")
      BY <1>3, <2>2 DEF At
    <3> QED BY <1>3, <2>2, <3>1, <3>2 DEF LocksSeeCurrent, LockedVersionNo
  <2>3. CASE call' # call
    <3>1. StartSelect(c)
      <4>1. PICK d \in Calls : CompleteStep(d) \/ \E v \in Versions : Begin(d, v)
        BY <1>3, <2>3 DEF Next, InitNewVersion, PutStaging, DeleteDocument, vars
      <4>2. d = c
        BY <1>3 DEF OneCall
      <4>3. call'[c].at = "lock"
        BY <1>3 DEF At
      <4>4. ~Ends(c)
        BY <2>1, <4>3 DEF Ends, NoCall, CallStates
      <4>5. ~ \E v \in Versions : Begin(c, v)
        BY <2>1, <4>3 DEF Begin, CallStates
      <4>6. ~StatStaging(c) /\ ~Copy(c)
        BY <2>1, <4>3, <4>4 DEF StatStaging, Copy, CallStates
      <4>7. ASSUME NEW x, Returns(c, x) PROVE FALSE
        BY <2>1, <4>3, <4>4, <4>7 DEF Returns, CallStates
      <4>8. ~StatFinal(c) /\ ~StatCopied(c)
        BY <2>1, <4>3, <4>7 DEF StatFinal, StatCopied, CallStates
      <4> QED BY <4>1, <4>2, <4>4, <4>5, <4>6, <4>8 DEF CompleteStep, Commit, Reverify, BreaksOff
    <3> QED BY <2>1, <3>1 DEF StartSelect, LockedVersionNo, rowVars
  <2> QED BY <2>2, <2>3
<1>4. CASE OneCall
  BY <1>1, <1>3, <1>4 DEF LocksSeeCurrent
<1> QED BY <1>2, <1>4

\* Every receipt is made by a call that holds the lock.
LEMMA ReceiptSeesCurrent ==
  ASSUME TypeOK, LocksSeeCurrent, [Next]_vars
  PROVE  \/ \E c \in Calls : Receipt(c) /\ LockedVersionNo(c) = current
         \/ Received' = Received /\ UNCHANGED current
<1>1. ASSUME NEW c \in Calls, CompleteStep(c), ~UNCHANGED rowVars
      PROVE  Receipt(c) /\ LockedVersionNo(c) = current
  <2>1. Target(c) \in Versions
    BY CallTypes DEF Target
  <2>2. Commit(c)
    BY <1>1 DEF CompleteStep, StatStaging, StatFinal, Copy, StatCopied, StartSelect, Reverify,
                BreaksOff
  <2> QED BY <1>1, <2>1, <2>2 DEF Commit, Receipt, LocksSeeCurrent
<1>2. CASE \E c \in Calls : CompleteStep(c)
  BY <1>1, <1>2, ReceivedUnchanged
<1>3. CASE ~ \E c \in Calls : CompleteStep(c)
  <2>1. (\E v \in Versions : InitNewVersion(v)) \/ DeleteDocument \/ UNCHANGED rowVars
    BY <1>3 DEF Next, PutStaging, Begin, vars
  <2> QED BY <2>1, ReceivedUnchanged
<1> QED BY <1>2, <1>3

\* A receipt that compares with the current version never lowers the pointer.
LEMMA ReceiptRaisesPointer ==
  ASSUME TypeOK, NEW c \in Calls, Receipt(c), LockedVersionNo(c) = current
  PROVE  current' \in Nat /\ current' >= current /\ Target(c) <= current'
<1>1. current \in Nat /\ Target(c) \in Nat
  BY VersionsAssumption DEF Receipt, Versions, TypeOK
<1>2. current' = IF Promotes(c) THEN Target(c) ELSE current
  BY ReceiptEffect
<1>3. CASE Promotes(c)
  BY <1>1, <1>2, <1>3 DEF Promotes
<1>4. CASE ~Promotes(c)
  BY <1>1, <1>2, <1>4 DEF Promotes
<1> QED BY <1>3, <1>4

\* In whatever order the versions are completed, one call at a time or with
\* the current version read under the lock, the pointer never moves backward.
THEOREM PointerIsMonotone ==
  ASSUME ~StaleJoin \/ OneCall PROVE Spec => NeverMovesBackward
<1>1. TypeOK /\ LocksSeeCurrent /\ [Next]_vars => current' >= current
  <2> SUFFICES ASSUME TypeOK, LocksSeeCurrent, [Next]_vars PROVE current' >= current
    OBVIOUS
  <2>1. current \in Nat
    BY VersionsAssumption DEF TypeOK
  <2> QED BY <2>1, ReceiptSeesCurrent, ReceiptRaisesPointer
<1>2. Spec => []LocksSeeCurrent
  BY LocksSeeCurrentInductive, TypeCorrect, PTL DEF Spec
<1> QED BY <1>1, <1>2, TypeCorrect, PTL DEF Spec, NeverMovesBackward

\* ... and is always the newest RECEIVED version.
THEOREM CurrentIsNewestAlways ==
  ASSUME ~StaleJoin \/ OneCall PROVE Spec => []CurrentIsNewest
<1>1. Init => CurrentIsNewest
  BY InitNothingReceived DEF CurrentIsNewest
<1>2. TypeOK /\ LocksSeeCurrent /\ CurrentIsNewest /\ [Next]_vars => CurrentIsNewest'
  <2> SUFFICES ASSUME TypeOK, LocksSeeCurrent, CurrentIsNewest, [Next]_vars
               PROVE  CurrentIsNewest'
    OBVIOUS
  <2>1. ASSUME NEW c \in Calls, Receipt(c), LockedVersionNo(c) = current
        PROVE  CurrentIsNewest'
    <3>1. current \in Nat /\ current' \in Nat
      BY <2>1, ReceiptRaisesPointer, VersionsAssumption DEF TypeOK
    <3>2. ASSUME NEW v \in Received PROVE v <= current'
      <4>1. v <= current /\ v \in Nat
        BY DEF CurrentIsNewest, Received, Versions
      <4>2. current <= current'
        BY <2>1, <3>1, ReceiptRaisesPointer
      <4> QED BY <3>1, <4>1, <4>2
    <3> QED BY <2>1, <3>2, ReceiptEffect, ReceiptRaisesPointer DEF CurrentIsNewest
  <2>2. CASE Received' = Received /\ UNCHANGED current
    BY <2>2 DEF CurrentIsNewest
  <2> QED BY <2>1, <2>2, ReceiptSeesCurrent
<1>3. Spec => []LocksSeeCurrent
  BY LocksSeeCurrentInductive, TypeCorrect, PTL DEF Spec
<1> QED BY <1>1, <1>2, <1>3, TypeCorrect, PTL DEF Spec

-----------------------------------------------------------------------------
(* The objects, whatever the browser writes.                               *)

\* What a call knows of the objects of its version.
CallKnows(c) ==
  /\ At(c, "statFinal") \/ At(c, "copy") => call[c].seen \in Matching
  /\ At(c, "select") \/ At(c, "lock")
       => call[c].finalized \in Matching /\ final[Target(c)] # NoObject

StorageInv == FinalMeetsContract /\ \A c \in Calls : CallKnows(c)

Object == Contents \cup {NoObject}

\* What a step of a call leads to, as far as the objects are concerned.
LEMMA CompleteSteps ==
  ASSUME TypeOK, NEW c \in Calls, CompleteStep(c)
  PROVE  /\ Target(c) \in Versions /\ final[Target(c)] \in Object /\ staging' = staging
         /\ \A d \in Calls : d # c => call'[d] = call[d]
         /\ final' # final => At(c, "copy")
         /\ \/ call'[c] = NoCall /\ final' = final
            \/ /\ call'[c].target = Target(c) /\ UNCHANGED rowVars
               /\ \/ /\ call'[c].at = "statFinal" /\ call'[c].seen = staging[Target(c)]
                     /\ staging[Target(c)] \in Matching /\ final' = final
                  \/ /\ At(c, "statFinal") /\ final[Target(c)] = NoObject /\ final' = final
                     /\ call'[c].at = "copy" /\ call'[c].seen = call[c].seen
                  \/ /\ At(c, "copy") /\ call'[c].at = "statCopied"
                     /\ final' = [final EXCEPT ![Target(c)] = call[c].seen]
                  \/ /\ call'[c].at = "select" /\ call'[c].finalized = final[Target(c)]
                     /\ final[Target(c)] \in Matching /\ final' = final
                  \/ /\ At(c, "select") /\ call'[c].at = "lock" /\ final' = final
                     /\ call'[c].finalized = call[c].finalized
<1>1. /\ call \in [Calls -> CallStates] /\ call[c] \in CallStates /\ Target(c) \in Versions
      /\ final[Target(c)] \in Object
  BY CallTypes DEF Target, TypeOK, Object
<1>2. Ends(c) => call'[c] = NoCall /\ \A d \in Calls : d # c => call'[d] = call[d]
  BY <1>1 DEF Ends
<1>3. CASE StatStaging(c)
  BY <1>1, <1>2, <1>3 DEF StatStaging, CallStates, storageVars, Target
<1>4. CASE (StatFinal(c) \/ StatCopied(c)) /\ ~(At(c, "statFinal") /\ final[Target(c)] = NoObject)
  <2>1. Returns(c, final[Target(c)]) /\ UNCHANGED <<rowVars, storageVars>>
    BY <1>4 DEF StatFinal, StatCopied, At
  <2> QED BY <1>1, <1>2, <2>1 DEF Returns, CallStates, storageVars, Target
<1>5. CASE StatFinal(c) /\ final[Target(c)] = NoObject
  BY <1>1, <1>5 DEF StatFinal, CallStates, storageVars, Target
<1>6. CASE Copy(c)
  BY <1>1, <1>2, <1>6 DEF Copy, CallStates, Target
<1>7. CASE StartSelect(c)
  BY <1>1, <1>7 DEF StartSelect, CallStates, storageVars, Target
<1>8. CASE Commit(c) \/ Reverify(c) \/ BreaksOff(c)
  BY <1>1, <1>2, <1>8 DEF Commit, Reverify, BreaksOff, storageVars
<1> QED BY <1>3, <1>4, <1>5, <1>6, <1>7, <1>8 DEF CompleteStep, StatCopied, At

\* A step that writes no final object and receives nothing keeps what a call
\* knows, as long as the call keeps its state.
LEMMA KeepsKnowledge ==
  ASSUME TypeOK, NEW d \in Calls, CallKnows(d), call'[d] = call[d],
         final'[Target(d)] = final[Target(d)] \/ final'[Target(d)] # NoObject
  PROVE  CallKnows(d)'
BY DEF CallKnows, At, Target

\* Only the transaction receives a version, with the metadata its call has seen.
LEMMA ReceiptKnows ==
  ASSUME TypeOK, [Next]_vars, NEW c \in Calls, Receipt(c), \A d \in Calls : CallKnows(d)
  PROVE  \E d \in Calls : /\ Receipt(d) /\ At(d, "lock") /\ UNCHANGED storageVars /\ Ends(d)
                          /\ call[d].finalized \in Matching /\ final[Target(d)] # NoObject
<1>1. ~UNCHANGED rowVars
  BY ReceiptEffect DEF Receipt, rowVars, Received
<1>2. active' = active /\ upload'[Target(c)] = "RECEIVED" /\ upload[Target(c)] = "UPLOADING"
  BY DEF Receipt, Receive, TypeOK
<1>3. ~DeleteDocument /\ \A v \in Versions : ~InitNewVersion(v)
  BY <1>2 DEF DeleteDocument, InitNewVersion, TypeOK, Receipt
<1>4. PICK d \in Calls : CompleteStep(d)
  BY <1>1, <1>3 DEF Next, PutStaging, Begin, vars
<1>5. Commit(d) /\ active /\ upload[Target(d)] = "UPLOADING" /\ Receive(d)
  BY <1>1, <1>4 DEF CompleteStep, StatStaging, StatFinal, Copy, StatCopied, StartSelect, Commit,
                    Reverify, BreaksOff
<1>6. Target(d) \in Versions
  BY CallTypes DEF Target
<1> QED BY <1>5, <1>6 DEF Receipt, Commit, CallKnows

LEMMA StorageInit == Init => StorageInv
BY DEF Init, StorageInv, CallKnows, NoCall, FinalMeetsContract, Received, At

LEMMA StorageInductive == TypeOK /\ StorageInv /\ [Next]_vars => StorageInv'
<1> SUFFICES ASSUME TypeOK, StorageInv, [Next]_vars PROVE StorageInv'
  OBVIOUS
<1>1. /\ final \in [Versions -> Object] /\ NoObject \notin Matching
      /\ \A d \in Calls : CallKnows(d) /\ Target(d) \in Versions
  BY ContentsAssumption, CallTypes DEF TypeOK, Object, StorageInv, Target
<1>2. ASSUME Received' = Received, UNCHANGED <<etag, final, call>> PROVE StorageInv'
  BY <1>2 DEF StorageInv, FinalMeetsContract, CallKnows, At, Target
<1>3. ASSUME NEW c \in Calls, NEW v \in Versions, Begin(c, v) PROVE StorageInv'
  <2>1. /\ call'[c].at \in {"reverify", "statStaging"} /\ UNCHANGED <<rowVars, storageVars>>
        /\ \A d \in Calls : d # c => call'[d] = call[d]
    BY <1>3, CallTypes DEF Begin, CallStates
  <2>2. FinalMeetsContract'
    BY <2>1 DEF StorageInv, FinalMeetsContract, Received, rowVars, storageVars
  <2>3. ASSUME NEW d \in Calls PROVE CallKnows(d)'
    BY <1>1, <2>1, KeepsKnowledge DEF CallKnows, At, storageVars
  <2> QED BY <2>2, <2>3 DEF StorageInv
<1>4. ASSUME NEW c \in Calls, CompleteStep(c) PROVE StorageInv'
  <2>1. ASSUME NEW v \in Versions
        PROVE  /\ final'[v] \in Matching \cup {NoObject}
               /\ final[v] # NoObject => final'[v] # NoObject
    <3>1. final[v] \in Matching \cup {NoObject}
      BY DEF StorageInv, FinalMeetsContract
    <3>2. CASE final' = final
      BY <3>1, <3>2
    <3>3. CASE final' # final
      <4>1. final' = [final EXCEPT ![Target(c)] = call[c].seen] /\ call[c].seen \in Matching
        BY <1>1, <1>4, <3>3, CompleteSteps DEF CallKnows
      <4> QED BY <1>1, <3>1, <4>1
    <3> QED BY <3>2, <3>3
  <2>2. ASSUME NEW d \in Calls PROVE CallKnows(d)'
    <3>1. CASE d # c
      BY <1>1, <1>4, <2>1, <3>1, CompleteSteps, KeepsKnowledge
    <3>2. CASE d = c
      BY <1>1, <1>4, <2>1, <3>2, CompleteSteps DEF CallKnows, At, Target, NoCall
    <3> QED BY <3>1, <3>2
  <2>3. ASSUME NEW v \in Received' PROVE final'[v] \in Matching /\ etag'[v] \in Matching
    <3>1. CASE v \in Received /\ etag'[v] = etag[v]
      BY <2>1, <3>1 DEF StorageInv, FinalMeetsContract, Received
    <3>2. CASE ~(v \in Received /\ etag'[v] = etag[v])
      <4>1. PICK b \in Calls : Receipt(b)
        BY <3>2, <2>3, RowSteps, ReceivedUnchanged
      <4>2. PICK d \in Calls :
              /\ Receipt(d) /\ At(d, "lock") /\ UNCHANGED storageVars /\ Ends(d)
              /\ call[d].finalized \in Matching /\ final[Target(d)] # NoObject
        BY <1>1, <4>1, ReceiptKnows
      <4>3. /\ Received' = Received \cup {Target(d)} /\ etag \in [Versions -> Object]
            /\ etag' = [etag EXCEPT ![Target(d)] = call[d].finalized]
        BY <4>2, ReceiptEffect DEF TypeOK, Object
      <4>4. v = Target(d)
        BY <2>3, <3>2, <4>3 DEF Received
      <4> QED BY <1>1, <2>1, <4>2, <4>3, <4>4
    <3> QED BY <3>1, <3>2
  <2> QED BY <2>1, <2>2, <2>3 DEF StorageInv, FinalMeetsContract
<1>5. ASSUME NEW v \in Versions, NEW x \in Contents, PutStaging(v, x) PROVE StorageInv'
  BY <1>2, <1>5, ReceivedUnchanged DEF PutStaging, rowVars
<1>6. CASE (\E v \in Versions : InitNewVersion(v)) \/ DeleteDocument \/ UNCHANGED vars
  BY <1>2, <1>6, ReceivedUnchanged DEF InitNewVersion, DeleteDocument, vars, rowVars, storageVars
<1> QED BY <1>3, <1>4, <1>5, <1>6 DEF Next

LEMMA StorageAlways == Spec => []StorageInv
BY StorageInit, StorageInductive, TypeCorrect, PTL DEF Spec

\* Whatever the browser writes and however often, what is under the final key
\* has passed the upload contract.
THEOREM FinalMeetsContractAlways == Spec => []FinalMeetsContract
<1>1. StorageInv => FinalMeetsContract
  BY DEF StorageInv
<1> QED BY <1>1, StorageAlways, PTL

\* A final object is replaced only by calls that looked before it was there, by
\* each of them once.
THEOREM FinalSettlesAlways == Spec => FinalSettles
<1>1. TypeOK /\ [Next]_vars =>
        \A v \in Versions : final[v] # NoObject =>
          /\ Overwriters(v)' \subseteq Overwriters(v)
          /\ final'[v] # final[v] => Overwriters(v)' # Overwriters(v)
  <2> SUFFICES ASSUME TypeOK, [Next]_vars, NEW v \in Versions, final[v] # NoObject
               PROVE  /\ Overwriters(v)' \subseteq Overwriters(v)
                      /\ final'[v] # final[v] => Overwriters(v)' # Overwriters(v)
    OBVIOUS
  <2>1. CASE UNCHANGED <<call, final>>
    BY <2>1 DEF Overwriters, At, Target
  <2>2. ASSUME NEW c \in Calls, NEW w \in Versions, Begin(c, w)
        PROVE  Overwriters(v)' \subseteq Overwriters(v) /\ final' = final
    <3>1. /\ call'[c].at \in {"reverify", "statStaging"} /\ final' = final
          /\ \A d \in Calls : d # c => call'[d] = call[d]
      BY <2>2, CallTypes DEF Begin, CallStates, storageVars
    <3> QED BY <3>1 DEF Overwriters, At, Target
  <2>3. ASSUME NEW c \in Calls, CompleteStep(c)
        PROVE  /\ Overwriters(v)' \subseteq Overwriters(v)
               /\ final'[v] # final[v] => Overwriters(v)' # Overwriters(v)
    <3>1. Target(c) = v => ~(call'[c].at = "copy" /\ call'[c].target = Target(c))
      BY <2>3, CompleteSteps DEF NoCall
    <3>2. Overwriters(v)' \subseteq Overwriters(v) \ {c}
      BY <2>3, <3>1, CompleteSteps DEF Overwriters, At, Target, NoCall
    <3>3. final'[v] # final[v] => c \in Overwriters(v)
      BY <2>3, CompleteSteps DEF Overwriters, TypeOK
    <3> QED BY <3>2, <3>3
  <2> QED BY <2>1, <2>2, <2>3 DEF Next, InitNewVersion, PutStaging, DeleteDocument, vars, storageVars
<1> QED BY <1>1, TypeCorrect, PTL DEF Spec, FinalSettles

-----------------------------------------------------------------------------
(* The objects, when completions do not overlap.                           *)

LoneKnows(c) ==
  /\ At(c, "copy") => final[Target(c)] = NoObject
  /\ At(c, "select") \/ At(c, "lock") => call[c].finalized = final[Target(c)]

LoneInv == ReceivedMatchesFinal /\ \A c \in Calls : LoneKnows(c)

LEMMA LoneInductive ==
  ASSUME OneCall
  PROVE  TypeOK /\ StorageInv /\ LoneInv /\ [Next]_vars
           => LoneInv' /\ \A v \in Versions : final[v] # NoObject => final'[v] = final[v]
<1> SUFFICES ASSUME TypeOK, StorageInv, LoneInv, [Next]_vars
             PROVE  LoneInv' /\ \A v \in Versions : final[v] # NoObject => final'[v] = final[v]
  OBVIOUS
<1>1. /\ final \in [Versions -> Object] /\ NoObject \notin Matching
      /\ \A d \in Calls : CallKnows(d) /\ LoneKnows(d) /\ Target(d) \in Versions
  BY ContentsAssumption, CallTypes DEF TypeOK, Object, StorageInv, LoneInv, Target
<1>2. ASSUME NEW v \in Versions, final[v] # NoObject PROVE final'[v] = final[v]
  <2>1. CASE UNCHANGED final
    BY <2>1
  <2>2. ASSUME NEW c \in Calls, CompleteStep(c) PROVE final'[v] = final[v]
    BY <1>1, <1>2, <2>2, CompleteSteps DEF LoneKnows, At
  <2> QED BY <2>1, <2>2 DEF Next, InitNewVersion, PutStaging, DeleteDocument, Begin, vars, storageVars
<1>3. ASSUME NEW d \in Calls PROVE LoneKnows(d)'
  <2>1. CASE UNCHANGED <<call, final>>
    BY <1>1, <2>1 DEF LoneKnows, At, Target
  <2>2. ASSUME NEW c \in Calls, NEW w \in Versions, Begin(c, w) PROVE LoneKnows(d)'
    <3>1. call'[d].at \in {"reverify", "statStaging"}
      BY <2>2, CallTypes DEF Begin, CallStates, OneCall
    <3> QED BY <3>1 DEF LoneKnows, At
  <2>3. ASSUME NEW c \in Calls, CompleteStep(c) PROVE LoneKnows(d)'
    <3>1. c = d
      BY DEF OneCall
    <3> QED BY <1>1, <2>3, <3>1, CompleteSteps DEF LoneKnows, At, Target, NoCall
  <2> QED BY <2>1, <2>2, <2>3 DEF Next, InitNewVersion, PutStaging, DeleteDocument, vars, storageVars
<1>4. ASSUME NEW v \in Received' PROVE etag'[v] = final'[v]
  <2>1. CASE v \in Received /\ etag'[v] = etag[v]
    <3>1. final[v] # NoObject /\ etag[v] = final[v] /\ v \in Versions
      BY <1>1, <2>1 DEF StorageInv, FinalMeetsContract, LoneInv, ReceivedMatchesFinal, Received
    <3> QED BY <1>2, <2>1, <3>1
  <2>2. CASE ~(v \in Received /\ etag'[v] = etag[v])
    <3>1. PICK b \in Calls : Receipt(b)
      BY <1>4, <2>2, RowSteps, ReceivedUnchanged
    <3>2. PICK d \in Calls :
            /\ Receipt(d) /\ At(d, "lock") /\ UNCHANGED storageVars /\ Ends(d)
            /\ call[d].finalized \in Matching /\ final[Target(d)] # NoObject
      BY <1>1, <3>1, ReceiptKnows
    <3>3. /\ Received' = Received \cup {Target(d)} /\ etag \in [Versions -> Object]
          /\ etag' = [etag EXCEPT ![Target(d)] = call[d].finalized]
      BY <3>2, ReceiptEffect DEF TypeOK, Object
    <3>4. v = Target(d)
      BY <1>4, <2>2, <3>3 DEF Received
    <3> QED BY <1>1, <3>2, <3>3, <3>4 DEF LoneKnows, storageVars
  <2> QED BY <2>1, <2>2
<1> QED BY <1>2, <1>3, <1>4 DEF LoneInv, ReceivedMatchesFinal

LEMMA LoneAlways == ASSUME OneCall PROVE Spec => []LoneInv
<1>1. Init => LoneInv
  BY DEF Init, LoneInv, LoneKnows, NoCall, ReceivedMatchesFinal, Received, At
<1>2. TypeOK /\ StorageInv /\ LoneInv /\ [Next]_vars => LoneInv'
  BY LoneInductive
<1> QED BY <1>1, <1>2, TypeCorrect, StorageAlways, PTL DEF Spec

\* Completions that do not overlap never replace the final object of a RECEIVED
\* version, whatever the browser writes meanwhile and after calls that broke off.
THEOREM FinalIsImmutableToLoneCalls == ASSUME OneCall PROVE Spec => FinalIsImmutable
<1>1. TypeOK /\ StorageInv /\ LoneInv /\ [Next]_vars => \A v \in Received : final'[v] = final[v]
  BY LoneInductive, ContentsAssumption DEF StorageInv, FinalMeetsContract, Received
<1> QED BY <1>1, TypeCorrect, StorageAlways, LoneAlways, PTL DEF Spec, FinalIsImmutable

\* ... and the ETag they record stays that of the object.
THEOREM ReceivedMatchesFinalOfLoneCalls == ASSUME OneCall PROVE Spec => []ReceivedMatchesFinal
<1>1. LoneInv => ReceivedMatchesFinal
  BY DEF LoneInv
<1> QED BY <1>1, LoneAlways, PTL

-----------------------------------------------------------------------------
(***************************************************************************)
(* Proofs about FolderTree for any number of folders, documents and        *)
(* requests: if folders are moved one at a time the tree stays a tree,     *)
(* whatever is created and deleted meanwhile.                              *)
(***************************************************************************)

-----------------------------------------------------------------------------
(* Types *)

LEMMA RequestTypes ==
  ASSUME FolderTypeOK, NEW r \in Requests
  PROVE  /\ request \in [Requests -> RequestStates]
         /\ request[r] \in RequestStates
         /\ request[r].item \in Items \cup {Root}
         /\ request[r].to \in Places
         /\ request[r].cursor \in Places
         /\ request[r].visited \in SUBSET Folders
BY DEF FolderTypeOK, RequestStates

LEMMA NoRequestType == NoRequest \in RequestStates
BY DEF NoRequest, RequestStates, Places

LEMMA NoRequestFields ==
  /\ NoRequest.op = "none" /\ NoRequest.at = "idle" /\ NoRequest.item = Root
  /\ NoRequest.visited = {}
BY DEF NoRequest

\* A request in progress has an item, and a folder to check or to read.
HasItem(r) ==
  /\ request[r].at # "idle" => request[r].op # "none" /\ request[r].item \in Items
  /\ request[r].at = "target" => request[r].to \in Folders
  /\ request[r].at = "walk" => request[r].cursor \in Folders
  /\ request[r].at \in {"idle", "target"} => request[r].visited = {}
  /\ request[r].op = "delete" => request[r].to = Root
  /\ request[r].at \in {"countFolders", "countDocuments"} => request[r].op = "delete"

ItemsKnown == \A r \in Requests : HasItem(r)

LEMMA TypesInit == FolderInit => FolderTypeOK /\ ItemsKnown
BY NoRequestType, NoRequestFields DEF FolderInit, FolderTypeOK, ItemsKnown, HasItem, Places

LEMMA BeginTypes ==
  ASSUME FolderTypeOK, ItemsKnown, NEW r \in Requests, NEW op \in {"create", "move", "delete"},
         NEW i \in Items, NEW to \in Places,
         NEW step \in {"target", "countFolders", "write"}, step = "target" => to \in Folders,
         op = "delete" => to = Root, step = "countFolders" => op = "delete",
         BeginRequest(r, op, i, to, step)
  PROVE  FolderTypeOK' /\ ItemsKnown'
<1>1. request' \in [Requests -> RequestStates]
  <2>1. request[r] \in RequestStates /\ request \in [Requests -> RequestStates]
    BY RequestTypes
  <2> DEFINE s == [request[r] EXCEPT !.op = op, !.at = step, !.item = i, !.to = to]
  <2>2. s \in RequestStates
    BY <2>1 DEF RequestStates
  <2>3. request' = [request EXCEPT ![r] = s]
    BY <2>1 DEF BeginRequest
  <2> QED BY <2>1, <2>2, <2>3
<1>2. ASSUME NEW q \in Requests PROVE HasItem(q)'
  <2>1. CASE q # r
    BY <2>1, RequestTypes DEF BeginRequest, HasItem, ItemsKnown
  <2>2. CASE q = r
    <3>1. request[r] \in RequestStates /\ request \in [Requests -> RequestStates]
      BY RequestTypes
    <3>2. /\ request'[r].at = step /\ request'[r].op = op /\ request'[r].item = i
          /\ request'[r].to = to /\ request'[r].visited = request[r].visited
      BY <3>1 DEF BeginRequest, RequestStates
    <3>3. request[r].visited = {}
      BY DEF BeginRequest, RequestAt, ItemsKnown, HasItem
    <3> QED BY <2>2, <3>2, <3>3 DEF HasItem
  <2> QED BY <2>1, <2>2
<1> QED BY <1>1, <1>2 DEF FolderTypeOK, ItemsKnown, BeginRequest, Reads

LEMMA EndsKeeps ==
  ASSUME FolderTypeOK, ItemsKnown, NEW r \in Requests, RequestEnds(r)
  PROVE  /\ request' \in [Requests -> RequestStates]
         /\ ItemsKnown'
         /\ request'[r] = NoRequest
         /\ \A q \in Requests \ {r} : request'[q] = request[q]
BY RequestTypes, NoRequestType, NoRequestFields DEF RequestEnds, ItemsKnown, HasItem

LEMMA TypesStep == FolderTypeOK /\ ItemsKnown /\ [FolderNext]_folderVars => FolderTypeOK' /\ ItemsKnown'
<1> SUFFICES ASSUME FolderTypeOK, ItemsKnown, [FolderNext]_folderVars PROVE FolderTypeOK' /\ ItemsKnown'
  OBVIOUS
<1>1. ASSUME NEW r \in Requests, NEW i \in Items, NEW to \in Places,
             BeginCreate(r, i, to) \/ BeginMove(r, i, to)
      PROVE  FolderTypeOK' /\ ItemsKnown'
  <2>1. /\ FirstStep(to) \in {"target", "write"}
        /\ FirstStep(to) = "target" => to \in Folders
    BY DEF FirstStep, Places
  <2> QED BY <1>1, <2>1, BeginTypes DEF BeginCreate, BeginMove
<1>2. ASSUME NEW r \in Requests, NEW i \in Items, BeginDelete(r, i)
      PROVE  FolderTypeOK' /\ ItemsKnown'
  <2>1. Root \in Places
    BY DEF Places
  <2> QED BY <1>2, <2>1, BeginTypes DEF BeginDelete
<1>3. ASSUME NEW r \in Requests, Reads, RequestEnds(r) PROVE FolderTypeOK' /\ ItemsKnown'
  <2>1. request' \in [Requests -> RequestStates] /\ ItemsKnown'
    BY <1>3, EndsKeeps
  <2> QED BY <2>1, <1>3 DEF FolderTypeOK, Reads
<1>4. ASSUME NEW r \in Requests,
             NEW step \in {"countFolders", "countDocuments", "write"},
             Reads, Goes(r, step), ~RequestAt(r, "idle"),
             step # "write" => request[r].op = "delete"
      PROVE  FolderTypeOK' /\ ItemsKnown'
  <2>1. request' \in [Requests -> RequestStates] /\ ItemsKnown'
    BY <1>4, RequestTypes DEF Goes, RequestStates, ItemsKnown, HasItem, RequestAt
  <2> QED BY <2>1, <1>4 DEF FolderTypeOK, Reads
<1>5. ASSUME NEW r \in Requests, CheckTarget(r) PROVE FolderTypeOK' /\ ItemsKnown'
  <2>1. CASE Active(request[r].to) /\ MovesFolder(r)
    <3>1. request[r].to \in Folders
      BY <1>5 DEF CheckTarget, RequestAt, ItemsKnown, HasItem
    <3>2. request' \in [Requests -> RequestStates] /\ ItemsKnown'
      BY <1>5, <2>1, <3>1, RequestTypes DEF CheckTarget, RequestStates, ItemsKnown, HasItem, RequestAt
    <3> QED BY <3>2, <1>5 DEF FolderTypeOK, CheckTarget, Reads
  <2>2. CASE ~(Active(request[r].to) /\ MovesFolder(r))
    BY <1>3, <1>4, <1>5, <2>2 DEF CheckTarget, RequestAt
  <2> QED BY <2>1, <2>2
<1>6. ASSUME NEW r \in Requests, Walk(r) PROVE FolderTypeOK' /\ ItemsKnown'
  <2> DEFINE f == request[r].cursor
  <2>1. CASE f = Item(r) \/ f \in request[r].visited \/ ~Active(f)
    BY <1>3, <1>6, <2>1 DEF Walk
  <2>2. CASE f \notin request[r].visited /\ f # Item(r) /\ Active(f)
    <3>1. f \in Folders
      BY <1>6 DEF Walk, RequestAt, ItemsKnown, HasItem
    <3>2. parent[f] \in Places
      BY <3>1 DEF FolderTypeOK, Items
    <3>3. request' \in [Requests -> RequestStates] /\ ItemsKnown'
      BY <1>6, <2>2, <3>1, <3>2, RequestTypes DEF Walk, RequestStates, ItemsKnown, HasItem, RequestAt, Places
    <3> QED BY <3>3, <1>6 DEF FolderTypeOK, Walk, Reads
  <2> QED BY <2>1, <2>2
<1>7. ASSUME NEW r \in Requests, CountFolders(r) \/ CountDocuments(r)
      PROVE  FolderTypeOK' /\ ItemsKnown'
  BY <1>3, <1>4, <1>7 DEF CountFolders, CountDocuments, RequestAt, ItemsKnown, HasItem
<1>8. ASSUME NEW r \in Requests, Write(r) PROVE FolderTypeOK' /\ ItemsKnown'
  <2>1. request' \in [Requests -> RequestStates] /\ ItemsKnown'
    BY <1>8, EndsKeeps DEF Write
  <2>2. request[r].to \in Places
    BY RequestTypes
  <2> QED BY <2>1, <2>2, <1>8 DEF FolderTypeOK, Write
<1>9. ASSUME NEW r \in Requests, RequestBreaksOff(r) PROVE FolderTypeOK' /\ ItemsKnown'
  BY <1>3, <1>9 DEF RequestBreaksOff
<1>10. CASE UNCHANGED folderVars
  BY <1>10 DEF folderVars, FolderTypeOK, ItemsKnown, HasItem
<1> QED BY <1>1, <1>2, <1>5, <1>6, <1>7, <1>8, <1>9, <1>10 DEF FolderNext, Proceed

\* Every variable always has its type.
THEOREM FolderTypeCorrect == FolderSpec => []FolderTypeOK
BY TypesInit, TypesStep, PTL DEF FolderSpec

-----------------------------------------------------------------------------
(* The tree, when at most one folder is moved at a time. *)

\* Places are only ever items that exist.
RowsExist ==
  \A f \in Folders : /\ parent[f] \in Folders => status[parent[f]] # "absent"
                     /\ status[f] = "absent" => parent[f] = Root

\* The same of a request: what it creates does not exist yet, what it moves,
\* deletes or puts something into does.
Exists(r) ==
  /\ request[r].op = "create" => status[Item(r)] = "absent"
  /\ request[r].op \in {"move", "delete"} => status[Item(r)] # "absent"
  /\ request[r].at \in {"walk", "write"} /\ request[r].to \in Folders =>
       status[request[r].to] # "absent"

CreatesApart ==
  \A q, r \in Requests :
    request[q].op = "create" /\ request[r].op = "create" /\ Item(q) = Item(r) => q = r

OneMover == \A q, r \in Requests : MovesFolder(q) /\ MovesFolder(r) => q = r

\* What the walk of a move has established: the ancestors of the new parent
\* read so far do not include the folder, and the rest begins at the cursor.
Walked(r) ==
  MovesFolder(r) /\ request[r].to \in Folders /\ request[r].at \in {"walk", "write"} =>
    /\ request[r].to \in request[r].visited \cup {request[r].cursor}
    /\ Item(r) \notin request[r].visited
    /\ \A v \in request[r].visited :
         status[v] # "absent" /\ parent[v] \in request[r].visited \cup {request[r].cursor}
    /\ RequestAt(r, "write") => request[r].cursor = Root

TreeInv ==
  /\ RowsExist /\ CreatesApart /\ OneMover /\ Acyclic
  /\ \A r \in Requests : Exists(r) /\ Walked(r)

LEMMA TreeInit == FolderInit => TreeInv
<1> SUFFICES ASSUME FolderInit PROVE TreeInv
  OBVIOUS
<1>1. \A f \in Folders : parent[f] = Root
  BY DEF FolderInit, Items
<1>2. Root \notin Folders
  BY IdsAssumption
<1>3. \A r \in Requests : request[r] = NoRequest
  BY DEF FolderInit
<1>4. RowsExist /\ Acyclic
  BY <1>1, <1>2 DEF RowsExist, Acyclic
<1>5. \A r \in Requests : Exists(r) /\ Walked(r)
  BY <1>3, NoRequestFields DEF Exists, Walked, MovesFolder
<1> QED BY <1>3, <1>4, <1>5, NoRequestFields DEF TreeInv, CreatesApart, OneMover, MovesFolder

\* Steps that only read: the rows are as they were, so it is enough to look at
\* the request that moves on, which keeps its item or ends.
LEMMA ReadingKeeps ==
  ASSUME FolderTypeOK, TreeInv, NEW r \in Requests, Reads,
         \A q \in Requests \ {r} : request'[q] = request[q],
         \/ request'[r] = NoRequest
         \/ /\ request'[r].op = request[r].op
            /\ request'[r].item = request[r].item
            /\ Exists(r)' /\ Walked(r)'
  PROVE  TreeInv'
<1>1. RowsExist' /\ Acyclic'
  BY DEF TreeInv, Reads, RowsExist, Acyclic
<1>2. ASSUME NEW q \in Requests PROVE Exists(q)' /\ Walked(q)'
  <2>1. CASE q # r
    BY <2>1 DEF TreeInv, Reads, Exists, Walked, MovesFolder, Item, RequestAt
  <2>2. CASE q = r /\ request'[r] = NoRequest
    BY <2>2, NoRequestFields DEF Exists, Walked, MovesFolder
  <2> QED BY <2>1, <2>2
<1>3. CreatesApart' /\ OneMover'
  BY NoRequestFields DEF TreeInv, CreatesApart, OneMover, MovesFolder, Item
<1> QED BY <1>1, <1>2, <1>3 DEF TreeInv

\* A new request: what it creates nobody else creates, and it moves a folder
\* only if nobody else does.
LEMMA BeginKeeps ==
  ASSUME FolderTypeOK, ItemsKnown, TreeInv, NEW r \in Requests,
         NEW op \in {"create", "move", "delete"}, NEW i \in Items, NEW to \in Places,
         NEW step \in {"target", "countFolders", "write"},
         BeginRequest(r, op, i, to, step),
         step = "write" => to = Root,
         op = "create" => status[i] = "absent" /\ \A q \in Requests :
                            request[q].op = "create" => Item(q) # i,
         op # "create" => status[i] # "absent",
         op = "move" /\ i \in Folders => \A q \in Requests : ~MovesFolder(q)
  PROVE  TreeInv'
<1>1. request[r] \in RequestStates /\ request \in [Requests -> RequestStates]
  BY RequestTypes
<1>2. /\ request'[r].at = step /\ request'[r].op = op /\ request'[r].item = i
      /\ request'[r].to = to /\ \A q \in Requests \ {r} : request'[q] = request[q]
  BY <1>1 DEF BeginRequest, RequestStates
<1>3. RowsExist' /\ Acyclic'
  BY DEF TreeInv, BeginRequest, Reads, RowsExist, Acyclic
<1>4. Root \notin Folders
  BY IdsAssumption
<1>5. ASSUME NEW q \in Requests PROVE Exists(q)' /\ Walked(q)'
  <2>1. CASE q # r
    <3>1. request'[q] = request[q] /\ UNCHANGED <<status, parent>> /\ Exists(q) /\ Walked(q)
      BY <1>2, <2>1 DEF TreeInv, BeginRequest, Reads
    <3> QED BY <3>1 DEF Exists, Walked, MovesFolder, Item, RequestAt
  <2>2. CASE q = r
    <3>1. Exists(r)'
      BY <1>2, <1>4 DEF BeginRequest, Reads, Exists, Item
    <3>2. Walked(r)'
      BY <1>2, <1>4 DEF Walked
    <3> QED BY <2>2, <3>1, <3>2
  <2> QED BY <2>1, <2>2
<1>6. CreatesApart'
  BY <1>2 DEF TreeInv, CreatesApart, Item
<1>7. OneMover'
  BY <1>2 DEF TreeInv, OneMover, MovesFolder, Item
<1> QED BY <1>3, <1>5, <1>6, <1>7 DEF TreeInv

\* The walk of assertNoCycle: an iteration that goes on has read one more
\* ancestor, which is not the folder being moved.
LEMMA WalkKeeps ==
  ASSUME FolderTypeOK, ItemsKnown, TreeInv, NEW r \in Requests, Walk(r) PROVE TreeInv'
<1> DEFINE f == request[r].cursor
<1>1. /\ request[r] \in RequestStates /\ request \in [Requests -> RequestStates]
      /\ f \in Folders
  BY RequestTypes DEF Walk, RequestAt, ItemsKnown, HasItem
<1>2. CASE f = Item(r) \/ f \in request[r].visited \/ ~Active(f)
  <2>1. request'[r] = NoRequest /\ \A q \in Requests \ {r} : request'[q] = request[q]
    BY <1>2, EndsKeeps DEF Walk
  <2> QED BY <2>1, ReadingKeeps DEF Walk
<1>3. CASE f # Item(r) /\ f \notin request[r].visited /\ Active(f)
  <2>1. /\ \A q \in Requests \ {r} : request'[q] = request[q]
        /\ request'[r].op = request[r].op /\ request'[r].item = request[r].item
        /\ request'[r].to = request[r].to /\ request'[r].cursor = parent[f]
        /\ request'[r].visited = request[r].visited \cup {f}
        /\ request'[r].at = IF parent[f] = Root THEN "write" ELSE "walk"
    BY <1>1, <1>3 DEF Walk, RequestStates
  <2>2. Exists(r) /\ Walked(r) /\ RequestAt(r, "walk") /\ Reads
    BY DEF Walk, TreeInv
  <2>3. Exists(r)'
    BY <2>1, <2>2 DEF Exists, Item, Reads, RequestAt
  <2>4. Walked(r)'
    <3>1. status[f] # "absent"
      BY <1>3 DEF Active
    <3> QED BY <1>3, <2>1, <2>2, <3>1 DEF Walked, MovesFolder, Item, RequestAt, Reads
  <2> QED BY <2>1, <2>2, <2>3, <2>4, ReadingKeeps
<1> QED BY <1>2, <1>3

LEMMA CheckTargetKeeps ==
  ASSUME FolderTypeOK, ItemsKnown, TreeInv, NEW r \in Requests, CheckTarget(r) PROVE TreeInv'
<1>1. /\ request[r] \in RequestStates /\ request \in [Requests -> RequestStates]
      /\ request[r].visited = {} /\ Reads /\ Exists(r)
  BY RequestTypes DEF CheckTarget, RequestAt, ItemsKnown, HasItem, TreeInv
<1>2. CASE ~Active(request[r].to)
  <2>1. request'[r] = NoRequest /\ \A q \in Requests \ {r} : request'[q] = request[q]
    BY <1>2, EndsKeeps DEF CheckTarget
  <2> QED BY <1>1, <2>1, ReadingKeeps
<1>3. CASE Active(request[r].to)
  <2>1. /\ \A q \in Requests \ {r} : request'[q] = request[q]
        /\ request'[r].op = request[r].op /\ request'[r].item = request[r].item
        /\ request'[r].to = request[r].to /\ request'[r].visited = {}
        /\ MovesFolder(r) => request'[r].at = "walk" /\ request'[r].cursor = request[r].to
    BY <1>1, <1>3 DEF CheckTarget, Goes, RequestStates
  <2>2. Exists(r)'
    BY <1>1, <1>3, <2>1 DEF Exists, Item, Reads, Active
  <2>3. Walked(r)'
    BY <1>1, <2>1 DEF Walked, MovesFolder, Item, RequestAt
  <2> QED BY <1>1, <2>1, <2>2, <2>3, ReadingKeeps
<1> QED BY <1>2, <1>3

LEMMA CountKeeps ==
  ASSUME FolderTypeOK, ItemsKnown, TreeInv, NEW r \in Requests,
         CountFolders(r) \/ CountDocuments(r)
  PROVE  TreeInv'
<1>1. request[r] \in RequestStates /\ request \in [Requests -> RequestStates]
  BY RequestTypes
<1>2. CASE RequestEnds(r)
  <2>1. request'[r] = NoRequest /\ \A q \in Requests \ {r} : request'[q] = request[q]
    BY <1>2, EndsKeeps
  <2> QED BY <2>1, ReadingKeeps DEF CountFolders, CountDocuments
<1>3. CASE ~RequestEnds(r)
  <2>1. /\ \A q \in Requests \ {r} : request'[q] = request[q]
        /\ request'[r].op = request[r].op /\ request'[r].item = request[r].item
        /\ request'[r].to = request[r].to /\ Reads
    BY <1>1, <1>3 DEF CountFolders, CountDocuments, Goes, RequestStates
  <2>2. request[r].op = "delete" /\ request[r].to = Root /\ Exists(r)
    BY DEF CountFolders, CountDocuments, RequestAt, ItemsKnown, HasItem, TreeInv
  <2>3. Root \notin Folders
    BY IdsAssumption
  <2>4. Exists(r)' /\ Walked(r)'
    BY <2>1, <2>2, <2>3 DEF Exists, Walked, MovesFolder, Item, Reads
  <2> QED BY <2>1, <2>4, ReadingKeeps
<1> QED BY <1>2, <1>3

\* The write puts a folder below one that is not among its descendants: a new
\* folder has none, and a moved one was not met on the way up from its parent.
LEMMA WriteKeepsAcyclic ==
  ASSUME FolderTypeOK, ItemsKnown, TreeInv, NEW r \in Requests, Write(r) PROVE Acyclic'
<1> DEFINE i == Item(r)
<1> DEFINE to == request[r].to
<1>1. /\ RowsExist /\ Acyclic /\ Exists(r) /\ Walked(r) /\ RequestAt(r, "write")
      /\ i \in Items /\ request[r].op \in {"create", "move", "delete"}
      /\ request[r].visited \in SUBSET Folders
      /\ parent \in [Items -> Places]
  <2>1. request[r] \in RequestStates /\ request[r].visited \in SUBSET Folders
    BY RequestTypes
  <2>2. RequestAt(r, "write") /\ i \in Items /\ request[r].op # "none"
    BY DEF Write, RequestAt, Item, ItemsKnown, HasItem
  <2>3. request[r].op \in {"create", "move", "delete"}
    BY <2>1, <2>2 DEF RequestStates
  <2> QED BY <2>1, <2>2, <2>3 DEF TreeInv, FolderTypeOK
<1>2. Root \notin Folders /\ Folders \subseteq Items
  BY IdsAssumption DEF Items
<1>3. SUFFICES ASSUME NEW S \in SUBSET Folders, S # {}, \A f \in S : parent'[f] \in S
               PROVE  FALSE
  BY DEF Acyclic
<1>4. \A f \in Items : f # i => parent'[f] = parent[f]
  BY <1>1 DEF Write
<1>5. CASE i \notin S \/ request[r].op = "delete"
  <2>1. \A f \in S : parent[f] \in S
    BY <1>2, <1>3, <1>4, <1>5 DEF Write
  <2> QED BY <1>1, <1>3, <2>1 DEF Acyclic
<1>6. CASE i \in S /\ request[r].op = "create"
  <2> DEFINE T == S \ {i}
  <2>1. parent'[i] = to /\ to \in S
    BY <1>1, <1>3, <1>6 DEF Write
  <2>2. status[i] = "absent" /\ status[to] # "absent"
    BY <1>1, <1>6, <2>1 DEF Exists, RequestAt
  <2>3. T \in SUBSET Folders /\ to \in T
    BY <2>1, <2>2
  <2>4. \A f \in T : parent[f] \in T
    BY <1>1, <1>2, <1>3, <1>4, <2>2 DEF RowsExist
  <2> QED BY <1>1, <2>3, <2>4 DEF Acyclic
<1>7. CASE i \in S /\ request[r].op = "move"
  <2> DEFINE T == S \cap request[r].visited
  <2>1. parent'[i] = to /\ to \in S
    BY <1>1, <1>3, <1>7 DEF Write
  <2>2. /\ request[r].cursor = Root
        /\ to \in request[r].visited \cup {Root}
        /\ i \notin request[r].visited
        /\ \A v \in request[r].visited : parent[v] \in request[r].visited \cup {Root}
    BY <1>1, <1>7, <2>1 DEF Walked, MovesFolder, RequestAt
  <2>3. T \in SUBSET Folders /\ to \in T
    BY <1>2, <2>1, <2>2
  <2>4. \A f \in T : parent[f] \in T
    BY <1>2, <1>3, <1>4, <2>2
  <2> QED BY <1>1, <2>3, <2>4 DEF Acyclic
<1> QED BY <1>1, <1>5, <1>6, <1>7

LEMMA WriteKeeps ==
  ASSUME FolderTypeOK, ItemsKnown, TreeInv, NEW r \in Requests, Write(r) PROVE TreeInv'
<1> DEFINE i == Item(r)
<1> DEFINE to == request[r].to
<1>1. /\ request'[r] = NoRequest
      /\ \A q \in Requests \ {r} : request'[q] = request[q]
  BY EndsKeeps DEF Write
<1>2. /\ i \in Items /\ request[r] \in RequestStates
      /\ request[r].op \in {"create", "move", "delete"}
      /\ to \in Places
  <2>1. request[r] \in RequestStates /\ request[r].to \in Places
    BY RequestTypes
  <2>2. i \in Items /\ request[r].op # "none"
    BY DEF Write, RequestAt, Item, ItemsKnown, HasItem
  <2> QED BY <2>1, <2>2 DEF RequestStates
<1>3. /\ status \in [Items -> {"absent", "active", "deleted"}] /\ parent \in [Items -> Places]
      /\ Root \notin Folders /\ Folders \subseteq Items /\ Folders \cap Documents = {}
  BY IdsAssumption DEF FolderTypeOK, Items
<1>4. Exists(r) /\ RowsExist /\ RequestAt(r, "write")
  BY DEF TreeInv, Write
<1>5. /\ \A f \in Items : f # i => status'[f] = status[f] /\ parent'[f] = parent[f]
      /\ status'[i] # "absent"
      /\ parent'[i] = IF request[r].op = "delete" THEN parent[i] ELSE to
      /\ request[r].op = "delete" => parent' = parent
  <2>1. status'[i] = CASE request[r].op = "create" -> "active"
                       [] request[r].op = "delete" -> "deleted"
                       [] OTHER -> status[i]
    BY <1>2, <1>3 DEF Write
  <2>2. status'[i] # "absent"
    BY <1>2, <1>4, <2>1 DEF Exists
  <2> QED BY <1>2, <1>3, <2>2 DEF Write
<1>6. \A f \in Items : status[f] # "absent" => status'[f] # "absent"
  BY <1>5
<1>7. RowsExist'
  <2> SUFFICES ASSUME NEW f \in Folders
               PROVE  /\ parent'[f] \in Folders => status'[parent'[f]] # "absent"
                      /\ status'[f] = "absent" => parent'[f] = Root
    BY DEF RowsExist
  <2>1. CASE f # i
    BY <1>3, <1>4, <1>5, <1>6, <2>1 DEF RowsExist
  <2>2. CASE f = i
    <3>1. to \in Folders => status[to] # "absent"
      BY <1>4 DEF Exists, RequestAt
    <3> QED BY <1>3, <1>4, <1>5, <1>6, <2>2, <3>1 DEF RowsExist
  <2> QED BY <2>1, <2>2
<1>8. ASSUME NEW q \in Requests, q # r PROVE Exists(q)'
  <2>1. Exists(q) /\ request'[q] = request[q]
    BY <1>1, <1>8 DEF TreeInv
  <2>2. HasItem(q) /\ request[q] \in RequestStates
    BY RequestTypes DEF ItemsKnown
  <2>3. ASSUME request[q].op = "create" PROVE status'[Item(q)] = "absent"
    <3>1. Item(q) # i
      BY <1>2, <1>4, <1>8, <2>1, <2>3 DEF Exists, TreeInv, CreatesApart
    <3>2. status[Item(q)] = "absent"
      BY <2>1, <2>3 DEF Exists
    <3>3. Item(q) \in Items \/ Item(q) = Root
      BY <2>2 DEF RequestStates, Item
    <3> QED BY <1>2, <1>3, <3>1, <3>2, <3>3 DEF Write
  <2>4. ASSUME request[q].op \in {"move", "delete"} PROVE status'[Item(q)] # "absent"
    <3>1. Item(q) \in Items \/ Item(q) = Root
      BY <2>2 DEF RequestStates, Item
    <3> QED BY <1>2, <1>3, <1>5, <1>6, <2>1, <2>4, <3>1 DEF Exists, Write
  <2>5. ASSUME request[q].at \in {"walk", "write"}, request[q].to \in Folders
        PROVE  status'[request[q].to] # "absent"
    BY <1>3, <1>6, <2>1, <2>5 DEF Exists
  <2> QED BY <2>1, <2>3, <2>4, <2>5 DEF Exists, Item
<1>9. ASSUME NEW q \in Requests, q # r PROVE Walked(q)'
  <2>1. Walked(q) /\ request'[q] = request[q]
    BY <1>1, <1>9 DEF TreeInv
  <2>2. request[q].visited \in SUBSET Folders
    BY RequestTypes
  <2>3. ASSUME MovesFolder(q), NEW v \in request[q].visited, status[v] # "absent"
        PROVE  status'[v] # "absent" /\ parent'[v] = parent[v]
    <3>1. v \in Folders
      BY <2>2
    <3>2. ~MovesFolder(r)
      BY <1>9, <2>3 DEF TreeInv, OneMover
    <3>3. v = i => request[r].op = "delete"
      BY <1>2, <1>4, <2>3, <3>1, <3>2 DEF MovesFolder, Exists
    <3> QED BY <1>3, <1>5, <1>6, <2>3, <3>1, <3>3
  <2> QED BY <2>1, <2>2, <2>3 DEF Walked, MovesFolder, Item, RequestAt
<1>10. Exists(r)' /\ Walked(r)'
  BY <1>1, NoRequestFields DEF Exists, Walked, MovesFolder
<1>11. CreatesApart' /\ OneMover'
  BY <1>1, NoRequestFields DEF TreeInv, CreatesApart, OneMover, MovesFolder, Item
<1>12. Acyclic'
  BY WriteKeepsAcyclic
<1>13. \A q \in Requests : Exists(q)' /\ Walked(q)'
  BY <1>8, <1>9, <1>10
<1> QED BY <1>7, <1>11, <1>12, <1>13 DEF TreeInv

LEMMA TreeStep ==
  ASSUME SerialMoves
  PROVE  FolderTypeOK /\ ItemsKnown /\ TreeInv /\ [FolderNext]_folderVars => TreeInv'
<1> SUFFICES ASSUME FolderTypeOK, ItemsKnown, TreeInv, [FolderNext]_folderVars PROVE TreeInv'
  OBVIOUS
<1>1. ASSUME NEW r \in Requests, NEW i \in Items, NEW to \in Places,
             BeginCreate(r, i, to) \/ BeginMove(r, i, to)
      PROVE  TreeInv'
  <2>1. /\ FirstStep(to) \in {"target", "countFolders", "write"}
        /\ FirstStep(to) = "write" => to = Root
    BY DEF FirstStep
  <2>2. CASE BeginCreate(r, i, to)
    BY <2>1, <2>2, BeginKeeps DEF BeginCreate
  <2>3. CASE BeginMove(r, i, to)
    <3>1. status[i] # "absent"
      BY <2>3 DEF BeginMove, Active
    <3> QED BY <2>1, <2>3, <3>1, BeginKeeps DEF BeginMove
  <2> QED BY <1>1, <2>2, <2>3
<1>2. ASSUME NEW r \in Requests, NEW i \in Items, BeginDelete(r, i) PROVE TreeInv'
  <2>1. Root \in Places /\ status[i] # "absent"
    BY <1>2 DEF Places, BeginDelete, Active
  <2> QED BY <1>2, <2>1, BeginKeeps DEF BeginDelete
<1>3. ASSUME NEW r \in Requests, Proceed(r) PROVE TreeInv'
  BY <1>3, CheckTargetKeeps, WalkKeeps, CountKeeps, WriteKeeps DEF Proceed
<1>4. ASSUME NEW r \in Requests, RequestBreaksOff(r) PROVE TreeInv'
  <2>1. request'[r] = NoRequest /\ \A q \in Requests \ {r} : request'[q] = request[q]
    BY <1>4, EndsKeeps DEF RequestBreaksOff
  <2> QED BY <1>4, <2>1, ReadingKeeps DEF RequestBreaksOff
<1>5. CASE UNCHANGED folderVars
  BY <1>5 DEF folderVars, TreeInv, RowsExist, CreatesApart, OneMover, Acyclic, Exists, Walked,
              MovesFolder, Item, RequestAt
<1> QED BY <1>1, <1>2, <1>3, <1>4, <1>5 DEF FolderNext

\* One move at a time is enough for assertNoCycle to keep the tree a tree,
\* whatever is created and deleted between its reads and its write.
THEOREM AcyclicUnderSerialMoves == ASSUME SerialMoves PROVE FolderSpec => []Acyclic
<1>1. TreeInv => Acyclic
  BY DEF TreeInv
<1> QED BY <1>1, TreeInit, TreeStep, TypesInit, TypesStep, PTL DEF FolderSpec
=============================================================================
