-------------------------- MODULE OutboxRelayProofs --------------------------
(***************************************************************************)
(* Theorems about OutboxRelay, for any number of events and relays and any *)
(* values of its limits.                                                   *)
(*                                                                         *)
(* The guarded UPDATEs of the repository compare claim_owner, never the    *)
(* attempt they settle.  That is enough because a relay polls only with an *)
(* empty batch in hand (LoopShape) and instance ids are distinct: the row  *)
(* a relay owns is the row it last claimed (ClaimIsFenced).  On the fence  *)
(* rests the accounting of attempts (AttemptsAreCharged): every attempt of *)
(* an event but the one in progress is paid for by a fault.                *)
(***************************************************************************)
EXTENDS OutboxRelay, TLAPS

\* Replicas are configured with unique stable instance ids.
DistinctIds == \A r, s \in Relays : InstanceOf[r] = InstanceOf[s] => r = s

LoopShape ==
  \A r \in Relays :
    /\ pc[r] \in {"down", "poll"} => \A e \in Events : held[r][e] = 0
    /\ pc[r] # "settle" => current[r] = NoEvent /\ outcome[r] = "none"
    /\ pc[r] = "settle" => /\ current[r] \in Events
                           /\ held[r][current[r]] > 0
                           /\ outcome[r] # "none"
                           /\ outcome[r] = "contractError" <=> current[r] \in Unroutable

AcceptedIsQueued ==
  \A r \in Relays : outcome[r] = "accepted" => Queued(current[r])

JobIdsAreCanonical == \A job \in queue : job.id = TransportJobId(job.event)

\* A failed publish of e is about to be recorded by the owner of the claim.
FailureInHand(e) ==
  \E r \in Relays : Owns(r, e) /\ current[r] = e /\ outcome[r] = "transportError"

Charged(e) ==
  /\ status[e] \in {"ABSENT", "PENDING"} => attempts[e] <= faults
  /\ status[e] = "PUBLISHING" => attempts[e] \in 1 .. faults + 1
  /\ status[e] = "PUBLISHING" /\ (ripe[e] \/ ~HeldByOwner(e) \/ FailureInHand(e))
       => attempts[e] <= faults

AttemptsAreCharged == \A e \in Events : Charged(e)

\* What holds whatever the instance ids, and what needs them distinct.
DeliveryInv ==
  /\ TypeOK
  /\ LoopShape
  /\ JobIdsAreCanonical
  /\ AcceptedIsQueued
  /\ PublishedIsQueued
  /\ StateShapeCheck
  /\ AttemptsBounded

FencedInv ==
  /\ ClaimIsFenced
  /\ AttemptsAreCharged
  /\ GivenUpOnlyAfterFaults

-----------------------------------------------------------------------------
(* Type correctness. *)

LEMMA TypeInit == Init => TypeOK
  BY EventsAssumption, InstanceAssumption
  DEF Init, TypeOK, Statuses, Outcomes, Jobs

LEMMA AddJobType ==
  ASSUME NEW e \in Events, queue \subseteq Jobs, AddJob(e)
  PROVE  queue' \subseteq Jobs
  BY DEF AddJob, Jobs

LEMMA EndClaimType ==
  ASSUME NEW r \in Relays, NEW e \in Events, NEW s \in Statuses,
         TypeOK, EndClaim(r, e, s)
  PROVE  /\ status' \in [Events -> Statuses]
         /\ owner' \in [Events -> Instances \cup {NoOwner}]
         /\ attempts' \in [Events -> Nat]
         /\ ripe' \in [Events -> BOOLEAN]
  BY DEF EndClaim, TypeOK, rowVars

LEMMA SettledType ==
  ASSUME NEW r \in Relays, TypeOK, current[r] \in Events, Settled(r)
  PROVE  /\ pc' \in [Relays -> {"down", "poll", "batch", "settle"}]
         /\ held' \in [Relays -> [Events -> Nat]]
         /\ current' \in [Relays -> Events \cup {NoEvent}]
         /\ outcome' \in [Relays -> Outcomes]
         /\ stopping' \in [Relays -> BOOLEAN]
         /\ queue' \subseteq Jobs
         /\ faults' \in Nat
  BY DEF Settled, TypeOK, Outcomes

LEMMA AttemptType ==
  ASSUME NEW r \in Relays, NEW e \in Events, NEW o \in Outcomes,
         TypeOK, Attempt(r, e, o)
  PROVE  /\ status' \in [Events -> Statuses]
         /\ owner' \in [Events -> Instances \cup {NoOwner}]
         /\ attempts' \in [Events -> Nat]
         /\ ripe' \in [Events -> BOOLEAN]
         /\ pc' \in [Relays -> {"down", "poll", "batch", "settle"}]
         /\ held' \in [Relays -> [Events -> Nat]]
         /\ current' \in [Relays -> Events \cup {NoEvent}]
         /\ outcome' \in [Relays -> Outcomes]
         /\ stopping' \in [Relays -> BOOLEAN]
  BY DEF Attempt, TypeOK, rowVars

LEMMA ClaimType ==
  ASSUME NEW r \in Relays, NEW batch \in SUBSET Events, TypeOK, ClaimBatch(r, batch)
  PROVE  TypeOK'
  <1>1. status' \in [Events -> Statuses]
    BY DEF ClaimBatch, TypeOK, Statuses
  <1>2. owner' \in [Events -> Instances \cup {NoOwner}]
    BY InstanceAssumption DEF ClaimBatch, TypeOK
  <1>3. attempts' \in [Events -> Nat] /\ ripe' \in [Events -> BOOLEAN]
    BY DEF ClaimBatch, TypeOK
  <1>4. held' \in [Relays -> [Events -> Nat]]
    BY DEF ClaimBatch, TypeOK
  <1>5. pc' \in [Relays -> {"down", "poll", "batch", "settle"}]
    BY DEF ClaimBatch, TypeOK
  <1> QED
    BY <1>1, <1>2, <1>3, <1>4, <1>5 DEF ClaimBatch, TypeOK

LEMMA TypeNext == TypeOK /\ LoopShape /\ [Next]_vars => TypeOK'
  <1> SUFFICES ASSUME TypeOK, LoopShape, [Next]_vars PROVE TypeOK'
    OBVIOUS
  <1>1. ASSUME NEW e \in Events, Append(e) PROVE TypeOK'
    BY <1>1 DEF Append, TypeOK, Statuses, relayVars
  <1>2. ASSUME NEW e \in Events, BackoffElapses(e) PROVE TypeOK'
    BY <1>2 DEF BackoffElapses, TypeOK, relayVars
  <1>3. ASSUME NEW e \in Events, LeaseExpires(e) PROVE TypeOK'
    BY <1>3 DEF LeaseExpires, Fault, TypeOK, relayVars
  <1>4. ASSUME NEW r \in Relays, Start(r) PROVE TypeOK'
    BY <1>4 DEF Start, TypeOK, rowVars
  <1>5. ASSUME NEW r \in Relays, ClaimStep(r) PROVE TypeOK'
    BY <1>5, ClaimType DEF ClaimStep
  <1>6. ASSUME NEW r \in Relays, NEW e \in Events, RouteRefuses(r, e) PROVE TypeOK'
    BY <1>6, AttemptType DEF RouteRefuses, TypeOK, Outcomes
  <1>7. ASSUME NEW r \in Relays, NEW e \in Events, PublishSucceeds(r, e) PROVE TypeOK'
    BY <1>7, AttemptType, AddJobType DEF PublishSucceeds, TypeOK, Outcomes
  <1>8. ASSUME NEW r \in Relays, NEW e \in Events, PublishFails(r, e) PROVE TypeOK'
    <2>1. queue' \subseteq Jobs
      BY <1>8, AddJobType DEF PublishFails, TypeOK
    <2> QED
      BY <1>8, <2>1, AttemptType DEF PublishFails, Fault, TypeOK, Outcomes
  <1>9. ASSUME NEW r \in Relays, SettleStep(r) PROVE TypeOK'
    <2>1. current[r] \in Events /\ Settled(r)
      BY <1>9 DEF SettleStep, MarkPublished, RescheduleFailure, MarkTerminal, LoopShape
    <2>2. PICK s \in Statuses : EndClaim(r, current[r], s)
      BY <1>9 DEF SettleStep, MarkPublished, RescheduleFailure, MarkTerminal, Statuses
    <2> QED
      BY <2>1, <2>2, EndClaimType, SettledType DEF TypeOK
  <1>10. ASSUME NEW r \in Relays, RequestStop(r) PROVE TypeOK'
    BY <1>10 DEF RequestStop, TypeOK, rowVars
  <1>11. ASSUME NEW r \in Relays, StopsGracefully(r) PROVE TypeOK'
    BY <1>11 DEF StopsGracefully, TypeOK, rowVars
  <1>12. ASSUME NEW r \in Relays, Crash(r) PROVE TypeOK'
    BY <1>12 DEF Crash, Fault, TypeOK, rowVars, Outcomes
  <1>13. CASE UNCHANGED vars
    BY <1>13 DEF vars, rowVars, relayVars, TypeOK
  <1> QED
    BY <1>1, <1>2, <1>3, <1>4, <1>5, <1>6, <1>7, <1>8, <1>9, <1>10, <1>11, <1>12, <1>13
    DEF Next, PublishStep

-----------------------------------------------------------------------------
(* The shape of the loop, and what the queue holds. *)

LEMMA LoopShapeNext == TypeOK /\ LoopShape /\ [Next]_vars => LoopShape'
  <1> SUFFICES ASSUME TypeOK, LoopShape, [Next]_vars PROVE LoopShape'
    OBVIOUS
  <1> USE EventsAssumption DEF TypeOK, LoopShape
  <1>1. ASSUME NEW e \in Events, Append(e) \/ BackoffElapses(e) \/ LeaseExpires(e)
        PROVE  LoopShape'
    BY <1>1 DEF Append, BackoffElapses, LeaseExpires, relayVars
  <1>2. ASSUME NEW r \in Relays, Start(r) \/ RequestStop(r) \/ StopsGracefully(r)
        PROVE  LoopShape'
    BY <1>2 DEF Start, RequestStop, StopsGracefully
  <1>3. ASSUME NEW r \in Relays, ClaimStep(r) PROVE LoopShape'
    <2> PICK batch \in SUBSET Events : ClaimBatch(r, batch)
      BY <1>3 DEF ClaimStep
    <2>1. batch = {} => \A e \in Events : held'[r][e] = 0
      BY DEF ClaimBatch
    <2> QED
      BY <2>1 DEF ClaimBatch
  <1>4. ASSUME NEW r \in Relays, NEW e \in Events, NEW o \in Outcomes \ {"none"},
               Attempt(r, e, o), o = "contractError" <=> e \in Unroutable
        PROVE  LoopShape'
    BY <1>4 DEF Attempt
  <1>5. ASSUME NEW r \in Relays, PublishStep(r) PROVE LoopShape'
    BY <1>4, <1>5 DEF PublishStep, RouteRefuses, PublishSucceeds, PublishFails, Outcomes
  <1>6. ASSUME NEW r \in Relays, SettleStep(r) PROVE LoopShape'
    <2>1. Settled(r) /\ pc[r] = "settle" /\ current[r] \in Events
      BY <1>6 DEF SettleStep, MarkPublished, RescheduleFailure, MarkTerminal
    <2>2. pc'[r] = "poll" => \A e \in Events : held'[r][e] = 0
      BY <2>1 DEF Settled
    <2> QED
      BY <2>1, <2>2 DEF Settled
  <1>7. ASSUME NEW r \in Relays, Crash(r) PROVE LoopShape'
    BY <1>7 DEF Crash
  <1>8. CASE UNCHANGED vars
    BY <1>8 DEF vars, relayVars
  <1> QED
    BY <1>1, <1>2, <1>3, <1>5, <1>6, <1>7, <1>8 DEF Next

\* The only action on the queue.
LEMMA QueueStep ==
  [Next]_vars => UNCHANGED queue \/ \E e \in Events : AddJob(e)
  BY DEF Next, vars, Append, BackoffElapses, LeaseExpires, Start, ClaimStep, ClaimBatch,
         PublishStep, RouteRefuses, PublishSucceeds, PublishFails, SettleStep,
         MarkPublished, RescheduleFailure, MarkTerminal, Settled, RequestStop,
         StopsGracefully, Crash

LEMMA AddJobQueues ==
  ASSUME NEW e \in Events, JobIdsAreCanonical, queue \subseteq Jobs, AddJob(e)
  PROVE  Queued(e)'
  <1>1. CASE \E job \in queue : job.id = TransportJobId(e)
    <2> PICK job \in queue : job.id = TransportJobId(e)
      BY <1>1
    <2>1. TransportJobId(job.event) = TransportJobId(e)
      BY DEF JobIdsAreCanonical
    <2>2. job.event = e
      BY <2>1 DEF TransportJobId
    <2> QED
      BY <2>2, <1>1 DEF AddJob, Queued
  <1>2. CASE ~ \E job \in queue : job.id = TransportJobId(e)
    <2> DEFINE new == [id |-> TransportJobId(e), event |-> e]
    <2>1. new \in queue'
      BY <1>2 DEF AddJob
    <2>2. new.event = e
      OBVIOUS
    <2> QED
      BY <2>1, <2>2 DEF Queued
  <1> QED
    BY <1>1, <1>2

LEMMA QueuedStays ==
  ASSUME NEW e \in Events, [Next]_vars, Queued(e)
  PROVE  Queued(e)'
  BY QueueStep DEF AddJob, Queued

LEMMA JobIdsNext == JobIdsAreCanonical /\ [Next]_vars => JobIdsAreCanonical'
  BY QueueStep DEF JobIdsAreCanonical, AddJob, TransportJobId

LEMMA AcceptedNext ==
  /\ TypeOK /\ LoopShape /\ JobIdsAreCanonical /\ AcceptedIsQueued /\ [Next]_vars
  => AcceptedIsQueued'
  <1> SUFFICES ASSUME TypeOK, LoopShape, JobIdsAreCanonical, AcceptedIsQueued,
                      [Next]_vars, NEW r \in Relays, outcome'[r] = "accepted"
               PROVE  Queued(current[r])'
    BY DEF AcceptedIsQueued
  <1>1. CASE outcome[r] = "accepted" /\ current'[r] = current[r]
    BY <1>1, QueuedStays DEF AcceptedIsQueued, LoopShape, TypeOK
  <1>2. CASE \E e \in Events : PublishSucceeds(r, e)
    <2> PICK e \in Events : PublishSucceeds(r, e)
      BY <1>2
    <2>1. Queued(e)' /\ current'[r] = e
      BY AddJobQueues DEF PublishSucceeds, Attempt, TypeOK
    <2> QED
      BY <2>1 DEF Queued
  <1>3. \/ outcome[r] = "accepted" /\ current'[r] = current[r]
        \/ \E e \in Events : PublishSucceeds(r, e)
    BY DEF Next, vars, relayVars, TypeOK, Append, BackoffElapses, LeaseExpires, Start,
           ClaimStep, ClaimBatch, PublishStep, RouteRefuses, PublishSucceeds,
           PublishFails, Attempt, SettleStep, MarkPublished, RescheduleFailure,
           MarkTerminal, Settled, RequestStop, StopsGracefully, Crash
  <1> QED
    BY <1>1, <1>2, <1>3

-----------------------------------------------------------------------------
(* The rows. *)

\* What one settling step does to the rows: r ends its own claim or nothing.
LEMMA SettleRows ==
  ASSUME NEW r \in Relays, TypeOK, LoopShape, SettleStep(r)
  PROVE  /\ pc[r] = "settle" /\ current[r] \in Events /\ Settled(r)
         /\ attempts' = attempts
         /\ \A e \in Events : ~(e = current[r] /\ Owns(r, e)) =>
              status'[e] = status[e] /\ owner'[e] = owner[e] /\ ripe'[e] = ripe[e]
         /\ Owns(r, current[r]) =>
              /\ owner'[current[r]] = NoOwner
              /\ ripe'[current[r]] = FALSE
              /\ \/ status'[current[r]] = "PENDING" /\ outcome[r] = "transportError"
                 \/ status'[current[r]] = "PUBLISHED" /\ outcome[r] = "accepted"
                 \/ /\ status'[current[r]] = "FAILED"
                    /\ \/ current[r] \in Unroutable
                       \/ outcome[r] = "transportError" /\ LastAttempt(r)
  <1>1. /\ pc[r] = "settle" /\ current[r] \in Events /\ Settled(r)
        /\ \E s \in {"PENDING", "PUBLISHED", "FAILED"} :
             /\ EndClaim(r, current[r], s)
             /\ s = "PENDING" => outcome[r] = "transportError"
             /\ s = "PUBLISHED" => outcome[r] = "accepted"
             /\ s = "FAILED" => \/ current[r] \in Unroutable
                                \/ outcome[r] = "transportError" /\ LastAttempt(r)
    BY DEF SettleStep, MarkPublished, RescheduleFailure, MarkTerminal, LoopShape
  <1>2. CASE Owns(r, current[r])
    BY <1>1, <1>2 DEF EndClaim, TypeOK
  <1>3. CASE ~Owns(r, current[r])
    BY <1>1, <1>3 DEF EndClaim, rowVars
  <1> QED
    BY <1>2, <1>3

\* A settling relay touches no row but the one it owns and works on.
LEMMA SettleOthers ==
  ASSUME NEW r \in Relays, NEW e \in Events, TypeOK, LoopShape, SettleStep(r),
         ~(e = current[r] /\ Owns(r, e))
  PROVE  status'[e] = status[e] /\ owner'[e] = owner[e]
  BY SettleRows

LEMMA InstanceIsNotNull == \A r \in Relays : InstanceOf[r] # NoOwner
  BY InstanceAssumption

LEMMA StateShapeNext == TypeOK /\ LoopShape /\ StateShapeCheck /\ [Next]_vars => StateShapeCheck'
  <1> SUFFICES ASSUME TypeOK, LoopShape, StateShapeCheck, [Next]_vars, NEW x \in Events
               PROVE  status'[x] = "PUBLISHING" <=> owner'[x] # NoOwner
    BY DEF StateShapeCheck
  <1>0. status[x] = "PUBLISHING" <=> owner[x] # NoOwner
    BY DEF StateShapeCheck
  <1>1. CASE UNCHANGED <<status, owner>>
    BY <1>0, <1>1
  <1>2. ASSUME NEW e \in Events, Append(e)
        PROVE  status'[x] = "PUBLISHING" <=> owner'[x] # NoOwner
    BY <1>0, <1>2 DEF Append, TypeOK
  <1>3. ASSUME NEW r \in Relays, NEW batch \in SUBSET Events, ClaimBatch(r, batch)
        PROVE  status'[x] = "PUBLISHING" <=> owner'[x] # NoOwner
    BY <1>0, <1>3, InstanceIsNotNull DEF ClaimBatch
  <1>4. ASSUME NEW r \in Relays, SettleStep(r)
        PROVE  status'[x] = "PUBLISHING" <=> owner'[x] # NoOwner
    <2>1. CASE x = current[r] /\ Owns(r, x)
      BY <1>4, <2>1, SettleRows
    <2>2. CASE ~(x = current[r] /\ Owns(r, x))
      BY <1>0, <1>4, <2>2, SettleRows
    <2> QED
      BY <2>1, <2>2
  <1> QED
    BY <1>1, <1>2, <1>3, <1>4
    DEF Next, vars, rowVars, BackoffElapses, LeaseExpires, Start, ClaimStep, PublishStep,
        RouteRefuses, PublishSucceeds, PublishFails, Attempt, RequestStop, StopsGracefully, Crash

LEMMA PublishedNext ==
  /\ TypeOK /\ LoopShape /\ AcceptedIsQueued /\ PublishedIsQueued /\ [Next]_vars
  => PublishedIsQueued'
  <1> SUFFICES ASSUME TypeOK, LoopShape, AcceptedIsQueued, PublishedIsQueued, [Next]_vars,
                      NEW e \in Events, status'[e] = "PUBLISHED"
               PROVE  Queued(e)'
    BY DEF PublishedIsQueued
  <1>1. Queued(e)
    <2>1. CASE status[e] = "PUBLISHED"
      BY <2>1 DEF PublishedIsQueued
    <2>2. CASE \E r \in Relays : SettleStep(r) /\ current[r] = e /\ outcome[r] = "accepted"
      BY <2>2 DEF AcceptedIsQueued
    <2>3. CASE \E r \in Relays : SettleStep(r)
      <3> PICK r \in Relays : SettleStep(r)
        BY <2>3
      <3>1. status[e] = "PUBLISHED" \/ (current[r] = e /\ outcome[r] = "accepted")
        <4>1. CASE e = current[r] /\ Owns(r, e)
          BY <4>1, SettleRows
        <4>2. CASE ~(e = current[r] /\ Owns(r, e))
          BY <4>2, SettleRows
        <4> QED
          BY <4>1, <4>2
      <3> QED
        BY <2>1, <2>2, <3>1
    <2>4. status'[e] # "PUBLISHED" \/ status[e] = "PUBLISHED" \/ \E r \in Relays : SettleStep(r)
      BY DEF TypeOK, Next, vars, rowVars, Append, BackoffElapses, LeaseExpires, Start,
             ClaimStep, ClaimBatch, PublishStep, RouteRefuses, PublishSucceeds,
             PublishFails, Attempt, RequestStop, StopsGracefully, Crash
    <2> QED
      BY <2>1, <2>3, <2>4
  <1> QED
    BY <1>1, QueuedStays

LEMMA FenceNext ==
  ASSUME DistinctIds
  PROVE  TypeOK /\ LoopShape /\ ClaimIsFenced /\ [Next]_vars => ClaimIsFenced'
  <1> SUFFICES ASSUME TypeOK, LoopShape, ClaimIsFenced, [Next]_vars,
                      NEW s \in Relays, NEW e \in Events, held'[s][e] > 0, Owns(s, e)'
               PROVE  held'[s][e] = attempts'[e]
    BY DEF ClaimIsFenced
  <1> USE DEF ClaimIsFenced
  <1>1. CASE UNCHANGED <<status, owner, attempts, held>>
    BY <1>1 DEF Owns
  <1>2. ASSUME NEW x \in Events, Append(x) PROVE held'[s][e] = attempts'[e]
    BY <1>2 DEF Append, relayVars, Owns, TypeOK
  <1>3. ASSUME NEW r \in Relays, NEW batch \in SUBSET Events, ClaimBatch(r, batch)
        PROVE  held'[s][e] = attempts'[e]
    <2>1. CASE e \in batch
      BY <1>3, <2>1 DEF ClaimBatch, Claimable, Candidates, DistinctIds, Owns, TypeOK
    <2>2. CASE e \notin batch
      BY <1>3, <2>2, InstanceAssumption DEF ClaimBatch, Exhausted, Owns, TypeOK
    <2> QED
      BY <2>1, <2>2
  <1>4. ASSUME NEW r \in Relays, SettleStep(r) PROVE held'[s][e] = attempts'[e]
    <2>0. /\ attempts' = attempts
          /\ current[r] \in Events
          /\ held' = [held EXCEPT ![r][current[r]] = 0]
      BY <1>4, SettleRows DEF Settled
    <2>1. held'[s][e] = held[s][e] /\ attempts'[e] = attempts[e]
      BY <2>0 DEF TypeOK
    <2>2. Owns(s, e)
      <3>1. owner'[e] = InstanceOf[s] /\ status'[e] = "PUBLISHING"
        BY DEF Owns
      <3>2. Owns(r, current[r]) => owner'[current[r]] = NoOwner
        BY <1>4, SettleRows
      <3>3. ~(e = current[r] /\ Owns(r, e))
        BY <3>1, <3>2, InstanceIsNotNull
      <3>4. owner[e] = owner'[e] /\ status[e] = status'[e]
        BY <1>4, <3>3, SettleOthers
      <3> QED
        BY <3>1, <3>4 DEF Owns
    <2> QED
      BY <2>1, <2>2
  <1>5. ASSUME NEW r \in Relays, Crash(r) PROVE held'[s][e] = attempts'[e]
    BY <1>5 DEF Crash, rowVars, Owns, TypeOK
  <1> QED
    BY <1>1, <1>2, <1>3, <1>4, <1>5
    DEF Next, vars, rowVars, relayVars, BackoffElapses, LeaseExpires, Start, ClaimStep,
        PublishStep, RouteRefuses, PublishSucceeds, PublishFails, Attempt, RequestStop,
        StopsGracefully

LEMMA BoundNext == TypeOK /\ LoopShape /\ AttemptsBounded /\ [Next]_vars => AttemptsBounded'
  <1> SUFFICES ASSUME TypeOK, LoopShape, AttemptsBounded, [Next]_vars, NEW e \in Events
               PROVE  attempts'[e] <= MaxPublishAttempts
    BY DEF AttemptsBounded
  <1>1. CASE attempts' = attempts
    BY <1>1 DEF AttemptsBounded
  <1>2. ASSUME NEW r \in Relays, NEW batch \in SUBSET Events, ClaimBatch(r, batch)
        PROVE  attempts'[e] <= MaxPublishAttempts
    BY <1>2, LimitsAssumption
    DEF ClaimBatch, Claimable, Candidates, Due, TypeOK, AttemptsBounded
  <1> QED
    BY <1>1, <1>2, SettleRows
    DEF Next, vars, rowVars, Append, BackoffElapses, LeaseExpires, Start, ClaimStep,
        PublishStep, RouteRefuses, PublishSucceeds, PublishFails, Attempt, RequestStop,
        StopsGracefully, Crash

-----------------------------------------------------------------------------
(* The accounting of attempts. *)

\* A step that leaves the row alone and takes away no holder keeps the account of e.
LEMMA ChargedFrame ==
  ASSUME NEW e \in Events, TypeOK, TypeOK', Charged(e), UNCHANGED faults,
         status'[e] = status[e], attempts'[e] = attempts[e], ripe'[e] => ripe[e],
         HeldByOwner(e) => HeldByOwner(e)', FailureInHand(e)' => FailureInHand(e)
  PROVE  Charged(e)'
  BY DEF Charged, TypeOK

\* A fault pays for an attempt in progress.
LEMMA ChargedByFault ==
  ASSUME NEW e \in Events, TypeOK, TypeOK', Charged(e), faults' = faults + 1,
         status'[e] = status[e], attempts'[e] = attempts[e]
  PROVE  Charged(e)'
  BY DEF Charged, TypeOK

LEMMA ChargedNext ==
  ASSUME DistinctIds, TypeOK, TypeOK', LoopShape, StateShapeCheck, ClaimIsFenced,
         AttemptsAreCharged, [Next]_vars
  PROVE  AttemptsAreCharged'
  <1> SUFFICES ASSUME NEW e \in Events PROVE Charged(e)'
    BY DEF AttemptsAreCharged
  <1>0. Charged(e)
    BY DEF AttemptsAreCharged
  <1>1. ASSUME NEW x \in Events, Append(x) PROVE Charged(e)'
    <2>1. CASE x = e
      BY <1>0, <1>1, <2>1 DEF Append, Charged, TypeOK
    <2>2. CASE x # e
      <3>1. /\ status'[e] = status[e] /\ ripe'[e] = ripe[e]
            /\ UNCHANGED <<owner, attempts, relayVars, faults>>
        BY <1>1, <2>2 DEF Append, TypeOK
      <3> QED
        BY <1>0, <3>1, ChargedFrame DEF relayVars, HeldByOwner, FailureInHand, Owns
    <2> QED
      BY <2>1, <2>2
  <1>2. ASSUME NEW x \in Events, BackoffElapses(x) PROVE Charged(e)'
    <2>1. CASE x = e
      BY <1>0, <1>2, <2>1 DEF BackoffElapses, Charged, TypeOK
    <2>2. CASE x # e
      <3>1. /\ status'[e] = status[e] /\ ripe'[e] = ripe[e]
            /\ UNCHANGED <<owner, attempts, relayVars, faults>>
        BY <1>2, <2>2 DEF BackoffElapses, TypeOK
      <3> QED
        BY <1>0, <3>1, ChargedFrame DEF relayVars, HeldByOwner, FailureInHand, Owns
    <2> QED
      BY <2>1, <2>2
  <1>3. ASSUME NEW x \in Events, LeaseExpires(x) PROVE Charged(e)'
    <2>1. CASE HeldByOwner(x)
      BY <1>0, <1>3, <2>1, ChargedByFault DEF LeaseExpires, Fault
    <2>2. CASE ~HeldByOwner(x) /\ x = e
      BY <1>0, <1>3, <2>2 DEF LeaseExpires, Charged, TypeOK
    <2>3. CASE ~HeldByOwner(x) /\ x # e
      <3>1. /\ status'[e] = status[e] /\ ripe'[e] = ripe[e]
            /\ UNCHANGED <<owner, attempts, relayVars, faults>>
        BY <1>3, <2>3 DEF LeaseExpires, TypeOK
      <3> QED
        BY <1>0, <3>1, ChargedFrame DEF relayVars, HeldByOwner, FailureInHand, Owns
    <2> QED
      BY <2>1, <2>2, <2>3
  <1>4. ASSUME NEW r \in Relays, Start(r) \/ RequestStop(r) \/ StopsGracefully(r)
        PROVE  Charged(e)'
    BY <1>0, <1>4, ChargedFrame
    DEF Start, RequestStop, StopsGracefully, rowVars, HeldByOwner, FailureInHand, Owns
  <1>5. ASSUME NEW r \in Relays, NEW batch \in SUBSET Events, ClaimBatch(r, batch)
        PROVE  Charged(e)'
    <2>1. CASE e \in batch
      <3>1. attempts[e] <= faults /\ e \notin Exhausted
        <4>1. e \in Due /\ attempts[e] < MaxPublishAttempts
          BY <1>5, <2>1 DEF ClaimBatch, Claimable, Candidates
        <4> QED
          BY <1>0, <4>1, LimitsAssumption DEF Exhausted, Due, Charged, TypeOK
      <3>2. /\ status'[e] = "PUBLISHING" /\ attempts'[e] = attempts[e] + 1
            /\ ~ripe'[e] /\ owner'[e] = InstanceOf[r] /\ held'[r][e] = attempts[e] + 1
            /\ faults' = faults
        BY <1>5, <2>1, <3>1 DEF ClaimBatch, TypeOK
      <3>3. HeldByOwner(e)'
        BY <3>2 DEF HeldByOwner, TypeOK
      <3>4. ~FailureInHand(e)'
        BY <1>5, <3>2 DEF FailureInHand, Owns, DistinctIds, LoopShape, ClaimBatch
      <3> QED
        BY <3>1, <3>2, <3>3, <3>4 DEF Charged, TypeOK
    <2>2. CASE e \in Exhausted
      BY <1>5, <2>2 DEF ClaimBatch, Charged
    <2>3. CASE e \notin batch \cup Exhausted
      <3>1. /\ status'[e] = status[e] /\ attempts'[e] = attempts[e] /\ ripe'[e] = ripe[e]
            /\ owner'[e] = owner[e] /\ faults' = faults
        BY <1>5, <2>3 DEF ClaimBatch, TypeOK
      <3>2. HeldByOwner(e) => HeldByOwner(e)'
        BY <1>5, <3>1 DEF HeldByOwner, ClaimBatch, LoopShape, TypeOK
      <3>3. FailureInHand(e)' => FailureInHand(e)
        BY <1>5, <3>1 DEF FailureInHand, Owns, ClaimBatch, TypeOK
      <3> QED
        BY <1>0, <3>1, <3>2, <3>3, ChargedFrame
    <2> QED
      BY <2>1, <2>2, <2>3
  <1>6. ASSUME NEW r \in Relays, NEW x \in Events, RouteRefuses(r, x) \/ PublishSucceeds(r, x)
        PROVE  Charged(e)'
    <2>1. UNCHANGED <<rowVars, held, faults>>
      BY <1>6 DEF RouteRefuses, PublishSucceeds, Attempt
    <2>2. FailureInHand(e)' => FailureInHand(e)
      BY <1>6, <2>1
      DEF RouteRefuses, PublishSucceeds, Attempt, FailureInHand, Owns, rowVars, TypeOK
    <2> QED
      BY <1>0, <2>1, <2>2, ChargedFrame DEF rowVars, HeldByOwner
  <1>7. ASSUME NEW r \in Relays, NEW x \in Events, PublishFails(r, x) PROVE Charged(e)'
    BY <1>0, <1>7, ChargedByFault DEF PublishFails, Attempt, Fault, rowVars
  <1>8. ASSUME NEW r \in Relays, SettleStep(r) PROVE Charged(e)'
    <2>1. /\ current[r] \in Events /\ attempts' = attempts /\ faults' = faults
          /\ held' = [held EXCEPT ![r][current[r]] = 0]
          /\ current' = [current EXCEPT ![r] = NoEvent]
          /\ outcome' = [outcome EXCEPT ![r] = "none"]
      BY <1>8, SettleRows DEF Settled
    <2>2. CASE e = current[r] /\ Owns(r, e)
      <3>1. CASE status'[e] = "PENDING"
        <4>1. FailureInHand(e)
          BY <1>8, <2>2, <3>1, SettleRows DEF FailureInHand
        <4> QED
          BY <1>0, <2>1, <2>2, <3>1, <4>1 DEF Charged, Owns
      <3>2. CASE status'[e] # "PENDING"
        BY <1>8, <2>2, <3>2, SettleRows DEF Charged
      <3> QED
        BY <3>1, <3>2
    <2>3. CASE ~(e = current[r] /\ Owns(r, e))
      <3>1. /\ status'[e] = status[e] /\ owner'[e] = owner[e] /\ ripe'[e] = ripe[e]
        BY <1>8, <2>3, SettleRows
      <3>2. CASE status[e] = "PUBLISHING"
        <4>1. HeldByOwner(e) => HeldByOwner(e)'
          BY <2>1, <2>3, <3>1, <3>2 DEF HeldByOwner, Owns, TypeOK
        <4>2. FailureInHand(e)' => FailureInHand(e)
          BY <2>1, <3>1 DEF FailureInHand, Owns, TypeOK
        <4> QED
          BY <1>0, <2>1, <3>1, <4>1, <4>2, ChargedFrame
      <3>3. CASE status[e] # "PUBLISHING"
        BY <1>0, <2>1, <3>1, <3>3 DEF Charged
      <3> QED
        BY <3>2, <3>3
    <2> QED
      BY <2>2, <2>3
  <1>9. ASSUME NEW r \in Relays, Crash(r) PROVE Charged(e)'
    BY <1>0, <1>9, ChargedByFault DEF Crash, Fault, rowVars
  <1>10. CASE UNCHANGED vars
    BY <1>0, <1>10 DEF vars, rowVars, relayVars, Charged, HeldByOwner, FailureInHand, Owns
  <1> QED
    BY <1>1, <1>2, <1>3, <1>4, <1>5, <1>6, <1>7, <1>8, <1>9, <1>10
    DEF Next, ClaimStep, PublishStep

LEMMA GivenUpNext ==
  ASSUME TypeOK, TypeOK', LoopShape, ClaimIsFenced, AttemptsAreCharged,
         GivenUpOnlyAfterFaults, [Next]_vars
  PROVE  GivenUpOnlyAfterFaults'
  <1> SUFFICES ASSUME NEW e \in Events \ Unroutable, status'[e] = "FAILED"
               PROVE  faults' >= MaxPublishAttempts
    BY DEF GivenUpOnlyAfterFaults
  <1>0. faults' >= faults
    BY DEF TypeOK, Next, vars, Append, BackoffElapses, LeaseExpires, Fault, Start,
           ClaimStep, ClaimBatch, PublishStep, RouteRefuses, PublishSucceeds, PublishFails,
           SettleStep, MarkPublished, RescheduleFailure, MarkTerminal, Settled,
           RequestStop, StopsGracefully, Crash
  <1>1. CASE status[e] = "FAILED"
    BY <1>0, <1>1, LimitsAssumption DEF GivenUpOnlyAfterFaults, TypeOK
  <1>2. ASSUME NEW r \in Relays, NEW batch \in SUBSET Events, ClaimBatch(r, batch),
               status[e] # "FAILED"
        PROVE  faults' >= MaxPublishAttempts
    <2>1. e \in Exhausted
      BY <1>2 DEF ClaimBatch, TypeOK
    <2> QED
      BY <1>0, <2>1, LimitsAssumption DEF Exhausted, Due, AttemptsAreCharged, Charged, TypeOK
  <1>3. ASSUME NEW r \in Relays, SettleStep(r), status[e] # "FAILED"
        PROVE  faults' >= MaxPublishAttempts
    <2>0. e = current[r] /\ Owns(r, e)
      BY <1>3, SettleOthers
    <2>1. /\ e = current[r] /\ Owns(r, e)
          /\ outcome[r] = "transportError" /\ LastAttempt(r)
      <3>1. \/ status'[current[r]] \in {"PENDING", "PUBLISHED"}
            \/ current[r] \in Unroutable
            \/ outcome[r] = "transportError" /\ LastAttempt(r)
        BY <1>3, <2>0, SettleRows
      <3> QED
        BY <2>0, <3>1
    <2>2. held[r][e] = attempts[e]
      BY <1>3, <2>1, SettleRows DEF ClaimIsFenced, LoopShape
    <2>3. attempts[e] <= faults
      BY <2>1 DEF AttemptsAreCharged, Charged, FailureInHand, Owns
    <2> QED
      BY <1>0, <2>1, <2>2, <2>3, LimitsAssumption DEF LastAttempt, TypeOK
  <1>4. \/ status[e] = "FAILED"
        \/ \E r \in Relays : SettleStep(r) \/ ClaimStep(r)
    BY DEF TypeOK, Next, vars, rowVars, Append, BackoffElapses, LeaseExpires, Start,
           PublishStep, RouteRefuses, PublishSucceeds, PublishFails, Attempt,
           RequestStop, StopsGracefully, Crash
  <1> QED
    BY <1>1, <1>2, <1>3, <1>4 DEF ClaimStep

-----------------------------------------------------------------------------
(* The invariants. *)

LEMMA DeliveryInvariant == Spec => []DeliveryInv
  <1>1. Init => DeliveryInv
    BY TypeInit, LimitsAssumption
    DEF Init, DeliveryInv, LoopShape, JobIdsAreCanonical, AcceptedIsQueued,
        PublishedIsQueued, StateShapeCheck, AttemptsBounded
  <1>2. DeliveryInv /\ [Next]_vars => DeliveryInv'
    BY TypeNext, LoopShapeNext, JobIdsNext, AcceptedNext, PublishedNext, StateShapeNext,
       BoundNext
    DEF DeliveryInv
  <1> QED
    BY <1>1, <1>2, PTL DEF Spec

LEMMA FencedInvariant == ASSUME DistinctIds PROVE Spec => []FencedInv
  <1>1. Init => FencedInv
    BY LimitsAssumption
    DEF Init, FencedInv, ClaimIsFenced, AttemptsAreCharged, Charged, GivenUpOnlyAfterFaults
  <1>2. DeliveryInv /\ DeliveryInv' /\ FencedInv /\ [Next]_vars => FencedInv'
    BY FenceNext, ChargedNext, GivenUpNext DEF DeliveryInv, FencedInv
  <1> QED
    BY <1>1, <1>2, DeliveryInvariant, PTL DEF Spec

\* Every variable of the relay model keeps its type.
THEOREM TypeCorrect == Spec => []TypeOK
  BY DeliveryInvariant, PTL DEF DeliveryInv

\* No row is PUBLISHED before its job is in the queue, for any number of
\* relays, even relays that share an instance id.
THEOREM PublishedIsQueuedAlways == Spec => []PublishedIsQueued
  BY DeliveryInvariant, PTL DEF DeliveryInv

\* The row shape the database CHECK demands is what the relay's UPDATEs leave.
THEOREM StateShapeAlways == Spec => []StateShapeCheck
  BY DeliveryInvariant, PTL DEF DeliveryInv

\* The retry counter stays within OUTBOX_RELAY_MAX_PUBLISH_ATTEMPTS.
THEOREM AttemptsStayBounded == Spec => []AttemptsBounded
  BY DeliveryInvariant, PTL DEF DeliveryInv

\* The queue holds at most one job per event.
THEOREM OneJobPerEventAlways == Spec => []OneJobPerEvent
  <1>1. DeliveryInv => OneJobPerEvent
    BY DEF DeliveryInv, TypeOK, JobIdsAreCanonical, OneJobPerEvent, Jobs
  <1> QED
    BY <1>1, DeliveryInvariant, PTL

\* With distinct instance ids a guarded UPDATE only settles the attempt its
\* relay claimed: comparing claim_owner is as good as a fencing token.
THEOREM OwnerGuardFencesClaims == ASSUME DistinctIds PROVE Spec => []ClaimIsFenced
  BY FencedInvariant, PTL DEF FencedInv

\* A routable event ends FAILED only after at least MaxPublishAttempts
\* crashes, transport errors or late batches.
THEOREM GivenUpOnlyAfterFaultsAlways ==
  ASSUME DistinctIds PROVE Spec => []GivenUpOnlyAfterFaults
  BY FencedInvariant, PTL DEF FencedInv

\* A PUBLISHING row nobody works on is the trace of a fault.
THEOREM OrphansComeFromFaults ==
  ASSUME DistinctIds PROVE Spec => []OrphanedClaimsComeFromFaults
  <1>1. DeliveryInv /\ FencedInv => OrphanedClaimsComeFromFaults
    BY DEF DeliveryInv, FencedInv, TypeOK, AttemptsAreCharged, Charged,
           OrphanedClaimsComeFromFaults
  <1> QED
    BY <1>1, DeliveryInvariant, FencedInvariant, PTL

-----------------------------------------------------------------------------
(* Decisions are final, and the relay implements OutboxDelivery. *)

\* What a step does to the status of a row.
LEMMA StatusStep ==
  ASSUME DeliveryInv, [Next]_vars
  PROVE  \/ \A e \in Events : Verdict(status'[e]) = Verdict(status[e])
         \/ \E e \in Events : /\ status[e] = "PUBLISHING" /\ Queued(e)
                             /\ status'[e] = "PUBLISHED" /\ UNCHANGED queue
                             /\ \A x \in Events \ {e} : status'[x] = status[x]
         \/ \E gone \in SUBSET Events :
              /\ UNCHANGED queue
              /\ \A e \in gone : status[e] \notin Terminal /\ status'[e] = "FAILED"
              /\ \A e \in Events \ gone : Verdict(status'[e]) = Verdict(status[e])
  <1>1. CASE UNCHANGED status
    BY <1>1
  <1>2. ASSUME NEW e \in Events, Append(e)
        PROVE  \A x \in Events : Verdict(status'[x]) = Verdict(status[x])
    BY <1>2 DEF Append, Verdict, DeliveryInv, TypeOK
  <1>3. ASSUME NEW r \in Relays, NEW batch \in SUBSET Events, ClaimBatch(r, batch)
        PROVE  /\ UNCHANGED queue
               /\ \A e \in Exhausted : status[e] \notin Terminal /\ status'[e] = "FAILED"
               /\ \A e \in Events \ Exhausted : Verdict(status'[e]) = Verdict(status[e])
    <2>1. \A e \in batch : status[e] \in {"PENDING", "PUBLISHING"}
      BY <1>3 DEF ClaimBatch, Claimable, Candidates, Due
    <2> QED
      BY <1>3, <2>1 DEF ClaimBatch, Exhausted, Due, Terminal, Verdict
  <1>4. ASSUME NEW r \in Relays, SettleStep(r), Owns(r, current[r])
        PROVE  \/ \A e \in Events : Verdict(status'[e]) = Verdict(status[e])
               \/ /\ status[current[r]] = "PUBLISHING" /\ Queued(current[r])
                  /\ status'[current[r]] = "PUBLISHED" /\ UNCHANGED queue
                  /\ \A x \in Events \ {current[r]} : status'[x] = status[x]
               \/ /\ UNCHANGED queue
                  /\ status[current[r]] \notin Terminal /\ status'[current[r]] = "FAILED"
                  /\ \A e \in Events \ {current[r]} : status'[e] = status[e]
    <2>0. TypeOK /\ LoopShape
      BY DEF DeliveryInv
    <2>1. /\ current[r] \in Events /\ UNCHANGED queue
          /\ status[current[r]] = "PUBLISHING"
          /\ \A e \in Events \ {current[r]} : status'[e] = status[e]
      <3>1. current[r] \in Events /\ Settled(r)
        BY <1>4, <2>0, SettleRows
      <3>2. \A e \in Events \ {current[r]} : status'[e] = status[e]
        BY <1>4, <2>0, SettleOthers
      <3> QED
        BY <1>4, <3>1, <3>2 DEF Settled, Owns
    <2>2. \/ status'[current[r]] = "PENDING"
          \/ status'[current[r]] = "PUBLISHED" /\ Queued(current[r])
          \/ status'[current[r]] = "FAILED"
      BY <1>4, SettleRows DEF DeliveryInv, AcceptedIsQueued
    <2> QED
      BY <2>1, <2>2 DEF Verdict, Terminal
  <1>5. ASSUME NEW r \in Relays, SettleStep(r), ~Owns(r, current[r])
        PROVE  \A e \in Events : Verdict(status'[e]) = Verdict(status[e])
    <2> SUFFICES ASSUME NEW e \in Events PROVE status'[e] = status[e]
      OBVIOUS
    <2>1. TypeOK /\ LoopShape
      BY DEF DeliveryInv
    <2> QED
      BY <1>5, <2>1, SettleOthers
  <1>6. ASSUME NEW r \in Relays, SettleStep(r) PROVE current[r] \in Events
    BY <1>6, SettleRows DEF DeliveryInv
  <1>7. \/ UNCHANGED status
        \/ \E e \in Events : Append(e)
        \/ \E r \in Relays, batch \in SUBSET Events : ClaimBatch(r, batch)
        \/ \E r \in Relays : SettleStep(r)
    BY DEF Next, vars, rowVars, BackoffElapses, LeaseExpires, Start, ClaimStep,
           PublishStep, RouteRefuses, PublishSucceeds, PublishFails, Attempt,
           RequestStop, StopsGracefully, Crash
  <1>8. CASE \E r \in Relays, batch \in SUBSET Events : ClaimBatch(r, batch)
    <2>1. Exhausted \in SUBSET Events
      BY DEF Exhausted, Due
    <2> QED
      BY <1>3, <1>8, <2>1
  <1>9. CASE \E r \in Relays : SettleStep(r)
    <2> PICK r \in Relays : SettleStep(r)
      BY <1>9
    <2>1. CASE Owns(r, current[r])
      <3>1. {current[r]} \in SUBSET Events
        BY <1>6
      <3>2. CASE \A e \in Events : Verdict(status'[e]) = Verdict(status[e])
        BY <3>2
      <3>3. CASE /\ status[current[r]] = "PUBLISHING" /\ Queued(current[r])
                 /\ status'[current[r]] = "PUBLISHED" /\ UNCHANGED queue
                 /\ \A x \in Events \ {current[r]} : status'[x] = status[x]
        BY <1>6, <3>3
      <3>4. CASE /\ UNCHANGED queue
                 /\ status[current[r]] \notin Terminal /\ status'[current[r]] = "FAILED"
                 /\ \A e \in Events \ {current[r]} : status'[e] = status[e]
        <4>1. \A e \in Events \ {current[r]} : Verdict(status'[e]) = Verdict(status[e])
          BY <3>4
        <4>2. \A e \in {current[r]} : status[e] \notin Terminal /\ status'[e] = "FAILED"
          BY <3>4
        <4> QED
          BY <3>1, <3>4, <4>1, <4>2
      <3> QED
        BY <1>4, <2>1, <3>2, <3>3, <3>4
    <2>2. CASE ~Owns(r, current[r])
      BY <1>5, <2>2
    <2> QED
      BY <2>1, <2>2
  <1> QED
    BY <1>1, <1>2, <1>7, <1>8, <1>9

\* No step of any relay, stale or not, changes a PUBLISHED or FAILED row.
THEOREM SettledForGood == Spec => TerminalIsFinal
  <1>1. ASSUME DeliveryInv, [Next]_vars, NEW e \in Events, status[e] \in Terminal
        PROVE  status'[e] = status[e]
    <2>1. Verdict(status'[e]) = Verdict(status[e])
      BY <1>1, StatusStep DEF Terminal
    <2> QED
      BY <1>1, <2>1 DEF Verdict, Terminal
  <1>2. DeliveryInv /\ [Next]_vars
          => [\A e \in Events : status[e] \in Terminal => status'[e] = status[e]]_vars
    BY <1>1
  <1> QED
    BY <1>2, DeliveryInvariant, PTL DEF Spec, TerminalIsFinal

\* Every behaviour of the relays, crashes and lost claims included, is one
\* the abstract at-least-once delivery contract allows.
THEOREM RelayImplementsDelivery == Spec => ImplementsDelivery
  <1>1. Init => Delivery!AbstractInit
    BY DEF Init, Delivery!AbstractInit, Queued, Verdict
  <1>2. DeliveryInv /\ [Next]_vars => [Delivery!AbstractNext]_(Delivery!abstractVars)
    <2> SUFFICES ASSUME DeliveryInv, [Next]_vars
                 PROVE  [Delivery!AbstractNext]_(Delivery!abstractVars)
      OBVIOUS
    <2> DEFINE verdict == [e \in Events |-> Verdict(status[e])]
               handedOver == {e \in Events : Queued(e)}
    <2>1. UNCHANGED queue \/ \E e \in Events : AddJob(e) /\ UNCHANGED status
      BY DEF Next, vars, rowVars, relayVars, Append, BackoffElapses, LeaseExpires, Start,
             ClaimStep, ClaimBatch, PublishStep, RouteRefuses, PublishSucceeds,
             PublishFails, Attempt, SettleStep, MarkPublished, RescheduleFailure,
             MarkTerminal, Settled, RequestStop, StopsGracefully, Crash
    <2>2. UNCHANGED queue => UNCHANGED handedOver
      BY DEF Queued
    <2>3. CASE \E e \in Events : AddJob(e) /\ UNCHANGED status
      <3> PICK e \in Events : AddJob(e) /\ UNCHANGED status
        BY <2>3
      <3>1. Queued(e)'
        BY AddJobQueues DEF DeliveryInv, TypeOK
      <3>2. \A x \in Events \ {e} : Queued(x)' <=> Queued(x)
        BY DEF AddJob, Queued
      <3>3. handedOver' = handedOver \cup {e}
        BY <3>1, <3>2
      <3>4. verdict' = verdict
        OBVIOUS
      <3> QED
        BY <3>3, <3>4 DEF Delivery!AbstractNext, Delivery!HandOver
    <2>4. CASE UNCHANGED queue /\ \A e \in Events : Verdict(status'[e]) = Verdict(status[e])
      <3>1. verdict' = verdict
        BY <2>4
      <3> QED
        BY <2>2, <2>4, <3>1 DEF Delivery!abstractVars
    <2>5. ASSUME NEW e \in Events, status[e] = "PUBLISHING", Queued(e),
                 status'[e] = "PUBLISHED", UNCHANGED queue,
                 \A x \in Events \ {e} : status'[x] = status[x]
          PROVE  Delivery!AbstractNext
      <3>1. verdict[e] = "undecided" /\ e \in handedOver
        BY <2>5 DEF Verdict
      <3>2. verdict' = [verdict EXCEPT ![e] = "published"]
        BY <2>5 DEF Verdict
      <3> QED
        BY <2>2, <2>5, <3>1, <3>2 DEF Delivery!AbstractNext, Delivery!DecidePublished
    <2>6. ASSUME NEW gone \in SUBSET Events, UNCHANGED queue,
                 \A e \in gone : status[e] \notin Terminal /\ status'[e] = "FAILED",
                 \A e \in Events \ gone : Verdict(status'[e]) = Verdict(status[e])
          PROVE  Delivery!AbstractNext
      <3>1. \A e \in gone : verdict[e] = "undecided"
        BY <2>6 DEF Verdict, Terminal
      <3>2. verdict' = [e \in Events |-> IF e \in gone THEN "failed" ELSE verdict[e]]
        BY <2>6 DEF Verdict
      <3> QED
        BY <2>2, <2>6, <3>1, <3>2 DEF Delivery!AbstractNext, Delivery!GiveUp
    <2> QED
      BY <2>1, <2>3, <2>4, <2>5, <2>6, StatusStep
  <1> QED
    BY <1>1, <1>2, DeliveryInvariant, PTL
    DEF Spec, ImplementsDelivery, Delivery!AbstractSpec
=============================================================================
