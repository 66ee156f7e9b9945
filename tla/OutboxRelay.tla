----------------------------- MODULE OutboxRelay -----------------------------
(***************************************************************************)
(* The transactional outbox and its relay processes:                       *)
(*   backend/src/async/outbox/outbox-relay.repository.ts (the SQL),        *)
(*   backend/src/async/outbox/outbox-relay.runner.ts     (the loop),       *)
(*   backend/src/async/transport/bullmq-publisher.service.ts (the queue),  *)
(*   backend/src/async/relay.main.ts (start, SIGTERM, fatal errors).       *)
(*                                                                         *)
(* A relay claims a batch in one short transaction, publishes the events   *)
(* of the batch one after the other, and records each result with an       *)
(* UPDATE guarded by status and claim_owner.  Between two of these steps   *)
(* any other relay may run, the lease of any event may expire, and the     *)
(* process may die.                                                        *)
(*                                                                         *)
(* Clocks are abstracted to one flag per row, ripe: CURRENT_TIMESTAMP has  *)
(* reached available_at (PENDING) or claim_expires_at (PUBLISHING).        *)
(***************************************************************************)
EXTENDS Naturals, FiniteSets

CONSTANTS
  Events,              \* identities of outbox_events rows
  Unroutable,          \* the events EventRouterService.route refuses
  Relays,              \* relay processes
  Instances,           \* values of OUTBOX_RELAY_INSTANCE_ID
  InstanceOf,          \* the instance id each process is configured with
  BatchSize,           \* OUTBOX_RELAY_BATCH_SIZE
  MaxPublishAttempts,  \* OUTBOX_RELAY_MAX_PUBLISH_ATTEMPTS
  MaxFaults,           \* bound: faults the environment injects in a behaviour
  NoOwner,             \* claim_owner IS NULL
  NoEvent              \* the relay is not working on an event

ASSUME EventsAssumption == Unroutable \subseteq Events /\ NoEvent \notin Events
ASSUME InstanceAssumption ==
  InstanceOf \in [Relays -> Instances] /\ NoOwner \notin Instances
ASSUME LimitsAssumption ==
  /\ BatchSize \in Nat \ {0}
  /\ MaxPublishAttempts \in Nat \ {0}
  /\ MaxFaults \in Nat

VARIABLES
  status,    \* outbox_events.status, "ABSENT" before the row is committed
  owner,     \* outbox_events.claim_owner
  attempts,  \* outbox_events.attempts
  ripe,      \* see above
  queue,     \* the jobs BullMQ holds
  pc,        \* where each relay is in OutboxRelayRunner.run
  held,      \* events of its batch not yet settled: the attempts claimBatch
             \* returned for the event, 0 when the event is not in the batch
  current,   \* the event publishClaimedEvent is working on
  outcome,   \* what routing and publishing it came to
  stopping,  \* stopRequested
  faults     \* faults injected so far

rowVars   == <<status, owner, attempts, ripe>>
relayVars == <<pc, held, current, outcome, stopping>>
vars      == <<rowVars, queue, relayVars, faults>>

Statuses == {"ABSENT", "PENDING", "PUBLISHING", "PUBLISHED", "FAILED"}
Terminal == {"PUBLISHED", "FAILED"}
Outcomes == {"none", "accepted", "transportError", "contractError"}

\* Mutant: the job id is made per publication instead of per event.
TransportJobIdPerAttempt(e) == <<"PROCESS_DOCUMENT_VERSION", 1, e, attempts[e]>>

\* The deterministic job identity {jobName}~v{contractVersion}~{eventId}.
TransportJobId(e) == <<"PROCESS_DOCUMENT_VERSION", 1, e>>
Jobs == [id : {TransportJobId(e) : e \in Events}, event : Events]

Queued(e) == \E job \in queue : job.event = e

Init ==
  /\ status = [e \in Events |-> "ABSENT"]
  /\ owner = [e \in Events |-> NoOwner]
  /\ attempts = [e \in Events |-> 0]
  /\ ripe = [e \in Events |-> FALSE]
  /\ queue = {}
  /\ pc = [r \in Relays |-> "down"]
  /\ held = [r \in Relays |-> [e \in Events |-> 0]]
  /\ current = [r \in Relays |-> NoEvent]
  /\ outcome = [r \in Relays |-> "none"]
  /\ stopping = [r \in Relays |-> FALSE]
  /\ faults = 0

-----------------------------------------------------------------------------
(* The producers' side and the clock. *)

\* OutboxService.append commits a PENDING row, available at once.
Append(e) ==
  /\ status[e] = "ABSENT"
  /\ status' = [status EXCEPT ![e] = "PENDING"]
  /\ ripe' = [ripe EXCEPT ![e] = TRUE]
  /\ UNCHANGED <<owner, attempts, queue, relayVars, faults>>

Fault == faults < MaxFaults /\ faults' = faults + 1

BackoffElapses(e) ==
  /\ status[e] = "PENDING" /\ ~ripe[e]
  /\ ripe' = [ripe EXCEPT ![e] = TRUE]
  /\ UNCHANGED <<status, owner, attempts, queue, relayVars, faults>>

HeldByOwner(e) == \E r \in Relays : owner[e] = InstanceOf[r] /\ held[r][e] > 0

\* The lease of a claim runs out.  That is a fault (a batch slower than
\* OUTBOX_RELAY_CLAIM_LEASE_MS) while the claiming process still works on the
\* batch, and the recovery the lease is for when the process has died.
LeaseExpires(e) ==
  /\ status[e] = "PUBLISHING" /\ ~ripe[e]
  /\ ripe' = [ripe EXCEPT ![e] = TRUE]
  /\ IF HeldByOwner(e) THEN Fault ELSE UNCHANGED faults
  /\ UNCHANGED <<status, owner, attempts, queue, relayVars>>

-----------------------------------------------------------------------------
(* OutboxRelayRepository *)

\* Mutant: a claim can be taken over before its lease has expired.
DueIgnoringLease ==
  {e \in Events : status[e] = "PUBLISHING" \/ (status[e] = "PENDING" /\ ripe[e])}

\* Mutant: expired claims are never taken over.
DuePendingOnly == {e \in Events : status[e] = "PENDING" /\ ripe[e]}

Due == {e \in Events : status[e] \in {"PENDING", "PUBLISHING"} /\ ripe[e]}
Exhausted == {e \in Due : attempts[e] >= MaxPublishAttempts}

Candidates == {e \in Due : attempts[e] < MaxPublishAttempts}

\* FOR UPDATE SKIP LOCKED: candidates another transaction has locked at the
\* moment are passed over, so any part of them within LIMIT may be taken.
Claimable == {batch \in SUBSET Candidates : Cardinality(batch) <= BatchSize}

\* Mutant: the WHERE clause of the guarded UPDATEs drops claim_owner.
OwnsAnyClaim(r, e) == status[e] = "PUBLISHING"

Owns(r, e) == status[e] = "PUBLISHING" /\ owner[e] = InstanceOf[r]

\* claimBatch with the given result.
ClaimBatch(r, batch) ==
  /\ pc[r] = "poll" /\ ~stopping[r]
  /\ batch \in Claimable
  /\ status' = [e \in Events |-> IF e \in Exhausted THEN "FAILED"
                                 ELSE IF e \in batch THEN "PUBLISHING"
                                 ELSE status[e]]
  /\ owner' = [e \in Events |-> IF e \in Exhausted THEN NoOwner
                                ELSE IF e \in batch THEN InstanceOf[r]
                                ELSE owner[e]]
  /\ attempts' = [e \in Events |-> IF e \in batch THEN attempts[e] + 1 ELSE attempts[e]]
  /\ ripe' = [e \in Events |-> ripe[e] /\ e \notin Exhausted \cup batch]
  /\ held' = [held EXCEPT ![r] = [e \in Events |-> IF e \in batch THEN attempts[e] + 1 ELSE 0]]
  /\ pc' = [pc EXCEPT ![r] = IF batch = {} THEN "poll" ELSE "batch"]
  /\ UNCHANGED <<queue, current, outcome, stopping, faults>>

\* A guarded UPDATE that ends r's claim on e: a row r no longer owns is not
\* touched, and the caller only logs the lost claim.
EndClaim(r, e, newStatus) ==
  IF Owns(r, e)
  THEN /\ status' = [status EXCEPT ![e] = newStatus]
       /\ owner' = [owner EXCEPT ![e] = NoOwner]
       /\ ripe' = [ripe EXCEPT ![e] = FALSE]
       /\ UNCHANGED attempts
  ELSE UNCHANGED rowVars

-----------------------------------------------------------------------------
(* OutboxRelayRunner *)

\* relay.main: bootstrap; the supervisor restarts a process that has ended.
Start(r) ==
  /\ pc[r] = "down"
  /\ pc' = [pc EXCEPT ![r] = "poll"]
  /\ stopping' = [stopping EXCEPT ![r] = FALSE]
  /\ UNCHANGED <<rowVars, queue, held, current, outcome, faults>>

\* The next event of the batch (RETURNING gives no order), and what became
\* of it.
Attempt(r, e, result) ==
  /\ pc[r] = "batch" /\ held[r][e] > 0
  /\ pc' = [pc EXCEPT ![r] = "settle"]
  /\ current' = [current EXCEPT ![r] = e]
  /\ outcome' = [outcome EXCEPT ![r] = result]
  /\ UNCHANGED <<rowVars, held, stopping>>

RouteRefuses(r, e) ==
  /\ e \in Unroutable
  /\ Attempt(r, e, "contractError")
  /\ UNCHANGED <<queue, faults>>

\* queue.add with a custom jobId: BullMQ ignores an id it already holds.
AddJob(e) ==
  queue' = IF \E job \in queue : job.id = TransportJobId(e) THEN queue
           ELSE queue \cup {[id |-> TransportJobId(e), event |-> e]}

PublishSucceeds(r, e) ==
  /\ e \notin Unroutable
  /\ Attempt(r, e, "accepted")
  /\ AddJob(e)
  /\ UNCHANGED faults

\* queue.add rejects: Redis never saw the command, or only its answer was lost.
PublishFails(r, e) ==
  /\ e \notin Unroutable
  /\ Attempt(r, e, "transportError")
  /\ AddJob(e) \/ UNCHANGED queue
  /\ Fault

\* The event is settled; the loop goes on with the rest of the batch.
Settled(r) ==
  /\ held' = [held EXCEPT ![r][current[r]] = 0]
  /\ current' = [current EXCEPT ![r] = NoEvent]
  /\ outcome' = [outcome EXCEPT ![r] = "none"]
  /\ pc' = [pc EXCEPT ![r] = IF \E e \in Events \ {current[r]} : held[r][e] > 0
                             THEN "batch" ELSE "poll"]
  /\ UNCHANGED <<queue, stopping, faults>>

\* Mutant: the row is marked published in a finally block.
MarkPublishedAlways(r) ==
  /\ pc[r] = "settle" /\ outcome[r] \in {"accepted", "transportError"}
  /\ EndClaim(r, current[r], "PUBLISHED")
  /\ Settled(r)

MarkPublished(r) ==
  /\ pc[r] = "settle" /\ outcome[r] = "accepted"
  /\ EndClaim(r, current[r], "PUBLISHED")
  /\ Settled(r)

LastAttempt(r) == held[r][current[r]] >= MaxPublishAttempts

RescheduleFailure(r) ==
  /\ pc[r] = "settle" /\ outcome[r] = "transportError" /\ ~LastAttempt(r)
  /\ EndClaim(r, current[r], "PENDING")
  /\ Settled(r)

MarkTerminal(r) ==
  /\ pc[r] = "settle"
  /\ \/ outcome[r] = "contractError"
     \/ outcome[r] = "transportError" /\ LastAttempt(r)
  /\ EndClaim(r, current[r], "FAILED")
  /\ Settled(r)

\* SIGTERM or SIGINT: the batch in hand is finished before run() returns.
RequestStop(r) ==
  /\ pc[r] # "down" /\ ~stopping[r]
  /\ stopping' = [stopping EXCEPT ![r] = TRUE]
  /\ UNCHANGED <<rowVars, queue, pc, held, current, outcome, faults>>

\* Mutant: a stop request breaks out of the batch loop.
StopsInMidBatch(r) ==
  /\ pc[r] \in {"poll", "batch"} /\ stopping[r]
  /\ pc' = [pc EXCEPT ![r] = "down"]
  /\ held' = [held EXCEPT ![r] = [e \in Events |-> 0]]
  /\ UNCHANGED <<rowVars, queue, current, outcome, stopping, faults>>

StopsGracefully(r) ==
  /\ pc[r] = "poll" /\ stopping[r]
  /\ pc' = [pc EXCEPT ![r] = "down"]
  /\ UNCHANGED <<rowVars, queue, held, current, outcome, stopping, faults>>

\* The process is killed, or a database error escapes runOnce and ends it.
Crash(r) ==
  /\ pc[r] # "down"
  /\ pc' = [pc EXCEPT ![r] = "down"]
  /\ held' = [held EXCEPT ![r] = [e \in Events |-> 0]]
  /\ current' = [current EXCEPT ![r] = NoEvent]
  /\ outcome' = [outcome EXCEPT ![r] = "none"]
  /\ Fault
  /\ UNCHANGED <<rowVars, queue, stopping>>

PublishStep(r) ==
  \E e \in Events : RouteRefuses(r, e) \/ PublishSucceeds(r, e) \/ PublishFails(r, e)
SettleStep(r) == MarkPublished(r) \/ RescheduleFailure(r) \/ MarkTerminal(r)
ClaimStep(r) == \E batch \in SUBSET Events : ClaimBatch(r, batch)

Next ==
  \/ \E e \in Events : Append(e) \/ BackoffElapses(e) \/ LeaseExpires(e)
  \/ \E r \in Relays :
        \/ Start(r) \/ ClaimStep(r) \/ PublishStep(r) \/ SettleStep(r)
        \/ RequestStop(r) \/ StopsGracefully(r) \/ Crash(r)

Spec == Init /\ [][Next]_vars

\* A poll of r that takes e, or gives it up.
ClaimReaches(r, e) ==
  \E batch \in SUBSET Events : e \in batch \cup Exhausted /\ ClaimBatch(r, batch)

(***************************************************************************)
(* Fairness.  A process that is up goes on with its batch, clocks advance, *)
(* the supervisor restarts an ended process, and a stopping process stops. *)
(* A claim is only strongly fair: claimBatch orders candidates by          *)
(* available_at, so an event waits for the finitely many older ones, but   *)
(* another relay may hold the row, or every relay may be busy, in between. *)
(***************************************************************************)
Fairness ==
  /\ \A r \in Relays : /\ WF_vars(Start(r))
                       /\ WF_vars(PublishStep(r))
                       /\ WF_vars(SettleStep(r))
                       /\ WF_vars(StopsGracefully(r))
  /\ \A e \in Events : /\ WF_vars(BackoffElapses(e))
                       /\ WF_vars(LeaseExpires(e))
                       /\ SF_vars(\E r \in Relays : ClaimReaches(r, e))

FairSpec == Spec /\ Fairness

-----------------------------------------------------------------------------
(* Properties *)

\* Every variable has its type.
TypeOK ==
  /\ status \in [Events -> Statuses]
  /\ owner \in [Events -> Instances \cup {NoOwner}]
  /\ attempts \in [Events -> Nat]
  /\ ripe \in [Events -> BOOLEAN]
  /\ queue \subseteq Jobs
  /\ pc \in [Relays -> {"down", "poll", "batch", "settle"}]
  /\ held \in [Relays -> [Events -> Nat]]
  /\ current \in [Relays -> Events \cup {NoEvent}]
  /\ outcome \in [Relays -> Outcomes]
  /\ stopping \in [Relays -> BOOLEAN]
  /\ faults \in Nat

\* A row marked PUBLISHED has its job in the queue: no interleaving of
\* expired leases, stale relays and crashes marks an event nobody published.
PublishedIsQueued == \A e \in Events : status[e] = "PUBLISHED" => Queued(e)

\* However often and by however many relays an event is published, the
\* deterministic job id leaves at most one job for it in the queue.
OneJobPerEvent ==
  \A job1, job2 \in queue : job1.event = job2.event => job1 = job2

\* The claim fence: whenever the guarded UPDATE of a relay would take effect,
\* the attempt it settles is the attempt the row counts.  The code compares
\* claim_owner only; that this fences claims needs distinct instance ids.
ClaimIsFenced ==
  \A r \in Relays, e \in Events :
    held[r][e] > 0 /\ Owns(r, e) => held[r][e] = attempts[e]

\* A routable event is given up only after MaxPublishAttempts faults really
\* happened: ordinary concurrency of relays never burns an attempt.
GivenUpOnlyAfterFaults ==
  \A e \in Events \ Unroutable :
    status[e] = "FAILED" => faults >= MaxPublishAttempts

\* The retry counter never passes OUTBOX_RELAY_MAX_PUBLISH_ATTEMPTS.
AttemptsBounded == \A e \in Events : attempts[e] <= MaxPublishAttempts

\* Until the first fault every claim has a process that works on it: graceful
\* stops and lost claims alone never leave a row PUBLISHING behind.
OrphanedClaimsComeFromFaults ==
  (\E e \in Events : status[e] = "PUBLISHING" /\ ~HeldByOwner(e)) => faults > 0

\* The CHECK constraint outbox_events_state_shape_check never rejects an
\* UPDATE of the relay: a row has an owner exactly while it is PUBLISHING.
StateShapeCheck == \A e \in Events : status[e] = "PUBLISHING" <=> owner[e] # NoOwner

\* A settled event stays settled, whatever a relay with a stale batch does.
TerminalIsFinal ==
  [][\A e \in Events : status[e] \in Terminal => status'[e] = status[e]]_vars

\* Every appended event is eventually PUBLISHED or FAILED, whichever relay crashes
\* or loses its lease. With GivenUpOnlyAfterFaults: a routable event is published
\* unless MaxPublishAttempts faults happen.
EventuallySettled ==
  \A e \in Events : status[e] = "PENDING" ~> status[e] \in Terminal

-----------------------------------------------------------------------------
(* Refinement: the relay implements the delivery contract. *)

Verdict(s) == CASE s = "PUBLISHED" -> "published"
                [] s = "FAILED" -> "failed"
                [] OTHER -> "undecided"

Delivery == INSTANCE OutboxDelivery WITH
  verdict <- [e \in Events |-> Verdict(status[e])],
  handedOver <- {e \in Events : Queued(e)}

\* Every behaviour of the relays is one the abstract outbox allows.
ImplementsDelivery == Delivery!AbstractSpec
=============================================================================
