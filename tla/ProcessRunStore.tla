-------------------------- MODULE ProcessRunStore --------------------------
(***************************************************************************)
(* The PostgreSQL store of process runs: the tables process_runs,          *)
(* process_run_attempts, process_events, outbox_messages (topic            *)
(* "process-runs") and the webhook_deliveries rows a completion inserts.   *)
(* Every action below is one committed transaction of the store, except    *)
(* `accept`, whose transaction is three actions because it reads a count   *)
(* and inserts later: its advisory lock is what keeps the two together.    *)
(*                                                                         *)
(* Who calls the store, and when, is left open here (any caller, any       *)
(* token, any order); ProcessRunSystem adds the workers, the queue, the    *)
(* outbox relay and the reconciler, which use these actions.               *)
(*                                                                         *)
(* Abstractions.  A random claim token is named by the attempt number it   *)
(* was drawn for (tokens are fresh UUIDs, so two tokens of a run are equal *)
(* exactly when they belong to the same attempt); likewise an outbox claim *)
(* token is named by the message's publish_attempt_count.  Timestamps are  *)
(* reduced to the one comparison each row waits for: aged[r] says that the *)
(* lease of a running run is over, that a queued run was last updated      *)
(* longer than the recovery age ago, that a finished run is past all its   *)
(* retention deadlines.                                                    *)
(***************************************************************************)
EXTENDS Integers, Sequences, FiniteSets

CONSTANTS
  RunId,          \* run ids (random UUIDs: one is never used twice)
  Api,            \* database sessions that run `accept`
  Caller, Key, Fingerprint,
  Requests,       \* the submissions considered: [caller, key, fingerprint]
  NoRequest,      \* "no row": not a submission
  Nobody,         \* "the admission lock is free": not a member of Api
  Admission,      \* is the store configured with backlog limits?
  Endpoint,       \* webhook endpoints
  EndpointOwner,  \* the caller each endpoint belongs to
  CallerLimit, GlobalLimit,   \* backlog limits of PostgresProcessRunAdmission
  AttemptBound,   \* bound: attempts a run may start
  PublishBound    \* bound: times an outbox message may be claimed

ASSUME RequestsAssumption ==
  /\ Requests \subseteq [caller : Caller, key : Key, fingerprint : Fingerprint]
  /\ NoRequest \notin Requests
ASSUME ApiAssumption == Nobody \notin Api
ASSUME EndpointAssumption == EndpointOwner \in [Endpoint -> Caller]
ASSUME LimitAssumption ==
  /\ Admission \in BOOLEAN
  /\ CallerLimit \in Nat \ {0} /\ GlobalLimit \in Nat \ {0}
  /\ CallerLimit <= GlobalLimit
ASSUME BoundAssumption == AttemptBound \in Nat /\ PublishBound \in Nat

Active   == {"queued", "running"}
Terminal == {"succeeded", "failed"}
Outcome  == Terminal

VARIABLES
  request,   \* per run: the submission it was created for
  status,    \* per run: "absent", process_runs.status, or "deleted"
  claim,     \* per run: the claim token, 0 when NULL
  attempts,  \* per run: status of attempt 1, 2, ...; its length is attempt_count
  aged,      \* per run: has the time its row waits for passed?
  events,    \* per run: deduplication keys of its process_events
  outbox,    \* per run: its process-runs outbox message
  deliveries,\* per run: endpoints a webhook delivery was created for
  endpoint,  \* per endpoint: "absent", "enabled" or "disabled"
  intake,    \* per session: where its `accept` transaction stands
  lock,      \* holder of the admission advisory lock
  promised   \* per caller and key: the run and fingerprint last answered
             \* with 202 (what the caller holds; no table stores it)

tables == <<request, status, claim, attempts, aged, events, outbox,
            deliveries, endpoint>>
storeVars == <<tables, intake, lock, promised>>

-----------------------------------------------------------------------------
(* Types *)

AttemptStatus == {"running", "succeeded", "failed", "abandoned"}
EventKey == [type : {"queued"} \cup Outcome, number : Nat]
QueuedEvent(n) == [type |-> "queued", number |-> n]
BrokenFinalEvent(s) == [type |-> "succeeded", number |-> 0]
FinalEvent(s)  == [type |-> s, number |-> 0]

OutboxState == {"none", "pending", "claimed", "overdue", "published"}
Message == [state : OutboxState, token : Nat]
NoMessage == [state |-> "none", token |-> 0]

NoPromise == [run |-> NoRequest, fingerprint |-> NoRequest]
Promise == [run : RunId, fingerprint : Fingerprint] \cup {NoPromise}

IdleIntake == [phase |-> "idle", request |-> NoRequest]
IntakeState == {IdleIntake} \cup [phase : {"locked", "admitted"}, request : Requests]

TypeOK ==
  /\ request \in [RunId -> Requests \cup {NoRequest}]
  /\ status \in [RunId -> {"absent", "deleted"} \cup Active \cup Terminal]
  /\ claim \in [RunId -> Nat]
  /\ attempts \in [RunId -> Seq(AttemptStatus)]
  /\ aged \in [RunId -> BOOLEAN]
  /\ events \in [RunId -> SUBSET EventKey]
  /\ outbox \in [RunId -> Message]
  /\ deliveries \in [RunId -> SUBSET Endpoint]
  /\ endpoint \in [Endpoint -> {"absent", "enabled", "disabled"}]
  /\ intake \in [Api -> IntakeState]
  /\ lock \in Api \cup {Nobody}
  /\ promised \in [Caller -> [Key -> Promise]]

Init ==
  /\ request = [r \in RunId |-> NoRequest]
  /\ status = [r \in RunId |-> "absent"]
  /\ claim = [r \in RunId |-> 0]
  /\ attempts = [r \in RunId |-> <<>>]
  /\ aged = [r \in RunId |-> FALSE]
  /\ events = [r \in RunId |-> {}]
  /\ outbox = [r \in RunId |-> NoMessage]
  /\ deliveries = [r \in RunId |-> {}]
  /\ endpoint = [e \in Endpoint |-> "absent"]
  /\ intake = [a \in Api |-> IdleIntake]
  /\ lock = Nobody
  /\ promised = [c \in Caller |-> [k \in Key |-> NoPromise]]

-----------------------------------------------------------------------------
(* accept: admission and idempotency *)

\* The operators named Broken... each state a plausible mistake in the operator
\* that follows; no specification uses them.  They show which property would
\* notice the mistake.
Present(r) == status[r] \in Active \cup Terminal
Backlog == {r \in RunId : status[r] \in Active}
CallerBacklog(c) == {r \in Backlog : request[r].caller = c}

\* The row UNIQUE (caller_id, idempotency_key) lets exist for this submission.
BrokenRunOf(q) == {r \in RunId : Present(r) /\ request[r] = q}
RunOf(q) == {r \in RunId : /\ Present(r)
                           /\ request[r].caller = q.caller
                           /\ request[r].key = q.key}

BrokenLockFree == TRUE
LockFree == lock = Nobody

\* BEGIN; SELECT pg_advisory_xact_lock(...): one admission at a time.
BeginAccept(a, q) ==
  /\ Admission
  /\ intake[a].phase = "idle"
  /\ LockFree
  /\ lock' = a
  /\ intake' = [intake EXCEPT ![a] = [phase |-> "locked", request |-> q]]
  /\ UNCHANGED <<tables, promised>>

\* A store without admission goes straight to its INSERT.
BeginUnlimitedAccept(a, q) ==
  /\ ~Admission
  /\ intake[a].phase = "idle"
  /\ intake' = [intake EXCEPT ![a] = [phase |-> "admitted", request |-> q]]
  /\ UNCHANGED <<tables, lock, promised>>

\* COMMIT or ROLLBACK: the session is idle and its advisory lock free again.
EndAccept(a) ==
  /\ intake' = [intake EXCEPT ![a] = IdleIntake]
  /\ lock' = IF lock = a THEN Nobody ELSE lock

BrokenSameRequest(r, q) == TRUE
SameRequest(r, q) == request[r].fingerprint = q.fingerprint

\* The outcome for a key that already has run r: the run, or a conflict.
AnswerExisting(r, q) ==
  promised' = IF SameRequest(r, q)
              THEN [promised EXCEPT ![q.caller][q.key] =
                      [run |-> r, fingerprint |-> q.fingerprint]]
              ELSE promised

BacklogFull(c) ==
  \/ Cardinality(CallerBacklog(c)) >= CallerLimit
  \/ Cardinality(Backlog) >= GlobalLimit

\* findIdempotentRun, then the two counts: replay and conflict come first.
AnswerKnownKey(a) ==
  /\ intake[a].phase = "locked"
  /\ \E r \in RunOf(intake[a].request) : AnswerExisting(r, intake[a].request)
  /\ EndAccept(a)
  /\ UNCHANGED tables

RejectBacklog(a) ==
  /\ intake[a].phase = "locked"
  /\ RunOf(intake[a].request) = {}
  /\ BacklogFull(intake[a].request.caller)
  /\ EndAccept(a)
  /\ UNCHANGED <<tables, promised>>

Admit(a) ==
  /\ intake[a].phase = "locked"
  /\ RunOf(intake[a].request) = {}
  /\ ~BacklogFull(intake[a].request.caller)
  /\ intake' = [intake EXCEPT ![a].phase = "admitted"]
  /\ UNCHANGED <<tables, lock, promised>>

BrokenKeyIsFree(q) == TRUE
KeyIsFree(q) == RunOf(q) = {}

\* INSERT ... ON CONFLICT (caller_id, idempotency_key) DO NOTHING, the queued
\* event and the outbox message, COMMIT.
InsertRun(a, r) ==
  LET q == intake[a].request IN
  /\ intake[a].phase = "admitted"
  /\ status[r] = "absent"
  /\ KeyIsFree(q)
  /\ request' = [request EXCEPT ![r] = q]
  /\ status' = [status EXCEPT ![r] = "queued"]
  /\ aged' = [aged EXCEPT ![r] = FALSE]
  /\ events' = [events EXCEPT ![r] = {QueuedEvent(0)}]
  /\ outbox' = [outbox EXCEPT ![r] = [state |-> "pending", token |-> 0]]
  /\ promised' = [promised EXCEPT ![q.caller][q.key] =
                    [run |-> r, fingerprint |-> q.fingerprint]]
  /\ EndAccept(a)
  /\ UNCHANGED <<claim, attempts, deliveries, endpoint>>

\* DO NOTHING was taken: answer with the row that is there.
InsertConflict(a) ==
  /\ intake[a].phase = "admitted"
  /\ \E r \in RunOf(intake[a].request) : AnswerExisting(r, intake[a].request)
  /\ EndAccept(a)
  /\ UNCHANGED tables

\* The connection is lost or a statement fails: ROLLBACK.
AbortAccept(a) ==
  /\ intake[a].phase # "idle"
  /\ EndAccept(a)
  /\ UNCHANGED <<tables, promised>>

-----------------------------------------------------------------------------
(* claim, complete, scheduleRetry, releaseClaim *)

BrokenClaimable(r) == Present(r)
Claimable(r) ==
  \/ status[r] = "queued"
  \/ status[r] = "running" /\ aged[r]

\* UPDATE process_run_attempts ... WHERE attempt_number = attempt_count AND
\* claim_token = ... AND status = 'running' changes one row; if it does not,
\* the code throws and the transaction rolls back.
AttemptIsCurrent(r) ==
  /\ claim[r] = Len(attempts[r])
  /\ claim[r] > 0
  /\ attempts[r][claim[r]] = "running"

BrokenEndAttempt(r, s) == attempts[r]
BrokenAttemptStatus(r, s) == [attempts[r] EXCEPT ![claim[r]] = "queued"]
EndAttempt(r, s) == [attempts[r] EXCEPT ![claim[r]] = s]

Claim(r) ==
  /\ Claimable(r)
  /\ status[r] = "running" => AttemptIsCurrent(r)
  /\ Len(attempts[r]) < AttemptBound
  /\ LET ended == IF status[r] = "running" THEN EndAttempt(r, "abandoned")
                                           ELSE attempts[r]
     IN  attempts' = [attempts EXCEPT ![r] = Append(ended, "running")]
  /\ claim' = [claim EXCEPT ![r] = Len(attempts[r]) + 1]
  /\ status' = [status EXCEPT ![r] = "running"]
  /\ aged' = [aged EXCEPT ![r] = FALSE]
  /\ UNCHANGED <<request, events, outbox, deliveries, endpoint,
                 intake, lock, promised>>

\* WHERE status = 'running' AND claim_token = $2: the fence.
BrokenHoldsClaim(r, t) == status[r] = "running"
HoldsClaim(r, t) == status[r] = "running" /\ claim[r] = t

\* The endpoints a completion of run r notifies.
BrokenSubscribers(r) == {e \in Endpoint : endpoint[e] = "enabled"}
Subscribers(r) == {e \in Endpoint : /\ endpoint[e] = "enabled"
                                    /\ EndpointOwner[e] = request[r].caller}

Complete(r, t, outcome) ==
  /\ HoldsClaim(r, t)
  /\ AttemptIsCurrent(r)
  /\ FinalEvent(outcome) \notin events[r]
  /\ status' = [status EXCEPT ![r] = outcome]
  /\ claim' = [claim EXCEPT ![r] = 0]
  /\ aged' = [aged EXCEPT ![r] = FALSE]
  /\ attempts' = [attempts EXCEPT ![r] = EndAttempt(r, outcome)]
  /\ events' = [events EXCEPT ![r] = @ \cup {FinalEvent(outcome)}]
  /\ deliveries' = [deliveries EXCEPT ![r] = Subscribers(r)]
  /\ UNCHANGED <<request, outbox, endpoint, intake, lock, promised>>

\* Back to 'queued' with the claim cleared; attempt_count stays.
Requeue(r, t, attemptStatus) ==
  /\ HoldsClaim(r, t)
  /\ AttemptIsCurrent(r)
  /\ status' = [status EXCEPT ![r] = "queued"]
  /\ claim' = [claim EXCEPT ![r] = 0]
  /\ aged' = [aged EXCEPT ![r] = FALSE]
  /\ attempts' = [attempts EXCEPT ![r] = EndAttempt(r, attemptStatus)]
  /\ UNCHANGED <<request, outbox, deliveries, endpoint, intake, lock, promised>>

BrokenRetryEvent(r) == QueuedEvent(Len(attempts[r]) + 1)
RetryEvent(r) == QueuedEvent(Len(attempts[r]))

ScheduleRetry(r, t) ==
  /\ Requeue(r, t, "failed")
  /\ RetryEvent(r) \notin events[r]
  /\ events' = [events EXCEPT ![r] = @ \cup {RetryEvent(r)}]

ReleaseClaim(r, t) ==
  /\ Requeue(r, t, "abandoned")
  /\ UNCHANGED events

-----------------------------------------------------------------------------
(* The process-runs outbox *)

BrokenOutboxClaimable(r) ==
  Present(r) /\ outbox[r].state = "pending" /\ outbox[r].token < PublishBound
OutboxClaimable(r) ==
  /\ Present(r)
  /\ outbox[r].state \in {"pending", "overdue"}
  /\ outbox[r].token < PublishBound

\* claimProcessWork: one claim takes a whole batch of messages.
ClaimOutbox(batch) ==
  /\ \A r \in batch : OutboxClaimable(r)
  /\ outbox' = [r \in RunId |->
                  IF r \in batch
                  THEN [state |-> "claimed", token |-> outbox[r].token + 1]
                  ELSE outbox[r]]
  /\ UNCHANGED <<request, status, claim, attempts, aged, events, deliveries,
                 endpoint, intake, lock, promised>>

OwnsMessage(r, n) == outbox[r].state \in {"claimed", "overdue"} /\ outbox[r].token = n

SetMessage(r, s) ==
  /\ outbox' = [outbox EXCEPT ![r].state = s]
  /\ UNCHANGED <<request, status, claim, attempts, aged, events, deliveries,
                 endpoint, intake, lock, promised>>

MarkPublished(r, n) == OwnsMessage(r, n) /\ SetMessage(r, "published")
ReleaseMessage(r, n) == OwnsMessage(r, n) /\ SetMessage(r, "pending")

\* acknowledgePendingOutbox: unpublished and not under a live claim.
Acknowledgeable(r) == Present(r) /\ outbox[r].state \in {"pending", "overdue"}
AcknowledgeOutbox(r) == Acknowledgeable(r) /\ SetMessage(r, "published")

\* claim_expires_at of a claimed message passes.
OutboxLeaseExpires(r) == outbox[r].state = "claimed" /\ SetMessage(r, "overdue")

-----------------------------------------------------------------------------
(* Time, endpoints, retention *)

Age(r) ==
  /\ Present(r) /\ ~aged[r]
  /\ aged' = [aged EXCEPT ![r] = TRUE]
  /\ UNCHANGED <<request, status, claim, attempts, events, outbox, deliveries,
                 endpoint, intake, lock, promised>>

SetEndpoint(e, from, to) ==
  /\ endpoint[e] = from
  /\ endpoint' = [endpoint EXCEPT ![e] = to]
  /\ UNCHANGED <<request, status, claim, attempts, aged, events, outbox,
                 deliveries, intake, lock, promised>>

ProvisionEndpoint(e) == SetEndpoint(e, "absent", "enabled")
DisableEndpoint(e)   == SetEndpoint(e, "enabled", "disabled")

\* Retention deletes an expired run; the foreign keys cascade to everything
\* that hangs on it, the idempotency key included.
BrokenDeletable(r) == Present(r) /\ aged[r]
Deletable(r) == status[r] \in Terminal /\ aged[r]

DeleteRun(r) ==
  /\ Deletable(r)
  /\ status' = [status EXCEPT ![r] = "deleted"]
  /\ request' = [request EXCEPT ![r] = NoRequest]
  /\ claim' = [claim EXCEPT ![r] = 0]
  /\ attempts' = [attempts EXCEPT ![r] = <<>>]
  /\ aged' = [aged EXCEPT ![r] = FALSE]
  /\ events' = [events EXCEPT ![r] = {}]
  /\ outbox' = [outbox EXCEPT ![r] = NoMessage]
  /\ deliveries' = [deliveries EXCEPT ![r] = {}]
  /\ UNCHANGED <<endpoint, intake, lock, promised>>

-----------------------------------------------------------------------------
(* The specification: any caller may call any operation at any time *)

Accept(a) ==
  \/ \E q \in Requests : BeginAccept(a, q) \/ BeginUnlimitedAccept(a, q)
  \/ AnswerKnownKey(a)
  \/ RejectBacklog(a)
  \/ Admit(a)
  \/ \E r \in RunId : InsertRun(a, r)
  \/ InsertConflict(a)
  \/ AbortAccept(a)

Execute(r) ==
  \/ Claim(r)
  \/ \E t \in 1..AttemptBound :
       \/ \E outcome \in Outcome : Complete(r, t, outcome)
       \/ ScheduleRetry(r, t)
       \/ ReleaseClaim(r, t)

Publish(r) ==
  \/ \E n \in 1..PublishBound : MarkPublished(r, n) \/ ReleaseMessage(r, n)
  \/ AcknowledgeOutbox(r)
  \/ OutboxLeaseExpires(r)

Environment ==
  \/ \E batch \in SUBSET RunId : ClaimOutbox(batch)
  \/ \E r \in RunId : Age(r) \/ DeleteRun(r)
  \/ \E e \in Endpoint : ProvisionEndpoint(e) \/ DisableEndpoint(e)

Next ==
  \/ \E a \in Api : Accept(a)
  \/ \E r \in RunId : Execute(r) \/ Publish(r)
  \/ Environment

Spec == Init /\ [][Next]_storeVars

-----------------------------------------------------------------------------
(* What the store promises *)

\* A run is 'running' exactly while a claim is set, the claim is the newest
\* attempt's, and that attempt alone is running: no interleaving of claims,
\* takeovers, retries and releases makes one of the store's
\* "Attempt is inconsistent" exceptions reachable.
ClaimOwnsRunningAttempt ==
  \A r \in RunId :
    /\ status[r] = "running" <=> claim[r] # 0
    /\ status[r] = "running" => AttemptIsCurrent(r)
    /\ \A n \in 1..Len(attempts[r]) : attempts[r][n] = "running" => n = claim[r]

\* The result a caller reads is that of the last attempt, and every earlier
\* attempt failed or was abandoned: no run succeeds twice, and none is
\* executed again after it succeeded.
OutcomeIsLastAttempts ==
  \A r \in RunId :
    /\ status[r] \in Terminal =>
         Len(attempts[r]) > 0 /\ attempts[r][Len(attempts[r])] = status[r]
    /\ \A n \in 1..Len(attempts[r]) :
         n < Len(attempts[r]) \/ status[r] = "queued" =>
           attempts[r][n] \in {"failed", "abandoned"}

\* Attempts whose failure sent the run back to the queue.
RetriedAttempts(r) ==
  {n \in 1..Len(attempts[r]) : /\ attempts[r][n] = "failed"
                              /\ ~(status[r] = "failed" /\ n = Len(attempts[r]))}

\* The event log tells the same history as the attempts: one queued event for
\* the submission and one per retried attempt, and the outcome's event exactly
\* when the run has that outcome (state and event are written together, and
\* the unique deduplication_key never rejects an event the code writes).
EventsMatchHistory ==
  \A r \in RunId : Present(r) =>
    events[r] = {QueuedEvent(0)}
                \cup {QueuedEvent(n) : n \in RetriedAttempts(r)}
                \cup (IF status[r] \in Terminal THEN {FinalEvent(status[r])} ELSE {})

\* An idempotency key has at most one run.
OneRunPerKey ==
  \A r, s \in RunId :
    /\ Present(r) /\ Present(s)
    /\ request[r].caller = request[s].caller /\ request[r].key = request[s].key
    => r = s

\* A 202 answer stays true: the run it named exists for that very submission
\* until retention deletes it, and until then the key is never answered with
\* another run or another request's fingerprint.
PromiseKept ==
  \A c \in Caller, k \in Key :
    LET p == promised[c][k] IN
    \/ p = NoPromise
    \/ status[p.run] = "deleted"
    \/ /\ Present(p.run)
       /\ request[p.run] = [caller |-> c, key |-> k, fingerprint |-> p.fingerprint]

\* Admission control: concurrent submissions, each counting before it inserts,
\* never push the unfinished runs over the limits.
BacklogBounded ==
  Admission => /\ Cardinality(Backlog) <= GlobalLimit
               /\ \A c \in Caller : Cardinality(CallerBacklog(c)) <= CallerLimit

\* A webhook delivery exists only for a finished run, for an endpoint of the
\* run's own caller.
DeliveriesFollowOutcome ==
  \A r \in RunId : \A e \in deliveries[r] :
    /\ status[r] \in Terminal
    /\ EndpointOwner[e] = request[r].caller
    /\ endpoint[e] # "absent"

\* The status of a run, its claim, its attempts and its events tell one story.
HistoryConsistent ==
  TypeOK /\ ClaimOwnsRunningAttempt /\ OutcomeIsLastAttempts /\ EventsMatchHistory

\* A finished run and everything recorded about it never change again, except
\* that retention deletes it; and only a finished run is ever deleted.  A
\* worker whose lease was taken over cannot overwrite a newer result.
FinishedIsFinal ==
  [][\A r \in RunId :
       /\ status[r] \in Terminal =>
            \/ status'[r] = "deleted"
            \/ /\ status'[r] = status[r] /\ request'[r] = request[r]
               /\ attempts'[r] = attempts[r] /\ events'[r] = events[r]
               /\ deliveries'[r] = deliveries[r]
       /\ status[r] \in Active => status'[r] \in Active \cup Terminal]_storeVars

\* The caller's view of the store (RunLifecycle).
Lifecycle == INSTANCE RunLifecycle WITH
  Submission <- Caller \X Key,
  phase  <- status,
  notice <- [r \in RunId |-> {e.type : e \in events[r]} \cap Outcome],
  owner  <- [ck \in Caller \X Key |->
               {r \in RunId : /\ Present(r)
                              /\ request[r].caller = ck[1]
                              /\ request[r].key = ck[2]}]

\* Every step of the store is a step of the promised lifecycle or invisible.
ImplementsLifecycle == Lifecycle!Spec
=============================================================================
