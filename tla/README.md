# pipipi: a TLA+ verification of the asynchronous run service

pipipi is a TypeScript service that executes "Business Processes" (pipelines of
model calls) for callers of an HTTP API.  A submission is accepted at once and
becomes a *process run*; workers execute it later, and webhooks announce its
outcome.  Agent conversations are answered the same way, turn by turn.
PostgreSQL is the only truth; BullMQ queues in Redis are a disposable way to
wake somebody up.  This directory holds TLA+ models of that machinery and of
the services, clients and tools around it, the TLC configurations that check
them, and TLAPS proofs.

    RunLifecycle <-- refinement -- ProcessRunStore <-- EXTENDS -- ProcessRunSystem
     (promise)                        (tables)        (queue, workers, relay, reconciler)

    AgentConversationStore <-- EXTENDS -- AgentTurnSystem    (workers, tool ledger)
          (tables)         <-- EXTENDS -- AgentTurnDelivery  (queue, relay, reconciler)
                           <-- EXTENDS -- ConversationPages  (a reading caller)
    AgentService   (the same service in one process, in memory)

    WebhookDelivery (rows, queue, workers, relay)   WebhookEndpoints (secrets, URLs, retries)

    ProcessRunApi <-- EXTENDS -- ConsoleClient, ReleaseSmoke --> ProcessRunClients
    RunObservation, QueueRecovery, RetentionSweep --> RunOperations   ReleaseReadiness
    RuntimeRoles <-- EXTENDS -- AvailabilityMonitor
    ImageService   ComposedTask   TemplateProduction   EmojiPlanning
    EmojiImageRoutes   ObjectUpload

    ...Proofs: theorems about a module or a group    MC...: the instances for TLC

## 1. Inventory

The components of the repository, what each keeps, what it does, what makes it
hard.  Paths are relative to `src/src/` unless they start with `migrations/`,
`docs/` or `console/`.

| Component | State | Operations | What is hard about it |
|---|---|---|---|
| Run store: `process-runs/store` | tables `process_runs`, `process_run_attempts`, `process_events`, `outbox_messages` | `accept`, `claim`, `complete`, `scheduleRetry`, `releaseClaim`, reads | concurrent submissions of one key; counting and inserting; leases without renewal, fenced by a claim token; four tables that must agree |
| Run outbox: `process-runs/outbox` | claim, lease, `published_at` of a message | `claimProcessWork`, `markPublished`, `release`; the relay `dispatchOnce` | a crash between enqueue and mark; two relays; a lease that ends while its holder goes on |
| Queue: `process-runs/queue` | BullMQ job per run (job id = run id) | `enqueue`, `inspectJobs`, the BullMQ worker, `close` | `enqueue` looks first and acts later; stalled jobs; loss of Redis |
| Worker: `process-runs/worker` | claims of the attempts in progress | `process`, `releaseActive` | takeover while the old attempt still runs; lost replies; forced shutdown |
| Reconciler and recovery command: `process-runs/recovery` | audit rows, a cursor | `reconcileOnce`, `recover` | works on a snapshot of rows and an older snapshot of jobs; pages that work moves across; repairs in Redis recorded in PostgreSQL |
| Dispatcher process: `process-runs/dispatcher.ts` | two timers | relay loop, reconciliation loop | the loops interleave with each other and with workers |
| Retention: `process-runs/retention`, `agent-conversations/retention*` | deadlines in the rows, a continuation, audit rows | `cleanupBatch`, sweeps | deletes what others still refer to; sweeps cut short |
| Run service: `process-runs/index.ts` | none | `submit`, `find`, `result` | the answer given to a repeated key |
| Webhook store: `webhooks/store` | `webhook_endpoints`, `webhook_deliveries`, `webhook_delivery_attempts`, audit rows | provision, update, rotate, disable, `claim`, `complete`, `reschedule`, `replay` | attempts and delivery row must agree; replay numbers; a claim nobody takes over; secrets that rotate under a claimed delivery |
| Webhook worker and queue: `webhooks/delivery`, `webhooks/queue`, `webhooks/runtime.ts` | BullMQ job per delivery | `process`, `send`, `enqueue`, shutdown | an answer that says nothing about what was received; a retry that is a new message for the same job id; DNS between check and connection |
| Webhook outbox: `webhooks/outbox` | as the run outbox | claim, mark, release | as the run outbox |
| Conversation store: `agent-conversations/store.postgres.ts`, `retention.postgres.ts` | `agent_conversations`, `_turns`, `_operations`, `agent_turn_attempts`, `agent_turn_outbox` (migrations 010-013) | `accept`, `acceptTurn`, `find`, `deleteOwned`, `claim`, `completeClaim`, `releaseClaim`, `cleanupBatch` | three locks of one transaction; expiry carried out by whoever notices; closing five tables under a running worker |
| Conversation service: `agent-conversations/index.ts`, `app/local-agent.ts` | the in-memory store, a queue, a drain loop | `start`, `continue`, `find`, `delete` | a drain that falls asleep as a turn arrives; keys repeated while the queue closes; images to release |
| Tool ledger: `agent-conversations/tools.postgres.ts` | `agent_tool_invocations`, records of the attempt in memory | prepare, start, finish | a process that costs money must not run twice although its attempt does |
| Turn worker: `agent-conversations/worker.ts`, `queue.bullmq.ts` | active claims | `process`, `releaseActive`, `close` | overlapping attempts of a turn; an attempt knows only its own calls |
| Turn relay and recovery: `agent-conversations/dispatcher.ts`, `recovery.ts` | outbox claims, BullMQ jobs | as the run dispatcher and reconciler | as there, but nobody except the reconciler wakes a released turn |
| Process runtime: `process-runtime` | none | one attempt with time limit and abort signal | three ways to end race each other |
| Run observation: `run-observation`, `app/run-observation.ts` | observation rows and files, buffers | append, finish, prune, query | best effort beside the truth; several writers of one timeline |
| Roles: `app`, `bin` | connections, timers, HTTP server | start, readiness, periodic passes, shutdown | signals and failures during start and stop; resources closed under work |
| Availability: `availability` | none | probe, aggregate, notify | a check that outlives its time limit |
| Image services: `business-api`, `processes/*/capability.http.ts` | record files, promises in memory, production files, receipts | `transform`, productions, image routes, uploads | money is spent between two writes; repeated keys; restarts |
| Composed task: `processes/composed` | a ledger of steps in memory | plan, step, finish | budget checked before a step and counted after it; time limit against result |
| Emoji planning: `processes/character-emoji` | one conversation with a model | search, candidate, correction | an order of calls the model chooses |
| Console client: `console/process-run-client.ts` | a record in the tab's storage | submit, recover, poll, dismiss | reloads and late answers |
| Release gate: `release`, `process-runs/ops` | evidence files, audit rows | smokes, readiness of a stage | evidence that must be what happened; a gate that infers a whole recovery from audit rows |
| Agent runtime, other processes, prompts | none | calls of language models | content, not protocol |

How they interact: an API session calls the run store's `accept`, which writes
the run, its event and an outbox message in one transaction.  The dispatcher's
relay claims messages, adds a BullMQ job and marks the message.  BullMQ hands
the job to a worker, which claims the run with a fresh token and a lease,
executes one attempt, and completes, retries or releases under that token.  A
retry keeps its job and delays it (`moveToDelayed`).  Completion writes the
terminal event, the webhook deliveries and their outbox messages in the same
transaction; the webhook process relays these to a second queue and its worker
posts them.  The reconciler looks for unfinished runs that have not moved for a
while and gives them a job again.  Retention finally deletes a run and, through
foreign keys, all that hangs on it.

Agent conversations have tables, an outbox, a queue and workers of their own,
built the same way.  A caller opens a conversation with its first turn and may
add a turn when the last one is answered.  A worker claims the turn and lets the
agent work; the agent's tools are Business Processes run inside the attempt,
each call passing the ledger before and after.  Paid Business Processes call the
image service, which keeps one record per key.

What makes each modelled component correct:

* **run store**: one run per caller and key; an answer once given stays true;
  the backlog limits hold under concurrency; claim, attempts, events and status
  tell one story; a finished run is final; a notification exists only for an
  outcome and only for the run's own caller.
* **run system**: only the attempt that holds the claim settles the run,
  everybody else is on record as abandoned; no outbox message is confirmed whose
  job was never added; the retry policy bounds retried failures; every accepted
  run finishes and every outbox message is settled, whatever fails once.
* **recovery and retention**: a pass that says it is complete passed over
  nothing; the audit rows tell what was done; an open release gate means every
  waiting run was looked at.
* **webhooks**: one worker posts a delivery at a time; success is recorded only
  if the endpoint accepted; attempts match the row; replays never collide; the
  audit trail accounts for the endpoint; posts can be verified and go to public
  addresses only; retries keep the receiver's and the policy's times.
* **agent conversations**: one unanswered turn while busy and none otherwise,
  a history without branches, limits that hold; closed stays closed; an answer
  never changes; a priced tool is invoked once per call, within the budgets, and
  its cost is never forgotten; a reader of pages misses nothing; every turn is
  answered or closed.
* **paid services**: one charge for a key whatever is repeated, joined or
  restarted; nothing bought that was not approved; those answers and codes that
  say something of money say it truly (which they are is part of each property;
  several codes say nothing); an address handed out keeps its bytes.
* **observation, roles, clients**: a timeline is visible with its record and
  agrees with the run; a connection outlives the work that uses it, and
  shutdown ends; a console tab forgets no run it has paid for; evidence and
  availability are what was seen.

`PROJECT.json` lists the hazards behind these properties line by line.

## 2. The modules

### ProcessRunStore, the tables of process runs

`process-runs/store/postgres.ts`, `outbox/postgres.ts`, the store half of
`recovery/postgres.ts` and `retention/postgres.ts`, and the tables of
`migrations/001`.  One action is one committed transaction.  The exception is
`accept`: `BeginAccept` takes the advisory lock, then `AnswerKnownKey`,
`RejectBacklog` or `Admit` decides on what it reads, and `InsertRun` or
`InsertConflict` ends the transaction, so that anything may happen between the
count and the insert.  A store configured without limits starts at the insert
(`BeginUnlimitedAccept`), where only `ON CONFLICT DO NOTHING` keeps two runs of
one key apart.

| TLA+ | Code |
|---|---|
| `status`, `claim`, `attempts`, `request` | `process_runs`, `process_run_attempts`; `Len(attempts[r])` is `attempt_count` |
| `events`, `outbox`, `deliveries` | `process_events.deduplication_key`, `outbox_messages`, rows of `webhook_deliveries` |
| `aged[r]` | the one deadline that matters for the row: lease, recovery age, retention |
| `lock`, `intake` | `pg_advisory_xact_lock` and the transactions under way |
| `promised` | what callers were last answered; a history variable |
| `Claim`, `Complete`, `ScheduleRetry`, `ReleaseClaim` | the functions of that name; they throw (the action is disabled) where the code's "is inconsistent" exceptions would fire |
| `ClaimOutbox`, `MarkPublished`, `ReleaseMessage`, `AcknowledgeOutbox` | `claimProcessWork`, `markPublished`, `release`, `acknowledgePendingOutbox` |
| `DeleteRun` | `cleanupBatch` with its cascades |

A claim token is a fresh UUID; it is named by the attempt number it was drawn
for, and an outbox token by `publish_attempt_count`, because two tokens of one
row are equal exactly when these numbers are.  `Spec` lets anybody call any
operation with any token at any time, so its invariants hold for every use of
the store; `SystemUsesStore` proves that ProcessRunSystem is one.

### RunLifecycle, the abstract specification

What a caller may rely on: a submission owns at most one run, the run is queued
and executed any number of times, finishes once with one notice, and is
forgotten only afterwards.  `ProcessRunStore!ImplementsLifecycle` states that
the store refines it, with the run's status as phase, its terminal events as
notices, and the present rows of a caller and key as what the submission owns.

### ProcessRunSystem, everything around the store

EXTENDS ProcessRunStore and uses its actions.  Each action is what one
participant does between two awaits.

| Part | Code | Actions |
|---|---|---|
| queue | `queue/bullmq.ts` and BullMQ (external) | `Enqueue`, `PromoteDelayed`, `StallCheck`, `RemoveFinishedJob`, `LoseLock`, `FlushQueue` |
| workers | `worker/index.ts`, the processor and `close` of `queue/bullmq.ts` | `TakeJob`, `ClaimRun`, `SettleSuccess`, `SettleFailure`, `SettleRetry`, `SettleAborted`, `WorkerError`, `FinishJob`, `Crash`, `StartShutdown`, `ReleaseActive`, `CancelJobs`, `Exit` |
| relay | `outbox/dispatcher.ts` | `RelayClaim`, `RelayLook`, `RelayEnqueue`, `RelayMark`, `RelayFails` |
| reconciler | `recovery/index.ts`, `recovery/postgres.ts` | `SelectCandidates`, `InspectJobs`, `DeferItem`, `RepairItem`, `EnqueueItem`, `AcknowledgeItem`, `SkipItem` |
| dispatcher process | `dispatcher.ts` | `DispatcherStops` |

`enqueue` is two steps (look at the job; remove and add), so that a worker may
take, finish or re-add the job in between.  The inspection of the reconciler's
batch is one step, the repairs come later one by one.  Every failure costs one
of `FaultBound` faults: a crash, the start of a shutdown, a lock that is lost
while its worker goes on, a store call that fails before or after its commit, a
queue call that fails, the loss of Redis, the end of a dispatcher.  A worker
slot executes one job; a process with concurrency *n* is *n* slots, which lets
slots fail alone as well.  A remove that precedes an add is one step with it: a
crash between them has the effect of a lost job, which `FlushQueue` covers.

### WebhookDelivery, notifications

`webhooks/store/postgres.ts` (deliveries), `webhooks/delivery/worker.ts` and
`http.ts`, `webhooks/queue/bullmq.ts`, `webhooks/outbox/postgres.ts`,
`webhooks/runtime.ts` and the relay they share with the run outbox.  `Notify` is
the tail of the store's `complete`, seen from this side.  A delivery has a list
of outbox messages, one for its creation and one per retry, all of them for the
same job id.  `Send` lets the endpoint answer anything; after a time limit or an
abort it may have accepted the request or not.  `received` remembers what the
endpoint really accepted.  `replay` is the one transaction that waits twice, so
it is split there: `SelectSource` locks and judges the source row, `NumberReplay`
locks its siblings and takes the number, `InsertReplay` writes and commits, and
`RollBackReplay` undoes what a deadlock or an error stops.  Several replays may be
open at once (`Replayer`); `LockedRows` are the rows each has selected FOR UPDATE.

### WebhookEndpoints, secrets, addresses and retries

`webhooks/index.ts`, the endpoint half of `webhooks/store/postgres.ts`,
`webhooks/delivery/worker.ts` (signing, retry delay, horizon) and the target
policy of `delivery/http.ts`.  One endpoint under concurrent operators, whose
operations resolve a new URL first and write later (`ResolveNewUrl`,
`WriteOperation`), and its notices, each claimed with the secrets of that moment
(`ClaimNotice`), looked up (`ResolveTarget`), posted (`PostNotice`) and retried
or concluded, on a clock.  `trail` counts the audit rows; the receiver learns a
new secret some time before the rotation's window closes and keeps the old one
till then.  Abstracted: ciphers, address arithmetic, owner scoping, views.  A
secret is a number, an address is what the policy thinks of it.  Worth knowing:
a disabled endpoint is never enabled again while its URL stays taken; a stale
claim's 410 disables an endpoint whose URL has been corrected since; a rotation
inside another one's window drops the oldest secret at once (`hasty`, which
excuses a signature that cannot be verified).  Each rotation brings its own
overlap, from one tick on, as the code accepts 1 ms to 7 days: a window may be
shorter than a request takes, and then a request signed before the rotation may
arrive after it.  What is promised is that a post can be verified when it arrives
no later after its claim than the shortest overlap given (`took`, `overlaps`).

### AgentConversationStore, conversations and their turns

`agent-conversations/store.postgres.ts` and `retention.postgres.ts`.  `accept`
and `acceptTurn` wait for up to three locks, so they are split where they wait:
`Start` takes the lock of the key, `AnswerKnownKey` or `LockConversation` follows
and the latter keeps the conversation's row, `Admit` takes the admission lock
and decides, `OpenConversation` or `ContinueConversation` inserts and commits.
Everything else is one transaction.

| TLA+ | Code |
|---|---|
| `conversation`, `turn`, `attempts`, `operation`, `outbox`, `invocation` | the tables; `Len(attempts[t])` is `attempt_count` |
| `due[c]`, `leaseOver[t]` | `expires_at` (later `delete_by`) and `claim_expires_at` have passed |
| `session` | the transactions of `accept` and `acceptTurn` under way, with the locks they hold |
| `Fence` | `fencePostgresAgentConversation`, part of every action that deletes or finds an expired conversation |
| `WithTurn`, `Claim`, `CompleteClaim`, `ReleaseClaim` | the claim functions, each of which expires the conversation instead if it is due |
| `CleanUp`, `Purge` | `cleanupBatch` for one row, and the cascades of the delete |

### AgentTurnSystem, workers and the tool ledger

EXTENDS AgentConversationStore.  `work[t][a]` is what the worker of attempt *a*
is doing: thinking, or in one of the three steps of a tool call (`PrepareCall`,
`StartCall` and, after the member process has answered in `MakeCall`,
`RecordCall`).  The ledger's functions are these actions; `sawCommit` is what
`protectPricedCommit` would find in the attempt's own records.  A job may come at
any time (`TakeTurn`), attempts overlap when a lease runs out or a shutdown
releases the claim of an agent still at work, and an attempt that has lost its
turn goes on calling tools, as the code lets it: the ledger asks neither for the
claim nor whether the conversation still exists other than as a row.  `starts`
and `reported` remember what really happened to priced processes.

### AgentTurnDelivery, how an accepted turn reaches a worker

`agent-conversations/dispatcher.ts`, `recovery.ts`, `queue.bullmq.ts`, the
worker's lifecycle in `worker.ts` and the outbox and recovery queries of
`store.postgres.ts`.  The counterpart of ProcessRunSystem for turns, with three
differences taken from the code: nobody acknowledges a message for the relay, a
released turn's job is completed and not delayed, and only the reconciler gives
such a turn a job again.  Turns start accepted, each by a key of its own
(`AcceptedAssumption`); a claim token is the smallest number free, since it need
only differ from those in use.

### ConversationPages and AgentService

ConversationPages EXTENDS AgentConversationStore and adds a caller that reads
`find` page by page and continues what it has read, while others change the
conversation.  Each read of `find` locks the conversation's row, so a page is one
step.  AgentService is the same service as `app/local-agent.ts` composes it in one
process: handlers that interleave at their awaits, the atomic in-memory store,
the queue and its drain loop, the worker, the ledger and the caller's image.

### QueueRecovery, RetentionSweep, RunOperations, ReleaseReadiness: passes over many rows

QueueRecovery is one command (or one periodic batch) of
`process-runs/recovery`: select a page, inspect its jobs, repair, acknowledge and
record item by item, move the cursor, with workers and the relay going on.
RetentionSweep is the cleaner of runs and of conversations: batches, limits, the
continuation of a sweep, audit rows, restarts; a conversation's lock makes the
batch skip it.  A run's attempts are a set, each with its number and day, so that
what a batch counts can be compared with what is gone.
RunOperations puts both beside RunObservation, one scene at a time, and states
what an operator relies on.  ReleaseReadiness is `process-runs/ops/postgres.ts`: the gate that
rebuilds a chain of batches from audit rows written by any number of commands.

### RunObservation

`run-observation` and `app/run-observation.ts`: writers of activities, flushes,
records, retention and page-wise readers, over workers whose attempts may be
superseded.  The order among one process's appends is left out.

### RuntimeRoles and AvailabilityMonitor

RuntimeRoles is one process of any of the five roles (`bin`, `app`), with agent
conversations, the archive and structured observation switched on: its runtimes,
loops and jobs, the HTTP server with its readiness, a start that fails
(`StartFails`), termination by signals, grace, failure at any point.  The API's
agent runtime holds a BullMQ queue and a pool, closes the first before the second
(`ConnectionsOf`, `ReleasesNext`), and its readiness asks database, Redis and the
resource service (`Needs`).  AvailabilityMonitor EXTENDS it with
`availability/monitor.ts` asking that process.

### The paid services

ImageService: one run of a paid image process and the record file of its key in
`business-api/crt-server.ts`, for all four processes.  The call of the
provider is "sent", then "refused" or "charged", and goes on to "returned" (the
picture came back) and "delivered" (it was stored).  `ReportsAreHonest` says what
each answer promises about the call; it also lists the answers that promise
nothing.
ComposedTask: planner, steps, budget and ledger of `processes/composed` with its
retries and time limits, what a step throws or returns against its schema, and the
answer that the runtime rejects because its output is too large.
TemplateProduction: the files of one production.  EmojiPlanning: one planning
session and its image request.  EmojiImageRoutes: primary and backup route within
one deadline, with the receipt on disk.  ObjectUpload: puts, overwrites and lost
answers of sealed and plain objects.

### ProcessRunApi, ConsoleClient, ReleaseSmoke, ProcessRunClients

ProcessRunApi is what a client can see of runs over a network that loses, delays
and repeats.  ConsoleClient is the console's client with the tab's storage;
ReleaseSmoke the two smokes of the release gate; ProcessRunClients puts each of
them beside the API.  The paid evidence carries its recovery fields with the
constants the code prints; `RecoveryIsTrue` says which of them can be relied on.

## 3. The runs

Properties are named as in the modules; several are conjunctions of parts that
have names and comments of their own (`TypeOK` of the module among them).

| Run | Instance | Distinct states | Shows |
|---|---|---|---|
| `store` | scene *limited*: 2 runs, 2 sessions, 2 callers, 4 submissions (2 keys, one key with two requests), limits 1 and 2, 2 attempts; scene *unlimited*: the same without limits and so without the lock, the outbox claimed once | 475,176 | `HistoryConsistent`, `PromiseKept`, `BacklogBounded`, `DeliveriesFollowOutcome`, `OneRunPerKey`; the refinement `ImplementsLifecycle` |
| `system` | 1 run, 2 sessions, 2 workers, 1 dispatcher (two loops), manual recovery too, 3 attempts, 1 fault of any kind | 1,002,492 | `SystemConsistent` (types, `OvertakenIsAbandoned`, `PublishedMeansEnqueued`, `RetriesWithinPolicy`), `OnlyOwnAttempt` |
| `liveness` | 1 run, 1 worker, 1 dispatcher, 1 fault | 176,718 | `EveryRunFinishes`, `OutboxDrains` |
| `webhook` | deliveries: 2 of one event, 2 workers, 1 relay, 2 attempts, 1 fault; replays: 4 deliveries of one event, 2 replays open at once, no fault; endpoints: 2 operators with 2 calls in all, overlaps of 1 and 2, requests of up to 2, 1 notice, 3 attempts, a clock of 4 | 1,179,415 | `DeliveriesConsistent` (types, `AttemptsMatchStatus`, `SenderHoldsClaim`, `SucceededMeansReceived`), `ReplayNumbersUnique`, `ConcludedIsFinal`, `TrailTellsEndpoint`, `PostsAreSound` |
| `webhook_crash` | 1 delivery, 1 worker, 1 fault | | a counterexample to `ClaimedDeliveryEnds` |
| `agent_store` | 1 owner, 3 keys, 2 conversations, 3 turns, 2 sessions, limits of 1, 2 turns a conversation, 1 attempt | 239,579 | `ConversationsConsistent` (types, `BusyMeansOneActiveTurn`, `ClaimOwnsRunningAttempt`, `InsertsCannotConflict`, `BacklogBounded`), `HistoryIsLinear`, `NothingIsTakenBack` |
| `agent_tools` | workers: 1 conversation, 2 turns of 2 attempts with 1 tool call (priced or free), 1 priced call a conversation, 2 faults; service: 2 keys, 2 handlers, 1 failing resource call; reader: pages of up to 3 | 675,933 | `PricedRunsOnce`, `LedgerConsistent`, `CallersSeeTheTruth` (`ServiceConsistent`, `PagesAreWhole`) |
| `agent_turns` | 1 turn, 2 workers, 3 attempts, 1 dispatcher, 1 fault | 214,972 | `TurnsConsistent`, `NothingWaitsForEver` (`EveryTurnIsAnswered`, `OutboxDrains`) |
| `clients` | console and smokes: 3 keys, 3 posts, 2 faults; gate: 2 commands, 2 runs, 3 moments, batches of 1 | 3,343,967 | `NoRunIsForgotten`, `ShownIsTrue`, `EvidenceIsTrue`, `OpenGateMeansAllWereSeen` |
| `services` | six scenes, one per service | 2,219,820 | `ImageConsistent`, `TaskConsistent`, `ProductionConsistent`, `PlanConsistent`, `PictureConsistent`, `SealedUrlsKeepTheirBytes`, `NothingIsTakenBack` |
| `observation` | timeline: two runs, 2 attempts, 1 fault; recovery: 2 runs, pages of 1, 1 fault, 1 move of others; retention: 2 rows, batches of 1, limits of 1 and 2, 3 days, 1 fault, 1 move | 1,774,904 | `TimelinesConsistent`, `NothingIsPassedOver`, `AuditsTellWhatWasDone` |
| `operations` | every role, two (webhook worker and API) watched by the monitor; 2 requests, 2 batches a sweep, 1 fault | 615,328 | `RolesConsistent`, `AvailableWasSeen`, `ShutdownEnds` |

A *scene* is only packaging: a run whose scenes are modules that share no
variable chooses one of them at the start and leaves the others' variables alone.
Its invariants speak of all of them, and each is about one scene.

Why these bounds are enough.  Everything the run store does is about one run, but
for admission and keys, which relate two: two runs, two sessions and a caller
limit of one make both limits and every collision of keys happen.  Two attempts
are what a takeover, a retry or a late token needs; the proofs remove these
bounds altogether.  In the system, two workers and one run are what every race
over one run needs, and two runs share nothing but a batch, whose items are
handled one by one.  One fault leads to every single point of failure; the
attempts, one more than the policy allows, let a crash and a retry both happen.
`PublishBound` bounds how often a message is claimed: 2 in safety runs (a claim
and one after it, or beside it once the lease has run out), and in liveness runs
large enough never to be reached, because a message at its bound would only look
as if it were stuck.  Runs, messages and faults are finite, so a model may
simply stop: deadlock is not checked in those runs, and `operations` asks for a
proper end as a liveness property instead.

For conversations, two sessions are two callers that race for a key, for a
conversation's next turn and for the last place in the backlog, and the third
turn shows that a place taken by another conversation counts.  In `agent_tools`
a fault is a deadline or a lease that runs out, a crash, a shutdown or a database
call that fails; two of them suffice for a takeover while a call fails, and for
a deletion whose conversation is purged under a running attempt.  The priced
call of the second turn meets the conversation's limit while the first turn's
late attempt may still ask for one.  One call a turn leaves the limit per turn
untested there: it is counted by the same statement under the same lock, and
`LedgerStaysConsistent` covers it.  Callers use each key once; `agent_store`
repeats them.

`observation` starts from some of the initial states of RunOperations only
(`SmallInit`: one archive for the run that has activities, a second run that a
recovery may find); the theorems are about all of them.

Passes over many rows need a page boundary with a row on each side, hence two
rows in pages of one; a sweep that is stopped and continued needs a limit below
that.  The services are about one key or one production because keys and
productions share no file.  `webhook`'s clock of four lets a window of one close
while a request of up to two is under way, which one of two does not; its two
operator calls never make a hasty rotation (three do, which the proof includes).

Replays of a delivery need more rows than its failures do.  The scene *replays*
has room for three replays of an event's first delivery: a replay, a replay of a
replay, a second one of the same source, and two of them open at the same time
with all their statements interleaved; there every attempt gets a final answer,
workers and relay act one at a time and nothing fails.  In the scene *deliveries*
one replay meets every fault, but nothing comes between its statements and the
relay is idle meanwhile: the relay touches no row that a replay reads.  The
theorems have none of these restrictions.

In `operations` the API is looked at from two sides (`Scene`): requests of
clients and two signals with nobody watching, or a monitor and failing
dependencies with one signal and no client.  The theorems are about both at once.

The mutants in `PROJECT.json` replace one operator by a plausible mistake (the
operators called `Broken...`, which no specification uses) and show for every
property that it would notice.  Where a property is a conjunction, the module has
further `Broken...` operators beside the code they distort, one for each part, so
that a reader can repeat the experiment for a part.

## 4. Fairness

`FairSystemSpec`, `FairSpec` and `FairDeliverySpec` assume weak fairness, and only
of what the code and BullMQ repeat: the relay and reconciliation loops, which
reschedule themselves after every round, failed or not (`createPeriodicLoop`,
`webhooks/runtime.ts`, `agent-conversations/dispatcher.ts`); BullMQ handing out
waiting jobs, promoting delayed ones and checking for stalled ones; a worker that
goes on with the job it has, because an attempt has a time limit
(`process-runtime/attempt.ts`) and a request a timeout (`http.ts`); and time, so
that leases and ages come to an end.  `MonitorFairness` assumes that a process
that has been told to stop goes on: a pass, a job or a request under way ends, a
grace period expires, a closing resource closes or fails.  Nothing is assumed of
callers, signals, faults, retention, endpoints, or the manual recovery command.
A relay or reconciler item that meets a locked job fails without a fault; that
failure is part of the fair loop.

## 5. What is proved

Eight modules hold proofs.  Every theorem is for any sets of runs, callers,
keys, workers and so on, any limits and any bounds that satisfy the named
assumptions of its module, which TLC evaluates on every run.  The assumptions
restrict the constants to what the configuration parser of the code accepts
(limits and overlaps are positive), to what the registrations of the Members say
(`ComposedAssumption`: those that can tell a paid, undelivered picture are image
tools, and these are priced) or to what makes the model well defined (`Nobody` is
not a member; `Nothing` is none of the records, answers and outputs it stands
beside, `NothingAssumption`; a smoke test has a request to send that the service
takes, `SmokeAssumption`).

| Theorem | Module | Property |
|---|---|---|
| `TypeCorrect`, `HistoryCorrect` | ProcessRunSystemProofs | `TypeOK`, `HistoryConsistent` |
| `KeyOwnsOneRun`, `AcceptCorrect` | ProcessRunSystemProofs | `OneRunPerKey`, `PromiseKept` |
| `BacklogStaysBounded` | ProcessRunSystemProofs | `BacklogBounded` |
| `FinishedStaysFinal` | ProcessRunSystemProofs | `FinishedIsFinal`, an action property; no run checks it, the proof covers every instance |
| `DeliveriesCorrect` | ProcessRunSystemProofs | `DeliveriesFollowOutcome` |
| `StoreImplementsLifecycle` | ProcessRunSystemProofs | `ImplementsLifecycle` |
| `SystemStaysConsistent` | ProcessRunSystemProofs | `SystemConsistent` |
| `OnlyOwnAttemptIsSettled` | ProcessRunSystemProofs | `OnlyOwnAttempt`, an action property |
| `SystemUsesStore` | ProcessRunSystemProofs | `SystemSpec => Spec` |
| `SystemImplementsLifecycle`, `SystemKeepsPromises` | ProcessRunSystemProofs | the store's theorems, carried over to the system |
| `DeliveriesStayConsistent`, `ReplaysAreNumberedApart`, `ConclusionsAreFinal` | WebhookProofs | `DeliveriesConsistent`, `ReplayNumbersUnique`, `ConcludedIsFinal` |
| `TrailAccountsForEndpoint`, `PostsStaySound` | WebhookProofs | `TrailTellsEndpoint`, `PostsAreSound` |
| `ConversationsStayConsistent`, `HistoryStaysLinear`, `WhatIsWrittenStays` | AgentConversationStoreProofs | `ConversationsConsistent`, `HistoryIsLinear`, `NothingIsTakenBack` |
| `PricedCallsRunOnce`, `LedgerStaysConsistent` | AgentTurnSystemProofs | `PricedRunsOnce`, `LedgerConsistent` |
| `ServiceStaysConsistent`, `PagesStayWhole` | AgentTurnSystemProofs | `ServiceConsistent`, `PagesAreWhole`, each of its own specification |
| `CallersAlwaysSeeTheTruth` | AgentTurnSystemProofs | `CallersSeeTheTruth`, in all scenes of `agent_tools` |
| `TurnsStayConsistent` | AgentTurnDeliveryProofs | `TurnsConsistent` |
| `ImageStaysConsistent`, `RecordsStay` | BusinessServiceProofs | `ImageConsistent`; `RecordIsFinal`, an action property |
| `TaskStaysConsistent`, `ResultsStay` | BusinessServiceProofs | `TaskConsistent`; `ResultIsFinal`, an action property |
| `ProductionStaysConsistent`, `ReviewsStay` | BusinessServiceProofs | `ProductionConsistent`; `ReviewIsFinal`, an action property |
| `PlanStaysConsistent` | BusinessServiceProofs | `PlanConsistent` |
| `PictureStaysConsistent`, `NoLateOrder` | BusinessServiceProofs | `PictureConsistent`; `NothingOrderedTooLate`, an action property |
| `SealedUploadsKeepTheirBytes` | BusinessServiceProofs | `SealedUrlsKeepTheirBytes` |
| `ServicesStayConsistent`, `NothingIsEverTakenBack` | BusinessServiceProofs | all of these in the composition of `services`; its `NothingIsTakenBack` |
| `NoRunIsEverForgotten`, `ShownIsAlwaysTrue`, `EvidenceIsAlwaysTrue` | ProcessRunClientsProofs | `NoRunIsForgotten`, `ShownIsTrue`, `EvidenceIsTrue` |
| `RecoveryLeavesNothing`, `RecoveryAuditTells` | OperationsProofs | `NothingLeftBehind`, `AuditTellsWhatWasDone`, of QueueRecovery |
| `SweepSkipsNothing`, `SweepAuditTells` | OperationsProofs | `NothingDueIsSkipped`, `CleanupAuditTells`, of RetentionSweep |
| `NothingIsEverPassedOver`, `AuditsAlwaysTell` | OperationsProofs | `NothingIsPassedOver`, `AuditsTellWhatWasDone`, in all scenes of RunOperations |
| `TimelinesStayConsistent`, `TimelinesAlwaysConsistent` | OperationsProofs | `TimelinesConsistent`, of RunObservation and in all scenes of RunOperations |
| `GateIsSound` | OperationsProofs | `OpenGateMeansAllWereSeen` |
| `RolesStayConsistent`, `AvailableWasAlwaysSeen` | OperationsProofs | `RolesConsistent`, `AvailableWasSeen` |

None of these properties is inductive; what each proof adds, and why:

* **Run store.**  `HistoryInv`: per run, claim, attempts, status and events
  agree, and an unused run is blank.  The parts need each other: that `complete`
  finds the attempt running needs the claim, that a retry event is new needs the
  attempts.  Actions on other runs go through one frame lemma.  `AcceptInv` adds
  that present rows hold a submission; `OneRunPerKey` makes the row found the one
  that was promised.  `BoundedInv`: a session that counted holds the lock, so
  there is still room for its run when it inserts; nothing but an insert adds to
  a backlog.
* **Run system.**  Every participant's step is split into its store part (which
  operation, with which token: `WorkerStorePart`, `DispatcherStorePart`) and its
  own part.  The store parts are all steps of the store's `Next`, so the store's
  lemmas apply and `SystemUsesStore` follows.  The invariant `SystemInv` adds to
  `HistoryInv`: no two workers execute the same attempt, and a worker's token is
  the claim's or that of an attempt on record as ended (`ClaimsAccounted`,
  `AttemptsApart`, which strengthen `OvertakenIsAbandoned`); whatever the queue or
  a loop holds was once enqueued (`JobsKnown`, for `PublishedMeansEnqueued`);
  every retried failure has its event (`PolicyOnRecord`, for
  `RetriesWithinPolicy`); tokens in flight are within the quantifiers of the
  store's `Next` (`TokensBounded`).
* **Webhook deliveries.**  `DeliveryInv` is `StoreInv` (types; for every row: a
  free one is blank, what is known of its event, status, claim and attempts
  agree; `Numbered`: among the deliveries of one event one has the largest replay
  number, so the next number is free), `OpenReplays` (each open replay has a source
  row, `Sources`; one that has its number is ahead of every row of the event,
  `NumbersAhead`, and no other replay works on any of these rows, `RowsHeld`, so
  that the number is still free when the row is inserted), `BusyWorkers` and
  `BusyRelays` (what each is at work on exists and is as it was found, or has been
  overtaken), and   `SenderHoldsClaim`, `SucceededMeansReceived`, `AcceptedIsReceived`.
* **Webhook endpoints.**  `EndpointInv` has four parts.  The trail needs to know
  that an operation under way was resolved for an endpoint that exists.  The
  signatures need `ReceiverKeepsUp` (the receiver knows the current secret, or
  the previous one while the window is open) and what a request under way was
  signed with (with all that signed at its claim, or with the secret rotated out
  since, whose window outlasts the request as long as it takes no longer than the
  shortest overlap).  The retries need the bounds
  of the delay for any policy (`DelayBounds`).
* **Conversation store.**  Sessions hold the locks their phase needs and what
  they read under them is still so (`SessionInv`), the tables agree (`TableInv`),
  and a session that counted still has room.  Fence, expiry, start, finish and
  give-back of a turn each have one lemma about the tables.
* **Tool ledger.**  Every step is a store step or writes one ledger row.  Rows
  agree with what was invoked and reported, and at most one attempt is between
  invoking a priced process and recording it (`OneCharges`).
* **Conversation service in memory.**  `ServiceInv`: the idempotency record of a
  turn's key names that turn and outlives it, also the deletion of its
  conversation (`KeysOfTurns`), so a second turn can never take the key; whenever
  an open queue holds a turn, a handler is about to wake the drain, the drain is
  not done yet, or its request flag is set (`DrainIsAwake`, which strengthens
  `SleepsOnlyWhenDrained`); a charge leaves a record with which the turn may still
  fail (`PaidByRecord`), and images and outputs go with the phase of the turn at
  work.  That a new conversation finds an unused number while its key is unused is
  a pigeonhole argument over the records of the keys (`SomeConversationIsUnused`).
* **Reader of pages.**  `PageInv`: only the last turn of a conversation is worked
  on (`HistorySound`), and a reader has been shown at most what there is
  (`ReaderSound`), so that what others append or conclude takes nothing back.
* **Clients.**  A client notices little of what the service and the network do:
  `ServiceEffect` says what, is proved of every step of ProcessRunApi once, and
  each client's part of `ClientsInv` is kept by it and by the client's own actions.
  `ApiSound`: a POST is on the wire once, a key has one body, an answer that names
  a run names one there is.  `ConsoleSound`: a key is held only by the record in
  the tab's storage (`FateOfKeys`), what may still answer the console's POST says
  something of that record's key (`RecordSound`), a key whose rejection was shown
  has no run and gets none (`Dead`).  `PaidSound` and `InternalSound`: the keys and
  runs of each step of a smoke test (`KeyOfStep`, `RunsOfSteps`), and a probe that
  was refused leaves nothing on the wire (`Probed`).
* **Recovery of the queue.**  `RecoveryInv`: the command works through its
  candidates in order (`Steps`); what nobody else has touched still waits as it was
  found (`UntouchedWaits`); a run in scope has a job, is a candidate still to come,
  or lies behind the cursor (`NoGap`).  The audit rows need `Books`: the counters
  are those of the items looked at, the last of which may not be recorded yet
  (`Counted`), rows of finished batches are closed (`RowsOfBatches`), and every job
  put into the queue is named by a row or belongs to the item at hand
  (`JobsAreNamed`).
* **Retention.**  `SweepInv`: up to the cursor of the sweep, and up to that of the
  continuation the next one starts from, every row left alone is settled as of the
  sweep's time (`SweptSoFar`).  `SweepBooks`: rows are such as the store can leave
  them (`SoundRows`), and counters and audit rows together count what is gone
  (`SweepCounts`).
* **Run observation.**  `ObservationInv`: a log that has ended has closed its
  activities (`LogsClose`); the outcome is known to its owner and recorded at most
  once (`OutcomeTold`); entries are where they were handed over until they are
  written, and a record waits for those of its attempt (`EntriesWritten`); a record
  is pruned no earlier than its timeline (`DaysAgree`); a list read so far ends at
  its cursor (`ListSound`).
* **Turn delivery.**  `DeliveryInv` is the conversation store's `TableInv` with no
  session under way and no turn missing, the module's own types, what everyone at
  work knows of the turn it aims at (the relay marks a message only after it has
  added a job), and the two parts of `TurnsConsistent`.  Each store transaction's
  effect on everybody else is one lemma: no turn changes its conversation, none
  that has ended runs again, one that still runs is unchanged unless its attempt
  has just started, a message is settled unsent only with its conversation.  That a
  fresh relay token exists is a pigeonhole argument.
* **Release gate.**  `GateInv`: once a batch is selected, it covers every
  unfinished run from before its cutoff that lies between its cursor and the next
  one (`BatchesCover`, `RowsCover`, with `PastCutoffs` and `RowsOfWalkers`).  The
  chain the gate rebuilds is not followed link by link, which would be an
  induction over data: among the rows of the chain, the one with the greatest
  cursor below a given run must cover that run.
* **Roles and monitor.**  `RolesInv` says what each runtime's phase allows
  (`PartSound`, `LoopSound`: it has its connections until it releases them, a
  timer only while it is open, a pass only until it has stopped) and in which
  order a `close()` goes through its stages (`ClosingOrder`: nothing is touched
  before the server is closed, unless the API got both signals; once something is
  touched, a signal is settling or everything has closed without a failure).
  What a sweep has examined reaches to where it is and to where the next one goes
  on (`SweepSound`).  `MonitorInv`: a readiness answer is there only after each of
  its checks has passed while the monitor looked (`Answered`), so that what a
  probe claims was seen (`Believed`).
* **Uploads.**  An object with a digest is what a sealed upload made of its own
  bytes (`DigestsTell`), and an answer on its way matches what the bucket has
  (`AnswerIsKept`).
* **Image service.**  `ImageInv`: at most one handler is past the claim of the
  record (`OneWriter`); a handler's phase tells what the record, the promise in
  memory and the paid call look like (`HandlerInv`); the record has one of four
  shapes (`RecordInv`); an answer, once given, stays true (`AnswerInv`).
* **Composed task.**  `TaskInv`: an attempt whose signal fired has its result, and
  one that has a result without it has neither planner nor step left
  (`EndIsReal`); every request belongs to a step that ended or to the one under
  way, which has sent one only (`RequestsTold`): that paid Members are never
  retried inside a step is an assumption on `RetryTool`, taken from their
  registrations.
* **Template production.**  `ProductionInv`: one operation holds the lock, the
  files of a render agree with each other, and what the holder has read is still
  in the files (`HolderKnows`).
* **Emoji plan.**  `PlanInv`: what each stage has behind it (`StageInv`: while the
  model thinks, what it was offered is what may be cited now), the counters of
  the session by stage (`SessionCounts`), one observation for each search
  (`RecordsInv`), and what was found of the accepted candidate, which nothing
  changes afterwards (`AcceptedIsGood`).
* **Emoji picture.**  `RoutesInv`: the trail of attempts has one of a few shapes,
  each entry is true of the provider it names (`TrailInv`), and what was ordered
  fits the step and the clock (`OrdersInv`).

What stays with TLC, and why:

* Liveness (`EveryRunFinishes`, `OutboxDrains`, `NothingWaitsForEver`,
  `ShutdownEnds`) and the counterexample: temporal reasoning under fairness and
  ENABLED are beyond the installed provers.
* The bounds at which a counter stops in the models (`AttemptBound`,
  `PublishBound`, faults) are constants of every theorem; that the code has no such
  bound is argued in section 3, not proved.

Every safety invariant and action property that a run checks is stated by a
theorem.  In a run with scenes a property that belongs to one of them is proved of
that scene's specification, and one that belongs to several of the specification
that has them all (`SceneSpec` of RunOperations, MCAgentTurnSystem and
MCBusinessServices).

## 6. Where the code and its documents disagree

* `webhook_crash`: `claim` takes only 'pending' deliveries
  (`webhooks/store/postgres.ts:425`) and nothing ever reads the lease of a
  'delivering' one.  If its worker dies, is shut down by force or fails in a
  store call, the delivery stays 'delivering' for ever.  It cannot be replayed
  either (replay needs 'failed' or 'exhausted'), and it keeps its run from being
  deleted.  `docs/async-process-runs-design.md:15` and `docs/api.md:648` promise
  at-least-once delivery.

Noticed while modelling, without a run of their own:

* A webhook retry is a new outbox message for the job id of the job that has just
  rescheduled it.  If that job has not finished when the message is relayed,
  `enqueue` (`webhooks/queue/bullmq.ts:82`) answers "duplicate", the message is
  marked published, and nothing is left that would wake the delivery.  No fault
  is needed.  Runs are safe from the same loss because the reconciler watches
  them; nobody watches deliveries.
* `protectPricedCommit` (`agent-conversations/worker.ts:415`) turns the failure of
  a turn into DEPENDENCY_FAILURE_AFTER_COMMIT only if *this attempt* saw a priced
  commit.  A second attempt that fails before it asks for the call its
  predecessor paid for reports an ordinary failure, although the ledger knows.
  `docs/api.md:278` and `docs/agent-conversations-design.md:67` promise the error
  for the turn.
* A worker fenced out by a deletion can still prepare and start a priced call,
  because the ledger locks the conversation's row without looking at its status
  (`agent-conversations/tools.postgres.ts:321`), while
  `docs/agent-conversations-design.md:70` says that late workers find no active
  conversation.
* Composed tasks form the key `<runId>.<step>`, but `parseIdempotencyKey` accepts
  `/^[A-Za-z0-9_-]+$/` only (`business-api/crt-server.ts:1329`): the image
  service answers 400 and the step fails as DEPENDENCY_FAILURE.  So crt and the
  three news processes cannot succeed as Members, although `docs/api.md:880` and
  `docs/processes/common/composed-task/README.md:28` offer them.
* `docs/decisions/2026-08-21-composed-task-planner.md:132` says that a task that
  times out or is cancelled after a priced success reports
  DEPENDENCY_FAILURE_AFTER_COMMIT, ahead of the attempt runner, and
  `docs/processes/common/composed-task/README.md:41` has the same code for a
  time-out or an invalid output after a priced step; the code reports
  PROCESS_TIMEOUT or INTERNAL_ERROR, and INVALID_OUTPUT when the answer with the
  outputs of all its steps is larger than an output may be
  (`process-runtime/registration.ts:262-290`).  The composed task's README says that a Member's own retry
  policy does not apply in a step; `agent-runtime/process-tools.ts:199-232`
  retries.  The priced budget counts succeeded priced steps only, and a takeover
  starts without the ledger.
* The comment at `business-api/crt-server.ts:928-931` says that every failure after
  the edit is reported as committed.  That is so while the picture is delivered;
  a failing `completeTransform` (line 427) answers UNAVAILABLE, and the failed
  promise stays in the map for later requests of the key.  A charged CRT request
  whose answer is lost, by the provider or by the service, and a paid news image
  that fails end as DEPENDENCY_FAILURE.  `ReportsAreHonest` states exactly what holds.
* `webhooks/delivery/worker.ts:218` retries network errors, 429 and 5xx only; the
  design document (line 197) has other non-2xx answers retried with backoff.
* A second signal of the same kind kills the process at once
  (`bin/api.ts:15-21` and the other roles register each with `once`), in the middle
  of the graceful shutdown (`api/application.ts:35-44`, `app/role.ts:104-112`) that
  `docs/async-process-runs-design.md:370` gives every role.
* The console's client does not know `ASYNC_INTAKE_CLOSED` and reports a protocol
  error for it (`docs/api.md:973` lists the code).  The paid smoke's evidence
  always says that an interrupted submission was recovered, also if its first
  POST was refused (`docs/async-process-runs-runbook.md:317`):
  `initialAcceptanceInterrupted` is a constant
  (`release/paid-async-image-smoke.ts:298-307`).  `EvidenceIsTrue` claims nothing
  for that field, only for the other two (`RecoveryIsTrue`).
* Run records past their retention stay visible in PostgreSQL until the next
  start prunes them, while those in files are hidden at once
  (`run-observation/postgres.ts:281`).
* The in-memory service answers 503 for a turn it has stored when the queue has
  just closed, and a repeat after the source image was removed is refused
  (`docs/api.md:137`, `agent-conversations/index.ts:275`).

## 7. What is not modelled

* Within the run and conversation parts: input validation and what results
  contain; jobs with foreign payloads (`inspectJobs` answering "invalid"); expiry
  of inputs and results before their run, in the store (RetentionSweep has it);
  batches of the webhook relay (its default batch is handled one message at a
  time); differences between the clocks of processes, which
  `webhooks/store/postgres.ts:426` depends on.  Stores without claims (`start`,
  `complete`) are not used in production.
* Takeovers are bounded only by `AttemptBound` in the model: the code does not
  limit how often an attempt that kills its worker is started again.  The periodic
  reconciler always starts at the smallest run id: with a full batch of stale
  runs in front that never recover it looks at no other.  The command carries a
  cursor, which is what QueueRecovery models.
* QueueRecovery and ReleaseReadiness: the maximum of 10,000 batches; the audit
  row a periodic empty batch does not leave.  Leases that run out after the
  cutoff count as active.  A failed batch repeated from the same cursor keeps the
  gate closed; a chain of dry runs opens it as well; what is old is decided by
  `completed_at`; the gate's plain thresholds (backlog, stuck runs, outbox lag)
  are not modelled, and cutoffs are assumed not to lie in the future.  "Stored"
  is the moment a row becomes visible: `created_at` is drawn before the commit,
  so a run committed late may carry an earlier time than the cutoff.
* RetentionSweep: examined, deferred and resource-reference counts; one cleaner
  at a time; all rows are created on day 0.
* RunObservation: statistics.  RuntimeRoles: parsing of configuration, restarts
  by a supervisor; roles composed without agent conversations or without the
  archive, which have fewer parts; readiness that asks the registered revisions
  (a fourth question the API's database answers).  AvailabilityMonitor: formats of messages.
* AgentService: one caller; the admission limits are AgentConversationStore's and
  the conversation-wide priced budget is AgentTurnSystem's subject.
* Services: formats, contents and rendering of images; ranking of memes,
  prompts and layout; directories of other productions.
* An image job of character-emoji that the backup accepted before the process died
  is not looked for again: nothing reads a saved receipt back, which
  `docs/processes/common/character-emoji/README.md:59` says itself.
* ReleaseSmoke: `initialQueryInterrupted`, which tells of one read, and
  `submissionAttempts` and `querySessions`, which are constants.
* Clients: corrupted storage records, duplicated tabs, a session that changes
  under the client (a 401 on a retry would drop the record of an accepted run;
  `docs/mvp-release-runbook.md:370` requires one stable session).
* Components without a module are listed in `PROJECT.json` with the reason.

## 8. Plan

The plan of model and proofs is carried out but for the parts named in section 7.
What would be worth adding next: properties for the hazards that have none, should
the code change there (a bound on takeovers, a periodic reconciler that does not
start at the smallest run id every time), and the liveness properties as theorems
once a prover for ENABLED is at hand.
