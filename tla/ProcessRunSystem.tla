-------------------------- MODULE ProcessRunSystem --------------------------
(***************************************************************************)
(* The asynchronous process-run service around its store: the API sessions *)
(* that accept submissions, the BullMQ queue (one job per run, the run id  *)
(* is the job id), the workers, and the dispatcher processes, each running *)
(* the outbox relay and the reconciler as two independent loops.           *)
(*                                                                         *)
(* Each action is what one participant does between two awaits: a store    *)
(* transaction, a queue command, or a step of BullMQ itself.  Anything may *)
(* happen between two actions, so a result read in one and used in the     *)
(* next may be stale by then.                                              *)
(***************************************************************************)
EXTENDS ProcessRunStore

CONSTANTS
  Worker,           \* worker slots (a process has `concurrency` of them)
  Dispatcher,       \* dispatcher processes
  NoWorker,         \* not a member of Worker
  MaximumAttempts,  \* retryPolicy.maximumAttempts of the registration
  MaxStalledCount,  \* BullMQ's maxStalledCount
  BatchSize,        \* outbox claim batch
  RecoveryModes,    \* "stale": the periodic loop; "all": the manual command
  FaultBound        \* bound: crashes, shutdowns, lost replies, lost locks, ...

ASSUME SystemAssumption ==
  /\ NoWorker \notin Worker
  /\ MaximumAttempts \in Nat \ {0} /\ MaxStalledCount \in Nat \ {0}
  /\ BatchSize \in Nat \ {0} /\ FaultBound \in Nat
  /\ RecoveryModes \subseteq {"stale", "all"}

VARIABLES
  job,       \* per run: its BullMQ job
  worker,    \* per worker: the job it processes and the claim it holds
  closing,   \* per worker: how far its shutdown has come
  relay,     \* per dispatcher: its outbox loop
  recon,     \* per dispatcher: its reconciliation loop
  enqueued,  \* per run: was a job ever there? (history, for the properties)
  faults     \* faults so far

queueVars == <<job, enqueued>>
workerVars == <<worker, closing>>
dispatchVars == <<relay, recon>>
systemVars == <<storeVars, queueVars, workerVars, dispatchVars, faults>>

Nowhere == NoRequest   \* "no run", "no message"

RunnableStates == {"waiting", "active", "delayed"}
Job == [state : RunnableStates \cup {"missing", "completed", "failed"},
        owner : Worker \cup {NoWorker}, stalls : 0..MaxStalledCount]
NoJob == [state |-> "missing", owner |-> NoWorker, stalls |-> 0]
NewJob == [NoJob EXCEPT !.state = "waiting"]

WorkerState ==
  [phase : {"idle", "taken", "running", "finishing", "delaying", "failing"},
   run : RunId \cup {Nowhere}, token : Nat]
IdleWorker == [phase |-> "idle", run |-> Nowhere, token |-> 0]

\* What somebody last saw of a job; it may have changed since.
Seen == {"unknown", "missing", "terminal", "runnable"}

Claimed == [run : RunId, token : Nat, queue : Seen]
RelayState == [phase : {"idle", "working", "enqueuing", "marking"},
               batch : SUBSET Claimed, at : Claimed \cup {Nowhere}]
IdleRelay == [phase |-> "idle", batch |-> {}, at |-> Nowhere]

Candidate == [run : RunId, activeLease : BOOLEAN, pendingOutbox : BOOLEAN, queue : Seen]
ReconState == [phase : {"idle", "inspecting", "repairing", "enqueuing", "acknowledging"},
               items : SUBSET Candidate, at : Candidate \cup {Nowhere}]
IdleRecon == [phase |-> "idle", items |-> {}, at |-> Nowhere]

SystemTypeOK ==
  /\ TypeOK
  /\ job \in [RunId -> Job]
  /\ worker \in [Worker -> WorkerState]
  /\ closing \in [Worker -> {"no", "draining", "released", "cancelled"}]
  /\ relay \in [Dispatcher -> RelayState]
  /\ recon \in [Dispatcher -> ReconState]
  /\ enqueued \in [RunId -> BOOLEAN]
  /\ faults \in 0..FaultBound

SystemInit ==
  /\ Init
  /\ job = [r \in RunId |-> NoJob]
  /\ worker = [w \in Worker |-> IdleWorker]
  /\ closing = [w \in Worker |-> "no"]
  /\ relay = [d \in Dispatcher |-> IdleRelay]
  /\ recon = [d \in Dispatcher |-> IdleRecon]
  /\ enqueued = [r \in RunId |-> FALSE]
  /\ faults = 0

Fault == faults < FaultBound /\ faults' = faults + 1

-----------------------------------------------------------------------------
(* The queue *)

BrokenRunnable(r) == job[r].state # "missing"
Runnable(r) == job[r].state \in RunnableStates

\* getJob and getState, as `enqueue` and `inspectJobs` read them.
QueueState(r) ==
  CASE Runnable(r)                              -> "runnable"
    [] ~Runnable(r) /\ job[r].state = "missing" -> "missing"
    [] OTHER                                    -> "terminal"

\* remove() throws on a job that a worker has locked in the meantime.
Locked(r) == job[r].state = "active" /\ job[r].owner # NoWorker

\* The rest of `enqueue`, after it saw the job as m.queue: a job that could
\* still run is left alone ("duplicate"), a finished one is removed and added
\* again, and adding a job that exists by now changes nothing.
BrokenEnqueue(m) == UNCHANGED queueVars
Enqueue(m) ==
  /\ m.queue = "terminal" => ~Locked(m.run)
  /\ job' = IF \/ m.queue = "terminal"
               \/ m.queue = "missing" /\ job[m.run].state = "missing"
            THEN [job EXCEPT ![m.run] = NewJob] ELSE job
  /\ enqueued' = [enqueued EXCEPT ![m.run] = TRUE]

SetJob(r, state, owner) ==
  job' = [job EXCEPT ![r].state = state, ![r].owner = owner]

QueueOnly == UNCHANGED <<storeVars, workerVars, dispatchVars, enqueued>>

\* The delay of a retried job has passed.
PromoteDelayed(r) ==
  /\ job[r].state = "delayed"
  /\ SetJob(r, "waiting", NoWorker)
  /\ QueueOnly /\ UNCHANGED faults

\* The lock of an active job has run out: run it again, but only so often.
StallCheck(r) ==
  /\ job[r].state = "active" /\ job[r].owner = NoWorker
  /\ IF job[r].stalls < MaxStalledCount
     THEN job' = [job EXCEPT ![r] = [NewJob EXCEPT !.stalls = job[r].stalls + 1]]
     ELSE SetJob(r, "failed", NoWorker)
  /\ QueueOnly /\ UNCHANGED faults

\* removeOnComplete / removeOnFail.
RemoveFinishedJob(r) ==
  /\ job[r].state \in {"completed", "failed"}
  /\ job' = [job EXCEPT ![r] = NoJob]
  /\ QueueOnly /\ UNCHANGED faults

\* Redis loses its data.
FlushQueue ==
  /\ Fault
  /\ job' = [r \in RunId |-> NoJob]
  /\ QueueOnly

\* A worker too slow to renew its job's lock keeps running without it.
LoseLock(r) ==
  /\ Locked(r)
  /\ Fault
  /\ SetJob(r, "active", NoWorker)
  /\ QueueOnly

-----------------------------------------------------------------------------
(* Workers *)

SetWorker(w, phase) == worker' = [worker EXCEPT ![w].phase = phase]

TakeJob(w, r) ==
  /\ worker[w].phase = "idle" /\ closing[w] = "no"
  /\ job[r].state = "waiting"
  /\ SetJob(r, "active", w)
  /\ worker' = [worker EXCEPT ![w] = [phase |-> "taken", run |-> r, token |-> 0]]
  /\ UNCHANGED <<storeVars, closing, dispatchVars, enqueued, faults>>

\* process(): nothing to claim (or the signal is already aborted) ends the job.
ClaimRun(w) ==
  LET r == worker[w].run IN
  /\ worker[w].phase = "taken"
  /\ \/ /\ closing[w] # "cancelled"
        /\ Claim(r)
        /\ worker' = [worker EXCEPT ![w].phase = "running", ![w].token = claim'[r]]
     \/ /\ closing[w] = "cancelled" \/ ~Claimable(r)
        /\ SetWorker(w, "finishing")
        /\ UNCHANGED storeVars
  /\ UNCHANGED <<closing, queueVars, dispatchVars, faults>>

\* A store call of a claim holder: fenced out, it changes nothing.
Fenced(r, t, Operation) ==
  IF HoldsClaim(r, t) THEN Operation ELSE UNCHANGED storeVars

\* shouldRetry
BrokenRetryAllowed(t) == t <= MaximumAttempts
RetryAllowed(t) == t < MaximumAttempts

\* The store's answer may get lost after the commit: process() throws, and
\* the job fails although the transaction stands.
Then(w, phase) ==
  \/ SetWorker(w, phase) /\ UNCHANGED faults
  \/ SetWorker(w, "failing") /\ Fault

SettleSuccess(w) ==
  LET r == worker[w].run  t == worker[w].token IN
  /\ worker[w].phase = "running" /\ closing[w] # "cancelled"
  /\ Fenced(r, t, Complete(r, t, "succeeded"))
  /\ Then(w, "finishing")
  /\ UNCHANGED <<closing, queueVars, dispatchVars>>

SettleFailure(w, retryable) ==
  LET r == worker[w].run  t == worker[w].token IN
  /\ worker[w].phase = "running" /\ closing[w] # "cancelled"
  /\ ~(retryable /\ RetryAllowed(t))
  /\ Fenced(r, t, Complete(r, t, "failed"))
  /\ Then(w, "finishing")
  /\ UNCHANGED <<closing, queueVars, dispatchVars>>

SettleRetry(w) ==
  LET r == worker[w].run  t == worker[w].token IN
  /\ worker[w].phase = "running" /\ closing[w] # "cancelled"
  /\ RetryAllowed(t)
  /\ Fenced(r, t, ScheduleRetry(r, t))
  /\ Then(w, IF HoldsClaim(r, t) THEN "delaying" ELSE "finishing")
  /\ UNCHANGED <<closing, queueVars, dispatchVars>>

\* The signal is aborted: whatever the attempt returned, give the run back.
SettleAborted(w) ==
  LET r == worker[w].run  t == worker[w].token IN
  /\ worker[w].phase = "running" /\ closing[w] = "cancelled"
  /\ Fenced(r, t, ReleaseClaim(r, t))
  /\ Then(w, "finishing")
  /\ UNCHANGED <<closing, queueVars, dispatchVars>>

Settle(w) ==
  \/ SettleSuccess(w)
  \/ \E retryable \in BOOLEAN : SettleFailure(w, retryable)
  \/ SettleRetry(w)
  \/ SettleAborted(w)

\* A store call fails before its commit: the claim stays until its lease ends.
WorkerError(w) ==
  /\ worker[w].phase \in {"taken", "running"}
  /\ Fault
  /\ SetWorker(w, "failing")
  /\ UNCHANGED <<storeVars, closing, queueVars, dispatchVars>>

\* The job ends as its processor did, unless its lock was lost meanwhile.
FinishJob(w) ==
  LET r == worker[w].run  phase == worker[w].phase IN
  /\ phase \in {"finishing", "delaying", "failing"}
  /\ IF job[r].state = "active" /\ job[r].owner = w
     THEN SetJob(r, CASE phase = "finishing" -> "completed"
                      [] phase = "delaying"  -> "delayed"
                      [] phase = "failing"   -> "failed", NoWorker)
     ELSE UNCHANGED job
  /\ worker' = [worker EXCEPT ![w] = IdleWorker]
  /\ UNCHANGED <<storeVars, closing, dispatchVars, enqueued, faults>>

\* The worker is gone; the locks it held run out.
Vanish(w) ==
  /\ worker' = [worker EXCEPT ![w] = IdleWorker]
  /\ closing' = [closing EXCEPT ![w] = "no"]
  /\ job' = [r \in RunId |-> IF job[r].owner = w
                             THEN [job[r] EXCEPT !.owner = NoWorker] ELSE job[r]]
  /\ UNCHANGED <<storeVars, dispatchVars, enqueued>>

Crash(w) == worker[w].phase # "idle" /\ Fault /\ Vanish(w)

\* close(): stop taking jobs and wait for the active one.
StartShutdown(w) ==
  /\ closing[w] = "no"
  /\ Fault
  /\ closing' = [closing EXCEPT ![w] = "draining"]
  /\ UNCHANGED <<storeVars, worker, queueVars, dispatchVars>>

\* The grace period is over: release the claims, then abort the signals.
ReleaseActive(w) ==
  LET r == worker[w].run  t == worker[w].token IN
  /\ closing[w] = "draining" /\ worker[w].phase # "idle"
  /\ closing' = [closing EXCEPT ![w] = "released"]
  /\ IF worker[w].phase = "running"
     THEN Fenced(r, t, ReleaseClaim(r, t))
     ELSE UNCHANGED storeVars
  /\ UNCHANGED <<worker, queueVars, dispatchVars, faults>>

CancelJobs(w) ==
  /\ closing[w] = "released"
  /\ closing' = [closing EXCEPT ![w] = "cancelled"]
  /\ UNCHANGED <<storeVars, worker, queueVars, dispatchVars, faults>>

\* The process ends, drained or by force, and another takes its place.
Exit(w) ==
  /\ \/ closing[w] = "draining" /\ worker[w].phase = "idle"
     \/ closing[w] = "cancelled"
  /\ Vanish(w)
  /\ UNCHANGED faults

-----------------------------------------------------------------------------
(* The outbox relay *)

RelayOnly == UNCHANGED <<workerVars, recon>>

\* The messages the claim returns: available ones in order, those another
\* session has locked skipped, at most a batch.
RelayClaim(d, batch) ==
  /\ relay[d].phase = "idle"
  /\ batch # {} /\ Cardinality(batch) <= BatchSize
  /\ ClaimOutbox(batch)
  /\ relay' = [relay EXCEPT ![d] =
                 [phase |-> "working", at |-> Nowhere,
                  batch |-> {[run |-> r, token |-> outbox'[r].token,
                              queue |-> "unknown"] : r \in batch}]]
  /\ RelayOnly /\ UNCHANGED <<queueVars, faults>>

NextMessage(d, left) ==
  relay' = [relay EXCEPT ![d] =
              IF left = {} THEN IdleRelay
              ELSE [phase |-> "working", batch |-> left, at |-> Nowhere]]

RelayLook(d, m) ==
  /\ relay[d].phase = "working" /\ m \in relay[d].batch
  /\ relay' = [relay EXCEPT ![d] =
                 [phase |-> "enqueuing", batch |-> relay[d].batch \ {m},
                  at |-> [m EXCEPT !.queue = QueueState(m.run)]]]
  /\ RelayOnly /\ UNCHANGED <<storeVars, queueVars, faults>>

RelayEnqueue(d) ==
  /\ relay[d].phase = "enqueuing"
  /\ Enqueue(relay[d].at)
  /\ relay' = [relay EXCEPT ![d].phase = "marking", ![d].at.queue = "unknown"]
  /\ RelayOnly /\ UNCHANGED <<storeVars, faults>>

\* markPublished; if the claim was lost, release finds nothing to release.
RelayMark(d) ==
  LET m == relay[d].at IN
  /\ relay[d].phase = "marking"
  /\ \/ MarkPublished(m.run, m.token)
     \/ ~OwnsMessage(m.run, m.token) /\ UNCHANGED storeVars
  /\ NextMessage(d, relay[d].batch)
  /\ RelayOnly /\ UNCHANGED <<queueVars, faults>>

\* The enqueue or the mark fails: release the message for a later round.
RelayFails(d) ==
  LET m == relay[d].at IN
  /\ \/ /\ relay[d].phase = "enqueuing" /\ m.queue = "terminal" /\ Locked(m.run)
        /\ UNCHANGED faults
     \/ relay[d].phase \in {"enqueuing", "marking"} /\ Fault
  /\ \/ ReleaseMessage(m.run, m.token)
     \/ ~OwnsMessage(m.run, m.token) /\ UNCHANGED storeVars
  /\ NextMessage(d, relay[d].batch)
  /\ RelayOnly /\ UNCHANGED queueVars

-----------------------------------------------------------------------------
(* The reconciler *)

ReconcileOnly == UNCHANGED <<workerVars, relay>>

Stale(r) == status[r] \in Active /\ aged[r]

\* findRecoveryCandidates: the periodic loop takes stale runs, the manual
\* command may take every unfinished one.
CandidateOf(r) ==
  [run |-> r,
   activeLease |-> status[r] = "running" /\ ~aged[r],
   pendingOutbox |-> outbox[r].state # "published",
   queue |-> "unknown"]

SelectCandidates(d, mode) ==
  LET found == {r \in Backlog : mode = "all" \/ Stale(r)} IN
  /\ recon[d].phase = "idle"
  /\ found # {}
  /\ recon' = [recon EXCEPT ![d] =
                 [phase |-> "inspecting", at |-> Nowhere,
                  items |-> {CandidateOf(r) : r \in found}]]
  /\ ReconcileOnly /\ UNCHANGED <<storeVars, queueVars, faults>>

InspectJobs(d) ==
  /\ recon[d].phase = "inspecting"
  /\ recon' = [recon EXCEPT ![d].phase = "repairing",
                            ![d].items = {[i EXCEPT !.queue = QueueState(i.run)] : i \in @}]
  /\ ReconcileOnly /\ UNCHANGED <<storeVars, queueVars, faults>>

NextItem(d, left) ==
  recon' = [recon EXCEPT ![d] =
              IF left = {} THEN IdleRecon
              ELSE [phase |-> "repairing", items |-> left, at |-> Nowhere]]

Deferred(i) == i.activeLease /\ i.queue # "runnable"

\* An active lease without a job waits for its worker or its expiry.
DeferItem(d, i) ==
  /\ recon[d].phase = "repairing" /\ i \in recon[d].items
  /\ Deferred(i)
  /\ NextItem(d, recon[d].items \ {i})
  /\ ReconcileOnly /\ UNCHANGED <<storeVars, queueVars, faults>>

\* A run without a runnable job gets one, through `enqueue`, which looks again;
\* then its outbox message can be acknowledged.
ThenAcknowledge(d, i, left) ==
  IF i.pendingOutbox
  THEN recon' = [recon EXCEPT ![d] =
                   [phase |-> "acknowledging", items |-> left,
                    at |-> [i EXCEPT !.queue = "unknown"]]]
  ELSE NextItem(d, left)

RepairItem(d, i) ==
  /\ recon[d].phase = "repairing" /\ i \in recon[d].items
  /\ ~Deferred(i)
  /\ IF i.queue = "runnable"
     THEN ThenAcknowledge(d, i, recon[d].items \ {i})
     ELSE recon' = [recon EXCEPT ![d] =
                      [phase |-> "enqueuing", items |-> recon[d].items \ {i},
                       at |-> [i EXCEPT !.queue = QueueState(i.run)]]]
  /\ ReconcileOnly /\ UNCHANGED <<storeVars, queueVars, faults>>

EnqueueItem(d) ==
  /\ recon[d].phase = "enqueuing"
  /\ Enqueue(recon[d].at)
  /\ ThenAcknowledge(d, recon[d].at, recon[d].items)
  /\ ReconcileOnly /\ UNCHANGED <<storeVars, faults>>

AcknowledgeItem(d) ==
  LET r == recon[d].at.run IN
  /\ recon[d].phase = "acknowledging"
  /\ \/ AcknowledgeOutbox(r)
     \/ ~Acknowledgeable(r) /\ UNCHANGED storeVars
  /\ NextItem(d, recon[d].items)
  /\ ReconcileOnly /\ UNCHANGED <<queueVars, faults>>

\* The queue or the store fails: the item is skipped and counted as failed.
SkipItem(d) ==
  LET i == recon[d].at IN
  /\ \/ /\ recon[d].phase = "enqueuing" /\ i.queue = "terminal" /\ Locked(i.run)
        /\ UNCHANGED faults
     \/ recon[d].phase \in {"enqueuing", "acknowledging"} /\ Fault
  /\ NextItem(d, recon[d].items)
  /\ ReconcileOnly /\ UNCHANGED <<storeVars, queueVars>>

\* A round ends early: the store fails outside the per-item handling, or the
\* dispatcher process dies (both loops).
DispatcherStops(d) ==
  /\ Fault
  /\ \/ relay[d].phase # "idle" /\ relay' = [relay EXCEPT ![d] = IdleRelay]
        /\ UNCHANGED recon
     \/ recon[d].phase # "idle" /\ recon' = [recon EXCEPT ![d] = IdleRecon]
        /\ UNCHANGED relay
     \/ /\ relay[d].phase # "idle" /\ recon[d].phase # "idle"
        /\ relay' = [relay EXCEPT ![d] = IdleRelay]
        /\ recon' = [recon EXCEPT ![d] = IdleRecon]
  /\ UNCHANGED <<storeVars, queueVars, workerVars>>

-----------------------------------------------------------------------------
(* The system *)

QueueStep ==
  \/ \E r \in RunId : \/ PromoteDelayed(r) \/ StallCheck(r)
                      \/ RemoveFinishedJob(r) \/ LoseLock(r)
  \/ FlushQueue

WorkerStep(w) ==
  \/ \E r \in RunId : TakeJob(w, r)
  \/ ClaimRun(w) \/ Settle(w) \/ WorkerError(w) \/ FinishJob(w) \/ Crash(w)
  \/ StartShutdown(w) \/ ReleaseActive(w) \/ CancelJobs(w) \/ Exit(w)

RelayStep(d) ==
  \/ \E batch \in SUBSET RunId : RelayClaim(d, batch)
  \/ \E m \in relay[d].batch : RelayLook(d, m)
  \/ RelayEnqueue(d) \/ RelayMark(d) \/ RelayFails(d)

ReconcileStep(d) ==
  \/ \E mode \in RecoveryModes : SelectCandidates(d, mode)
  \/ InspectJobs(d)
  \/ \E i \in recon[d].items : DeferItem(d, i) \/ RepairItem(d, i)
  \/ EnqueueItem(d) \/ AcknowledgeItem(d) \/ SkipItem(d)

StoreStep ==
  /\ \/ \E a \in Api : Accept(a)
     \/ \E r \in RunId : OutboxLeaseExpires(r) \/ Age(r) \/ DeleteRun(r)
     \/ \E e \in Endpoint : ProvisionEndpoint(e) \/ DisableEndpoint(e)
  /\ UNCHANGED <<queueVars, workerVars, dispatchVars, faults>>

SystemNext ==
  \/ StoreStep
  \/ QueueStep
  \/ \E w \in Worker : WorkerStep(w)
  \/ \E d \in Dispatcher : RelayStep(d) \/ ReconcileStep(d) \/ DispatcherStops(d)

SystemSpec == SystemInit /\ [][SystemNext]_systemVars

\* What the code and BullMQ keep doing: loops are rescheduled after every
\* round, BullMQ delivers waiting jobs, promotes delayed ones and checks for
\* stalled ones, attempts end (the runner has a time limit), and time passes.
\* Nothing here is assumed of callers, faults or retention.
WorkerProgress(w) ==
  \/ \E r \in RunId : TakeJob(w, r)
  \/ ClaimRun(w) \/ Settle(w) \/ FinishJob(w)
  \/ ReleaseActive(w) \/ CancelJobs(w) \/ Exit(w)

ReconcileProgress(d) ==
  \/ SelectCandidates(d, "stale") \/ InspectJobs(d)
  \/ \E i \in recon[d].items : DeferItem(d, i) \/ RepairItem(d, i)
  \/ EnqueueItem(d) \/ AcknowledgeItem(d) \/ (SkipItem(d) /\ UNCHANGED faults)

RelayProgress(d) ==
  \/ \E batch \in SUBSET RunId : RelayClaim(d, batch)
  \/ \E m \in relay[d].batch : RelayLook(d, m)
  \/ RelayEnqueue(d) \/ RelayMark(d) \/ (RelayFails(d) /\ UNCHANGED faults)

TimePasses(r) ==
  /\ \/ status[r] \in Active /\ Age(r)
     \/ OutboxLeaseExpires(r)
  /\ UNCHANGED <<queueVars, workerVars, dispatchVars, faults>>

Fairness ==
  /\ \A r \in RunId : /\ WF_systemVars(PromoteDelayed(r))
                       /\ WF_systemVars(StallCheck(r))
                       /\ WF_systemVars(TimePasses(r))
  /\ \A w \in Worker : WF_systemVars(WorkerProgress(w))
  /\ \A d \in Dispatcher : /\ WF_systemVars(RelayProgress(d))
                            /\ WF_systemVars(ReconcileProgress(d))

FairSystemSpec == SystemSpec /\ Fairness

-----------------------------------------------------------------------------
(* What the system promises *)

\* A worker that executes an attempt either holds the run's claim or its
\* attempt is on record as abandoned (or retention has deleted the run): two
\* workers may execute one run at once, but only one of them can still settle.
OvertakenIsAbandoned ==
  \A w \in Worker : worker[w].phase = "running" =>
    LET r == worker[w].run  t == worker[w].token IN
    \/ status[r] = "deleted"
    \/ claim[r] = t
    \/ t <= Len(attempts[r]) /\ attempts[r][t] = "abandoned"

\* An attempt is recorded as succeeded or failed only by the worker that
\* executed it: a slow worker, a duplicated job or a worker resumed after its
\* lease was taken over never settles someone else's attempt.
OnlyOwnAttempt ==
  [][\A r \in RunId : \A n \in 1..Len(attempts[r]) :
       attempts[r][n] = "running" /\ n <= Len(attempts'[r])
         /\ attempts'[r][n] \in {"succeeded", "failed"}
       => \E w \in Worker :
            /\ worker[w] = [phase |-> "running", run |-> r, token |-> n]
            /\ worker'[w].phase # "running"]_systemVars

\* An outbox message is marked published only after a job for its run was in
\* the queue: neither the relay nor the reconciler, interrupted anywhere,
\* confirms a message whose job was never added.
PublishedMeansEnqueued ==
  \A r \in RunId : outbox[r].state = "published" => enqueued[r]

\* The registration's retry policy bounds the failures that are retried,
\* however many attempts crashes and shutdowns abandon in between.
RetriesWithinPolicy ==
  \A r \in RunId : \A n \in RetriedAttempts(r) : n < MaximumAttempts

\* Every accepted run reaches an outcome, in spite of crashes, shutdowns,
\* lost locks, lost replies and a queue that loses all its jobs.
EveryRunFinishes ==
  \A r \in RunId : status[r] \in Active ~> status[r] \notin Active

\* Every outbox message is eventually settled.
OutboxDrains ==
  \A r \in RunId :
    outbox[r].state \in {"pending", "claimed", "overdue"}
      ~> outbox[r].state \in {"published", "none"}

\* The queue, the workers and the two loops, at every moment: the store's rows
\* stay well formed, a worker that lost its run is on record as having lost it,
\* no confirmed message lacks its job, and retries stay within the policy.
SystemConsistent ==
  SystemTypeOK /\ OvertakenIsAbandoned /\ PublishedMeansEnqueued /\ RetriesWithinPolicy
=============================================================================
