-------------------------- MODULE AgentTurnDelivery --------------------------
(***************************************************************************)
(* How an accepted turn reaches an agent worker and is answered: the       *)
(* outbox of the agent conversations, the dispatcher process with its      *)
(* relay and its reconciler (two independent loops), the BullMQ queue (one *)
(* job per turn, the turn id is the job id), and the worker processes.     *)
(* The store's transactions are those of AgentConversationStore.           *)
(*                                                                         *)
(* Unlike the process-run service, nobody acknowledges a message for the   *)
(* relay, a released turn's job is completed and not delayed, and only the *)
(* reconciler ever gives such a turn a job again.                          *)
(*                                                                         *)
(* The model starts with every turn accepted, the first of its             *)
(* conversation.  A queued turn is old enough for the reconciler whenever  *)
(* the reconciler takes it.                                                *)
(***************************************************************************)
EXTENDS AgentConversationStore

CONSTANTS
  AcceptedTurn,     \* per key: the conversation it opened and its first turn
  Worker,           \* worker processes of concurrency 1
  Nobody,           \* not a member of Worker
  MaxStalledCount,  \* BullMQ's maxStalledCount
  BatchSize,        \* of the relay's claim
  RecoveryBatchSize,\* of findRecoverable
  FaultBound        \* bound: crashes, shutdowns, errors, lost locks, ...

ASSUME AcceptedAssumption ==
  /\ Input # {}
  /\ AcceptedTurn \in [Key -> [conversation : ConversationId, turn : TurnId]]
  /\ \A t \in TurnId : \E k \in Key : AcceptedTurn[k].turn = t
  /\ \A c \in ConversationId : \E k \in Key : AcceptedTurn[k].conversation = c
  /\ \A j, k \in Key : j # k => /\ AcceptedTurn[j].turn # AcceptedTurn[k].turn
                                /\ AcceptedTurn[j].conversation # AcceptedTurn[k].conversation

ASSUME DeliveryAssumption ==
  /\ IsFiniteSet(TurnId)
  /\ Nobody \notin Worker
  /\ MaxStalledCount \in Nat \ {0} /\ FaultBound \in Nat
  /\ BatchSize \in Nat \ {0} /\ RecoveryBatchSize \in Nat \ {0}

VARIABLES
  message,   \* per turn: its outbox row's claim; outbox[t] has published_at
  job,       \* per turn: its BullMQ job
  worker,    \* per worker: the job it processes and its claim
  closing,   \* per worker: how far its shutdown has come
  relay,     \* the dispatcher's outbox loop
  recon,     \* the dispatcher's reconciliation loop
  enqueued,  \* turns a job was ever added for (history)
  orphaned,  \* turns whose worker crashed or met an error (history)
  faults     \* faults so far

loopVars == <<relay, recon>>
workerVars == <<worker, closing>>
history == <<orphaned, enqueued>>
deliveryVars == <<storeVars, message, job, workerVars, loopVars, history, faults>>

ClaimNumber == 1..(Cardinality(TurnId) + 1)
Message == [token : {0} \cup ClaimNumber, over : BOOLEAN]
Unclaimed == [token |-> 0, over |-> FALSE]
RunnableStates == {"waiting", "active"}
Job == [state : RunnableStates \cup {"missing", "completed", "failed"},
        owner : Worker \cup {Nobody}, stalls : 0..MaxStalledCount]
NoJob == [state |-> "missing", owner |-> Nobody, stalls |-> 0]
NewJob == [NoJob EXCEPT !.state = "waiting"]
IdleWorker == [phase |-> "idle", turn |-> None, token |-> 0]

\* What `enqueue` last saw of the job it looked up.
Seen == {"unknown", "missing", "terminal", "runnable"}
IdleLoop == [phase |-> "idle", batch |-> {}, at |-> None, saw |-> "unknown"]
Loop(phases, items) ==
  [phase : phases, batch : SUBSET items, at : items \cup {None}, saw : Seen]
ClaimedMessage == [turn : TurnId, token : Nat]
Inspected == [turn : TurnId, queue : Seen]

DeliveryTypeOK ==
  /\ TypeOK
  /\ message \in [TurnId -> Message]
  /\ job \in [TurnId -> Job]
  /\ worker \in [Worker -> [phase : {"idle", "taken", "running", "done", "threw"},
                            turn : TurnId \cup {None}, token : 0..AttemptBound]]
  /\ closing \in [Worker -> {"no", "draining", "released", "cancelled", "forced"}]
  /\ relay \in Loop({"idle", "working", "enqueuing", "marking", "releasing"}, ClaimedMessage)
  /\ recon \in Loop({"idle", "inspecting", "repairing", "enqueuing"}, Inspected)
  /\ enqueued \subseteq TurnId /\ orphaned \subseteq TurnId
  /\ faults \in 0..FaultBound

AcceptedBy(t) == CHOOSE k \in Key : AcceptedTurn[k].turn = t
Opening == [conversation |-> None, after |-> None, input |-> CHOOSE i \in Input : TRUE]

DeliveryInit ==
  /\ conversation = [c \in ConversationId |->
       LET k == CHOOSE k \in Key : AcceptedTurn[k].conversation = c
       IN [status |-> "busy", owner |-> KeyOwner[k]]]
  /\ turn = [t \in TurnId |->
       [NoTurn EXCEPT !.status = "queued", !.sequence = 1,
                      !.conversation = AcceptedTurn[AcceptedBy(t)].conversation]]
  /\ operation = [k \in Key |-> [fingerprint |-> Opening, turn |-> AcceptedTurn[k].turn]]
  /\ outbox = [t \in TurnId |-> "open"]
  /\ due = [c \in ConversationId |-> FALSE]
  /\ leaseOver = [t \in TurnId |-> FALSE]
  /\ attempts = [t \in TurnId |-> <<>>]
  /\ invocation = [t \in TurnId |-> [n \in Ordinal |-> NoInvocation]]
  /\ session = [s \in Session |-> IdleSession]
  /\ message = [t \in TurnId |-> Unclaimed]
  /\ job = [t \in TurnId |-> NoJob]
  /\ worker = [w \in Worker |-> IdleWorker]
  /\ closing = [w \in Worker |-> "no"]
  /\ relay = IdleLoop /\ recon = IdleLoop
  /\ enqueued = {} /\ orphaned = {}
  /\ faults = 0

Fault == faults < FaultBound /\ faults' = faults + 1

-----------------------------------------------------------------------------
(* The queue *)

SetJob(t, state, owner) == job' = [job EXCEPT ![t].state = state, ![t].owner = owner]

BrokenQueueState(t) == IF job[t].state = "missing" THEN "missing" ELSE "runnable"
QueueState(t) ==
  CASE job[t].state = "missing"               -> "missing"
    [] job[t].state \in RunnableStates        -> "runnable"
    [] job[t].state \in {"completed", "failed"} -> "terminal"

Locked(t) == job[t].state = "active" /\ job[t].owner # Nobody

\* The rest of `enqueue`, after it saw the job as `saw`: a job that may still
\* run is a duplicate; a finished one is removed and added again; adding a job
\* that exists by now changes nothing.
Enqueue(t, saw) ==
  /\ saw = "terminal" => ~Locked(t)
  /\ job' = IF saw = "terminal" \/ (saw = "missing" /\ job[t].state = "missing")
            THEN [job EXCEPT ![t] = NewJob] ELSE job
  /\ enqueued' = enqueued \cup {t}

\* remove() throws: a worker has locked the job since.
RemoveThrows(t, saw) == saw = "terminal" /\ Locked(t)

QueueOnly == UNCHANGED <<storeVars, message, workerVars, loopVars, history>>

\* The lock of an active job has run out: run it again, but only so often.
StallCheck(t) ==
  /\ job[t].state = "active" /\ job[t].owner = Nobody
  /\ IF job[t].stalls < MaxStalledCount
     THEN job' = [job EXCEPT ![t] = [NewJob EXCEPT !.stalls = job[t].stalls + 1]]
     ELSE SetJob(t, "failed", Nobody)
  /\ QueueOnly /\ UNCHANGED faults

\* removeOnComplete / removeOnFail
RemoveFinishedJob(t) ==
  /\ job[t].state \in {"completed", "failed"}
  /\ job' = [job EXCEPT ![t] = NoJob]
  /\ QueueOnly /\ UNCHANGED faults

\* Redis loses its data, or a worker too slow to renew its job's lock goes on
\* without it.
RedisFault ==
  /\ Fault
  /\ \/ job' = [t \in TurnId |-> NoJob]
     \/ \E t \in TurnId : Locked(t) /\ SetJob(t, "active", Nobody)
  /\ QueueOnly

-----------------------------------------------------------------------------
(* Workers *)

WorkerOnly == UNCHANGED <<message, loopVars, enqueued>>
SetWorker(w, phase) == worker' = [worker EXCEPT ![w].phase = phase]
Orphan(w) ==
  LET t == worker[w].turn IN
  orphaned' = IF worker[w].phase = "running" /\ HoldsClaim(t, worker[w].token)
              THEN orphaned \cup {t} ELSE orphaned
Aborted(w) == closing[w] \in {"cancelled", "forced"}

TakeJob(w, t) ==
  /\ worker[w].phase = "idle" /\ closing[w] = "no"
  /\ job[t].state = "waiting"
  /\ SetJob(t, "active", w)
  /\ worker' = [worker EXCEPT ![w] = [phase |-> "taken", turn |-> t, token |-> 0]]
  /\ WorkerOnly /\ UNCHANGED <<storeVars, closing, orphaned, faults>>

\* claim() finds no row, or expires the conversation instead.
NothingToClaim(t) ==
  LET c == turn[t].conversation IN
  \/ c # None /\ RowFree(c) /\ ExpireIfDue(c) /\ UNCHANGED session
  \/ /\ c # None => RowFree(c) /\ (Live(c) => ~due[c] /\ ~Claimable(t))
     /\ UNCHANGED storeVars

\* process() up to the agent's start.
ClaimTurn(w) ==
  LET t == worker[w].turn  c == turn[t].conversation IN
  /\ worker[w].phase = "taken"
  /\ \/ Aborted(w) /\ SetWorker(w, "done") /\ UNCHANGED storeVars
     \/ ~Aborted(w) /\ NothingToClaim(t) /\ SetWorker(w, "done")
     \/ /\ ~Aborted(w) /\ c # None /\ Usable(c) /\ Claim(t)
        /\ worker' = [worker EXCEPT ![w].phase = "running",
                                    ![w].token = turn'[t].claim]
  /\ orphaned' = IF turn'[t].status = "running" /\ turn'[t] # turn[t]
                 THEN orphaned \ {t} ELSE orphaned
  /\ WorkerOnly /\ UNCHANGED <<job, closing, faults>>

\* The rest of process(): an aborted signal gives the turn back, whatever the
\* agent answered; otherwise the answer is stored.
BrokenSettle(w) ==
  LET t == worker[w].turn  token == worker[w].token IN
  \/ Aborted(w) /\ UNCHANGED storeVars
  \/ \E status \in TerminalStatus :
       CompleteClaim(t, token, status, IF status = "failed" THEN "OTHER" ELSE None)
  \/ TooLate(t, token) /\ UNCHANGED storeVars
Settle(w) ==
  LET t == worker[w].turn  token == worker[w].token IN
  \/ Aborted(w) /\ ReleaseClaim(t, token)
  \/ /\ ~Aborted(w)
     /\ \E status \in TerminalStatus :
          CompleteClaim(t, token, status, IF status = "failed" THEN "OTHER" ELSE None)
  \/ TooLate(t, token) /\ UNCHANGED storeVars

SettleTurn(w) ==
  /\ worker[w].phase = "running"
  /\ Settle(w)
  /\ SetWorker(w, "done")
  /\ WorkerOnly /\ UNCHANGED <<job, closing, orphaned, faults>>

\* The store fails, before or after its commit: process() throws.
StoreFails(w) ==
  /\ worker[w].phase \in {"taken", "running"}
  /\ Fault
  /\ \/ UNCHANGED storeVars /\ Orphan(w)
     \/ worker[w].phase = "running" /\ Settle(w) /\ Orphan(w)
     \/ /\ worker[w].phase = "taken" /\ Claim(worker[w].turn)
        /\ orphaned' = orphaned \cup {worker[w].turn}
  /\ SetWorker(w, "threw")
  /\ WorkerOnly /\ UNCHANGED <<job, closing>>

\* The job ends as its processor did, unless its lock was lost meanwhile.
FinishJob(w) ==
  LET t == worker[w].turn IN
  /\ worker[w].phase \in {"done", "threw"}
  /\ IF job[t].state = "active" /\ job[t].owner = w
     THEN SetJob(t, IF worker[w].phase = "done" THEN "completed" ELSE "failed", Nobody)
     ELSE UNCHANGED job
  /\ worker' = [worker EXCEPT ![w] = IdleWorker]
  /\ WorkerOnly /\ UNCHANGED <<storeVars, closing, orphaned, faults>>

\* The process is gone and another takes its place; its locks run out.
Vanish(w) ==
  /\ worker' = [worker EXCEPT ![w] = IdleWorker]
  /\ closing' = [closing EXCEPT ![w] = "no"]
  /\ job' = [t \in TurnId |-> IF job[t].owner = w
                              THEN [job[t] EXCEPT !.owner = Nobody] ELSE job[t]]
  /\ WorkerOnly /\ UNCHANGED storeVars

Crash(w) ==
  /\ worker[w].phase # "idle"
  /\ Fault
  /\ Vanish(w)
  /\ Orphan(w)

\* close(): no new job; wait for the active one.
StartShutdown(w) ==
  /\ closing[w] = "no"
  /\ Fault
  /\ closing' = [closing EXCEPT ![w] = "draining"]
  /\ WorkerOnly /\ UNCHANGED <<storeVars, worker, job, orphaned>>

\* The grace period is over: release the claim, if it is in activeClaims.
ReleaseActive(w) ==
  LET t == worker[w].turn  token == worker[w].token IN
  /\ closing[w] = "draining" /\ worker[w].phase # "idle"
  /\ closing' = [closing EXCEPT ![w] = "released"]
  /\ \/ worker[w].phase = "running" /\ ReleaseClaim(t, token)
     \/ worker[w].phase = "running" /\ TooLate(t, token) /\ UNCHANGED storeVars
     \/ worker[w].phase # "running" /\ UNCHANGED storeVars
  /\ WorkerOnly /\ UNCHANGED <<worker, job, orphaned, faults>>

\* releaseActive rejects: the jobs are cancelled, and the close is forced.
ReleaseActiveFails(w) ==
  /\ closing[w] = "draining" /\ worker[w].phase = "running"
  /\ closing' = [closing EXCEPT ![w] = "forced"]
  /\ WorkerOnly /\ UNCHANGED <<storeVars, worker, job, orphaned, faults>>

\* cancelAllJobs aborts the signals; the second grace period begins.
CancelJobs(w) ==
  /\ closing[w] = "released"
  /\ closing' = [closing EXCEPT ![w] = "cancelled"]
  /\ WorkerOnly /\ UNCHANGED <<storeVars, worker, job, orphaned, faults>>

\* The process ends, drained or by force.
Exit(w) ==
  /\ \/ closing[w] # "no" /\ worker[w].phase = "idle"
        /\ UNCHANGED orphaned
     \/ closing[w] \in {"cancelled", "forced"} /\ worker[w].phase # "idle"
        /\ Orphan(w)
  /\ Vanish(w)
  /\ UNCHANGED faults

-----------------------------------------------------------------------------
(* The relay (dispatchOnce) *)

BrokenMessageFree(t) == outbox[t] = "open" /\ message[t].token = 0
MessageFree(t) == outbox[t] = "open" /\ (message[t].token = 0 \/ message[t].over)
OwnsMessage(m) == outbox[m.turn] = "open" /\ message[m.turn].token = m.token

RelayOnly == UNCHANGED <<workerVars, recon, orphaned>>

\* A round draws a token that no row holds.
NextToken == CHOOSE n \in ClaimNumber : \A t \in TurnId : message[t].token # n

RelayClaim(batch) ==
  /\ relay.phase = "idle"
  /\ batch # {} /\ Cardinality(batch) <= BatchSize
  /\ \A t \in batch : MessageFree(t)
  /\ message' = [t \in TurnId |-> IF t \in batch
                   THEN [token |-> NextToken, over |-> FALSE] ELSE message[t]]
  /\ relay' = [IdleLoop EXCEPT !.phase = "working",
                 !.batch = {[turn |-> t, token |-> NextToken] : t \in batch}]
  /\ RelayOnly /\ UNCHANGED <<storeVars, job, enqueued, faults>>

NextMessage == relay' = IF relay.batch = {} THEN IdleLoop
                        ELSE [IdleLoop EXCEPT !.phase = "working", !.batch = relay.batch]

\* enqueue: getJob and getState
RelayLook(m) ==
  /\ relay.phase = "working" /\ m \in relay.batch
  /\ relay' = [phase |-> "enqueuing", batch |-> relay.batch \ {m}, at |-> m,
               saw |-> QueueState(m.turn)]
  /\ RelayOnly /\ UNCHANGED <<storeVars, message, job, enqueued, faults>>

RelayEnqueue ==
  /\ relay.phase = "enqueuing"
  /\ Enqueue(relay.at.turn, relay.saw)
  /\ relay' = [relay EXCEPT !.phase = "marking", !.saw = "unknown"]
  /\ RelayOnly /\ UNCHANGED <<storeVars, message, faults>>

\* markPublished; a lost claim is an error that leads to release.
RelayMark ==
  LET m == relay.at IN
  /\ relay.phase = "marking"
  /\ IF OwnsMessage(m)
     THEN /\ outbox' = [outbox EXCEPT ![m.turn] = "sealed"]
          /\ message' = [message EXCEPT ![m.turn] = Unclaimed]
          /\ NextMessage
     ELSE relay' = [relay EXCEPT !.phase = "releasing"] /\ UNCHANGED <<outbox, message>>
  /\ RelayOnly
  /\ UNCHANGED <<conversationVars, turnVars, operation, invocation, session,
                 job, enqueued, faults>>

\* The queue or the store fails in the loop's `try`.
BrokenRelayFails ==
  /\ relay.phase \in {"enqueuing", "marking"} /\ Fault
  /\ relay' = [relay EXCEPT !.phase = "marking", !.saw = "unknown"]
  /\ RelayOnly /\ UNCHANGED <<storeVars, message, job, enqueued>>
RelayFails ==
  /\ \/ relay.phase = "enqueuing" /\ RemoveThrows(relay.at.turn, relay.saw)
        /\ UNCHANGED faults
     \/ relay.phase \in {"enqueuing", "marking"} /\ Fault
  /\ relay' = [relay EXCEPT !.phase = "releasing", !.saw = "unknown"]
  /\ RelayOnly /\ UNCHANGED <<storeVars, message, job, enqueued>>

RelayRelease ==
  LET m == relay.at IN
  /\ relay.phase = "releasing"
  /\ message' = IF OwnsMessage(m) THEN [message EXCEPT ![m.turn] = Unclaimed] ELSE message
  /\ NextMessage
  /\ RelayOnly /\ UNCHANGED <<storeVars, job, enqueued, faults>>

\* release itself fails: dispatchOnce rejects, and the rest of the batch stays
\* claimed until the lease is over.
RelayRoundEnds ==
  /\ relay.phase = "releasing"
  /\ Fault
  /\ relay' = IdleLoop
  /\ RelayOnly /\ UNCHANGED <<storeVars, message, job, enqueued>>

MessageLeaseEnds(t) ==
  /\ message[t].token # 0 /\ ~message[t].over /\ outbox[t] = "open"
  /\ message' = [message EXCEPT ![t].over = TRUE]
  /\ UNCHANGED <<storeVars, job, workerVars, loopVars, history>>

-----------------------------------------------------------------------------
(* The reconciler (reconcileOnce) *)

ReconcileOnly == UNCHANGED <<message, workerVars, relay, orphaned>>

\* findRecoverable
Recoverable(t) ==
  /\ Usable(turn[t].conversation)
  /\ turn[t].status = "queued" \/ (turn[t].status = "running" /\ leaseOver[t])

SelectCandidates(found) ==
  /\ recon.phase = "idle"
  /\ found # {} /\ Cardinality(found) <= RecoveryBatchSize
  /\ \A t \in found : turn[t].conversation # None /\ Recoverable(t)
  /\ recon' = [IdleLoop EXCEPT !.phase = "inspecting",
                 !.batch = {[turn |-> t, queue |-> "unknown"] : t \in found}]
  /\ ReconcileOnly /\ UNCHANGED <<storeVars, job, enqueued, faults>>

\* inspectJobs, once for the whole batch
InspectJobs ==
  /\ recon.phase = "inspecting"
  /\ recon' = [recon EXCEPT !.phase = "repairing",
                 !.batch = {[i EXCEPT !.queue = QueueState(i.turn)] : i \in @}]
  /\ ReconcileOnly /\ UNCHANGED <<storeVars, job, enqueued, faults>>

NextItem(left) == recon' = IF left = {} THEN IdleLoop
                           ELSE [IdleLoop EXCEPT !.phase = "repairing", !.batch = left]

\* A runnable job is left alone; any other gets `enqueue`, which looks again.
RepairItem(i) ==
  /\ recon.phase = "repairing" /\ i \in recon.batch
  /\ IF i.queue = "runnable" THEN NextItem(recon.batch \ {i})
     ELSE recon' = [phase |-> "enqueuing", batch |-> recon.batch \ {i}, at |-> i,
                    saw |-> QueueState(i.turn)]
  /\ ReconcileOnly /\ UNCHANGED <<storeVars, job, enqueued, faults>>

EnqueueItem ==
  /\ recon.phase = "enqueuing"
  /\ \/ Enqueue(recon.at.turn, recon.saw) /\ UNCHANGED faults
     \/ RemoveThrows(recon.at.turn, recon.saw) /\ UNCHANGED <<job, enqueued, faults>>
     \/ Fault /\ UNCHANGED <<job, enqueued>>
  /\ NextItem(recon.batch)
  /\ ReconcileOnly /\ UNCHANGED storeVars

\* findRecoverable or inspectJobs fails, or the dispatcher process dies (both
\* loops): the next round starts over.
DispatcherStops ==
  /\ Fault
  /\ \/ recon.phase = "inspecting" /\ recon' = IdleLoop /\ UNCHANGED relay
     \/ <<relay, recon>> # <<IdleLoop, IdleLoop>> /\ relay' = IdleLoop /\ recon' = IdleLoop
  /\ UNCHANGED <<storeVars, message, job, workerVars, history>>

-----------------------------------------------------------------------------
(* The system *)

\* The conversation is deleted, or its deadline passes and somebody notices.
CallerStep ==
  /\ \E c \in ConversationId : Delete(c) \/ DeadlinePasses(c) \/ Read(c)
  /\ UNCHANGED <<message, job, workerVars, loopVars, history, faults>>

\* A worker is done long before its lease ends (the turn's time limit is
\* shorter), unless its process is paused.
Working(t) == \E w \in Worker : /\ worker[w].phase = "running"
                                /\ worker[w].turn = t /\ worker[w].token = turn[t].claim
TurnLeaseEnds(t) ==
  /\ LeaseEnds(t)
  /\ IF Working(t) THEN Fault ELSE UNCHANGED faults
  /\ UNCHANGED <<message, job, workerVars, loopVars, history>>

\* Likewise for the relay's claim of a batch.
Relaying(t) == \E m \in relay.batch \cup {relay.at} :
                 m # None /\ m.turn = t /\ m.token = message[t].token
RelayLeaseEnds(t) ==
  /\ MessageLeaseEnds(t)
  /\ IF Relaying(t) THEN Fault ELSE UNCHANGED faults

WorkerStep(w) ==
  \/ \E t \in TurnId : TakeJob(w, t)
  \/ ClaimTurn(w) \/ SettleTurn(w) \/ FinishJob(w)
  \/ ReleaseActive(w) \/ CancelJobs(w) \/ Exit(w)
WorkerFault(w) ==
  StoreFails(w) \/ Crash(w) \/ StartShutdown(w) \/ ReleaseActiveFails(w)

RelayStep ==
  \/ \E batch \in SUBSET TurnId : RelayClaim(batch)
  \/ \E m \in relay.batch : RelayLook(m)
  \/ RelayEnqueue \/ RelayMark \/ RelayRelease
  \/ RelayFails

ReconcileStep ==
  \/ \E found \in SUBSET TurnId : SelectCandidates(found)
  \/ InspectJobs
  \/ \E i \in recon.batch : RepairItem(i)
  \/ EnqueueItem

DeliveryNext ==
  \/ CallerStep
  \/ \E t \in TurnId : \/ StallCheck(t) \/ RemoveFinishedJob(t)
                       \/ TurnLeaseEnds(t) \/ RelayLeaseEnds(t)
  \/ \E w \in Worker : WorkerStep(w) \/ WorkerFault(w)
  \/ RelayStep \/ RelayRoundEnds \/ ReconcileStep \/ DispatcherStops \/ RedisFault

DeliverySpec == DeliveryInit /\ [][DeliveryNext]_deliveryVars

\* What goes on by itself: both loops are rescheduled after every round, BullMQ
\* hands out waiting jobs and checks for stalled ones, an agent's answer is
\* bounded by the turn's time limit, supervisors restart processes, and time
\* passes.  Nothing is assumed of callers, of retention or of faults.
DeliveryFairness ==
  /\ \A t \in TurnId : /\ WF_deliveryVars(StallCheck(t))
                       /\ WF_deliveryVars(UNCHANGED faults /\ TurnLeaseEnds(t))
                       /\ WF_deliveryVars(UNCHANGED faults /\ RelayLeaseEnds(t))
  /\ \A w \in Worker : WF_deliveryVars(WorkerStep(w))
  /\ WF_deliveryVars(UNCHANGED faults /\ RelayStep)
  /\ WF_deliveryVars(UNCHANGED faults /\ ReconcileStep)
FairDeliverySpec == DeliverySpec /\ DeliveryFairness

-----------------------------------------------------------------------------
(* Properties *)

\* A claim is held by the worker that works on it: every way out of process()
\* and every shutdown gives the turn back or answers it, so that a turn waits
\* for the end of a lease only after a crash, a forced exit or a failing store.
ClaimsAreNotDropped ==
  \A t \in TurnId :
    turn[t].status = "running" => Working(t) \/ t \in orphaned

\* A message counts as published only once a job for its turn was added, or
\* its conversation is over: no interruption of the relay confirms too early.
PublishedMeansEnqueued ==
  \A t \in TurnId :
    outbox[t] = "sealed" => t \in enqueued \/ ~Live(turn[t].conversation)

\* Every accepted turn is answered, whatever crashes, shutdowns, lost locks,
\* failing stores or lost queues come in between, unless its conversation is
\* deleted or reaches its deadline first.
EveryTurnIsAnswered ==
  \A t \in TurnId :
    Pending(t) ~> ~Pending(t) \/ due[turn[t].conversation]

\* Every outbox message is published or closed with its conversation.
OutboxDrains == \A t \in TurnId : outbox[t] = "open" ~> outbox[t] = "sealed"

\* A turn's claim, its jobs and its message agree: no interruption of a worker,
\* of the relay or of the reconciler loses a turn between two of them.
TurnsConsistent == DeliveryTypeOK /\ ClaimsAreNotDropped /\ PublishedMeansEnqueued

\* Under the fairness above, no accepted turn and no message waits for ever.
NothingWaitsForEver == EveryTurnIsAnswered /\ OutboxDrains
=============================================================================
