--------------------------- MODULE WebhookDelivery ---------------------------
(***************************************************************************)
(* Webhook notifications: the delivery rows and their outbox messages in   *)
(* PostgreSQL, the BullMQ queue (the delivery id is the job id), the       *)
(* webhook workers, and the relay loop each webhook process runs.          *)
(*                                                                         *)
(* Claim tokens are fresh UUIDs; a delivery's token is named here by the   *)
(* attempt it starts.  The clock is reduced to "next_attempt_at has come"  *)
(* (due) and to leases that run out.  What an endpoint's server answers    *)
(* is arbitrary.                                                           *)
(***************************************************************************)
EXTENDS Integers, Sequences, FiniteSets, FiniteSetsExt, Functions

CONSTANTS
  Event,            \* terminal process events
  Endpoint,         \* webhook endpoints of the events' caller
  Delivery,         \* delivery ids (random UUIDs: never used twice)
  Worker,           \* webhook worker slots
  Relay,            \* webhook outbox relay loops
  Replayer,         \* transactions of `replay` that may be open at once
  Nothing,          \* "no worker", "no delivery", NULL
  MaximumAttempts,  \* retryPolicy.maximumAttempts
  MaxStalledCount,  \* BullMQ's maxStalledCount
  PublishBound,     \* bound: times an outbox message may be claimed
  FaultBound        \* bound: crashes, shutdowns, lost replies, lost locks, ...

ASSUME WebhookAssumption ==
  /\ Nothing \notin Worker \cup Event \cup Endpoint \cup Delivery
  /\ MaximumAttempts \in Nat \ {0} /\ MaxStalledCount \in Nat \ {0}
  /\ PublishBound \in Nat /\ FaultBound \in Nat

VARIABLES
  endpoint,  \* per endpoint: "enabled" or "disabled"
  notified,  \* events whose deliveries have been created
  delivery,  \* per id: the webhook_deliveries row
  attempts,  \* per id: outcomes in webhook_delivery_attempts
  messages,  \* per id: its outbox messages, in the order they were written
  job,       \* per id: its BullMQ job
  worker,    \* per worker: the delivery it processes
  closing,   \* per worker: how far its shutdown has come
  relay,     \* per relay: the message it publishes
  received,  \* per id: did its endpoint accept it? (history)
  replaying, \* per replayer: how far its transaction has come
  faults     \* faults so far

storeVars == <<endpoint, notified, delivery, attempts, messages>>
workerVars == <<worker, closing>>
vars == <<storeVars, job, workerVars, relay, received, replaying, faults>>

Concluded == {"succeeded", "failed", "exhausted"}
Row == [status : {"absent", "pending", "delivering"} \cup Concluded,
        event : Event \cup {Nothing}, endpoint : Endpoint \cup {Nothing},
        replay : Nat, due : BOOLEAN, claim : Nat]
NoRow == [status |-> "absent", event |-> Nothing, endpoint |-> Nothing,
          replay |-> 0, due |-> FALSE, claim |-> 0]
NewRow(v, e, n) == [status |-> "pending", event |-> v, endpoint |-> e,
                    replay |-> n, due |-> TRUE, claim |-> 0]

\* "waiting": available_at has not come; "overdue": the relay's lease ran out.
Message == [state : {"waiting", "pending", "claimed", "overdue", "published"},
            token : Nat]
NewMessage(s) == [state |-> s, token |-> 0]

Job == [state : {"missing", "waiting", "active", "completed", "failed"},
        owner : Worker \cup {Nothing}, stalls : 0..MaxStalledCount]
NoJob == [state |-> "missing", owner |-> Nothing, stalls |-> 0]
NewJob == [NoJob EXCEPT !.state = "waiting"]

\* What the sender reports: 2xx; a network error, 429 or 5xx; 410 or a
\* rejected target; any other status.
Response == {"accepted", "unavailable", "gone", "refused"}
WorkerState ==
  [phase : {"idle", "taken", "sending", "settling", "finishing", "failing"},
   delivery : Delivery \cup {Nothing}, token : Nat,
   response : Response \cup {Nothing}]
IdleWorker == [phase |-> "idle", delivery |-> Nothing, token |-> 0, response |-> Nothing]

RelayState == [phase : {"idle", "looking", "enqueuing", "marking"},
               delivery : Delivery \cup {Nothing}, message : Nat, token : Nat,
               queue : {"unknown", "missing", "finished", "present"}]
IdleRelay == [phase |-> "idle", delivery |-> Nothing, message |-> 0, token |-> 0,
              queue |-> "unknown"]

Replaying == [phase : {"idle", "locked", "numbered"}, source : Delivery \cup {Nothing},
              number : Nat]
NotReplaying == [phase |-> "idle", source |-> Nothing, number |-> 0]

WebhookTypeOK ==
  /\ endpoint \in [Endpoint -> {"enabled", "disabled"}]
  /\ notified \subseteq Event
  /\ delivery \in [Delivery -> Row]
  /\ attempts \in [Delivery -> Seq({"started", "succeeded", "failed"})]
  /\ messages \in [Delivery -> Seq(Message)]
  /\ job \in [Delivery -> Job]
  /\ worker \in [Worker -> WorkerState]
  /\ closing \in [Worker -> {"no", "draining", "cancelled"}]
  /\ relay \in [Relay -> RelayState]
  /\ received \in [Delivery -> BOOLEAN]
  /\ replaying \in [Replayer -> Replaying]
  /\ faults \in 0..FaultBound

Init ==
  /\ endpoint = [e \in Endpoint |-> "enabled"]
  /\ notified = {}
  /\ delivery = [d \in Delivery |-> NoRow]
  /\ attempts = [d \in Delivery |-> <<>>]
  /\ messages = [d \in Delivery |-> <<>>]
  /\ job = [d \in Delivery |-> NoJob]
  /\ worker = [w \in Worker |-> IdleWorker]
  /\ closing = [w \in Worker |-> "no"]
  /\ relay = [p \in Relay |-> IdleRelay]
  /\ received = [d \in Delivery |-> FALSE]
  /\ replaying = [r \in Replayer |-> NotReplaying]
  /\ faults = 0

Fault == faults < FaultBound /\ faults' = faults + 1

-----------------------------------------------------------------------------
(* Creating deliveries *)

\* The operators named Broken... each state a plausible mistake in the operator
\* that follows; no specification uses them.
Unused == {d \in Delivery : delivery[d].status = "absent"}
Enabled == {e \in Endpoint : endpoint[e] = "enabled"}

\* The end of the process-run store's `complete`: one delivery and one message
\* for every endpoint of the caller that is enabled at that moment.
Notify(v) ==
  /\ v \notin notified
  /\ notified' = notified \cup {v}
  /\ \E id \in Injection(Enabled, Unused) :
       LET new == Range(id)
           target == [d \in new |-> CHOOSE e \in Enabled : id[e] = d] IN
       /\ delivery' = [d \in Delivery |-> IF d \in new THEN NewRow(v, target[d], 0)
                                          ELSE delivery[d]]
       /\ messages' = [d \in Delivery |-> IF d \in new THEN <<NewMessage("pending")>>
                                          ELSE messages[d]]
  /\ UNCHANGED <<endpoint, attempts, job, workerVars, relay, received, faults>>

Siblings(d) == {s \in Delivery : /\ delivery[s].status # "absent"
                                 /\ delivery[s].event = delivery[d].event
                                 /\ delivery[s].endpoint = delivery[d].endpoint}

BrokenReplayNumber(d) == 1 + delivery[d].replay
\* One more than the largest number so far.
ReplayNumber(d) == 1 + Max({delivery[s].replay : s \in Siblings(d)})

\* The rows that a replay's transaction has selected FOR UPDATE.
LockedRows(r) ==
  CASE replaying[r].phase = "idle"     -> {}
    [] replaying[r].phase = "locked"   -> {replaying[r].source}
    [] replaying[r].phase = "numbered" -> Siblings(replaying[r].source)

LocksFree(r, rows) == \A q \in Replayer \ {r} : LockedRows(q) \cap rows = {}

ReplayOnly == UNCHANGED <<endpoint, notified, attempts, job, workerVars, relay,
                          received, faults>>

\* replay, statement by statement: the source row is locked and judged, with its
\* endpoint as it is now; then all rows of the event and the endpoint are locked
\* and the number is taken; then the new row and its message are written.  Two
\* replays that wait for each other's source are a deadlock that PostgreSQL
\* ends by rolling one back.  (Workers that wait for a locked row change nothing
\* that a replay looks at, so the model lets them go on.)
SelectSource(r, d) ==
  /\ replaying[r].phase = "idle"
  /\ delivery[d].status \in {"failed", "exhausted"}
  /\ endpoint[delivery[d].endpoint] = "enabled"
  /\ LocksFree(r, {d})
  /\ replaying' = [replaying EXCEPT ![r] = [phase |-> "locked", source |-> d, number |-> 0]]
  /\ ReplayOnly /\ UNCHANGED <<delivery, messages>>

NumberReplay(r) ==
  LET d == replaying[r].source IN
  /\ replaying[r].phase = "locked"
  /\ LocksFree(r, Siblings(d))
  /\ replaying' = [replaying EXCEPT ![r].phase = "numbered", ![r].number = ReplayNumber(d)]
  /\ ReplayOnly /\ UNCHANGED <<delivery, messages>>

InsertReplay(r) ==
  LET d == replaying[r].source IN
  /\ replaying[r].phase = "numbered"
  /\ \E new \in Unused :
       /\ delivery' = [delivery EXCEPT ![new] =
             NewRow(delivery[d].event, delivery[d].endpoint, replaying[r].number)]
       /\ messages' = [messages EXCEPT ![new] = <<NewMessage("pending")>>]
  /\ replaying' = [replaying EXCEPT ![r] = NotReplaying]
  /\ ReplayOnly

\* A deadlock, a failed statement, a lost connection: all of it is undone.
RollBackReplay(r) ==
  /\ replaying[r].phase # "idle"
  /\ replaying' = [replaying EXCEPT ![r] = NotReplaying]
  /\ ReplayOnly /\ UNCHANGED <<delivery, messages>>

ReplayStep(r) ==
  \/ \E d \in Delivery : SelectSource(r, d)
  \/ NumberReplay(r) \/ InsertReplay(r) \/ RollBackReplay(r)

DisableEndpoint(e) ==
  /\ endpoint[e] = "enabled"
  /\ endpoint' = [endpoint EXCEPT ![e] = "disabled"]
  /\ UNCHANGED <<notified, delivery, attempts, messages, job, workerVars, relay,
                 received, faults>>

-----------------------------------------------------------------------------
(* The delivery store *)

BrokenClaimable(d) ==
  /\ delivery[d].status # "absent" /\ delivery[d].due
  /\ endpoint[delivery[d].endpoint] = "enabled"
Claimable(d) ==
  /\ delivery[d].status = "pending" /\ delivery[d].due
  /\ endpoint[delivery[d].endpoint] = "enabled"

\* claim; a claim that expires is never taken over.
Claim(d) ==
  /\ Claimable(d)
  /\ attempts' = [attempts EXCEPT ![d] = Append(@, "started")]
  /\ delivery' = [delivery EXCEPT ![d].status = "delivering",
                                  ![d].claim = Len(attempts[d]) + 1]
  /\ UNCHANGED <<endpoint, notified, messages>>

HoldsClaim(d, t) == delivery[d].status = "delivering" /\ delivery[d].claim = t

\* complete
Conclude(d, s, disable) ==
  /\ delivery' = [delivery EXCEPT ![d].status = s, ![d].claim = 0]
  /\ attempts' = [attempts EXCEPT ![d][Len(attempts[d])] =
                    IF s = "succeeded" THEN "succeeded" ELSE "failed"]
  /\ endpoint' = IF disable THEN [endpoint EXCEPT ![delivery[d].endpoint] = "disabled"]
                 ELSE endpoint
  /\ UNCHANGED <<notified, messages>>

\* reschedule: the retry gets a new message, available when the retry is due.
BrokenReschedule(d) ==
  /\ delivery' = [delivery EXCEPT ![d].status = "pending", ![d].claim = 0, ![d].due = FALSE]
  /\ messages' = [messages EXCEPT ![d] = Append(@, NewMessage("waiting"))]
  /\ UNCHANGED <<endpoint, notified, attempts>>
Reschedule(d) ==
  /\ delivery' = [delivery EXCEPT ![d].status = "pending", ![d].claim = 0, ![d].due = FALSE]
  /\ attempts' = [attempts EXCEPT ![d][Len(attempts[d])] = "failed"]
  /\ messages' = [messages EXCEPT ![d] = Append(@, NewMessage("waiting"))]
  /\ UNCHANGED <<endpoint, notified>>

\* next_attempt_at, which is also available_at of the last message, comes.
RetryComes(d) ==
  /\ delivery[d].status = "pending" /\ ~delivery[d].due
  /\ delivery' = [delivery EXCEPT ![d].due = TRUE]
  /\ messages' = [messages EXCEPT ![d][Len(messages[d])].state = "pending"]
  /\ UNCHANGED <<endpoint, notified, attempts, job, workerVars, relay, received, faults>>

-----------------------------------------------------------------------------
(* The queue *)

SetJob(d, state, owner) == job' = [job EXCEPT ![d].state = state, ![d].owner = owner]
QueueOnly == UNCHANGED <<storeVars, workerVars, relay, received>>

Locked(d) == job[d].state = "active" /\ job[d].owner # Nothing

QueueState(d) ==
  CASE job[d].state = "missing"               -> "missing"
    [] job[d].state \in {"completed", "failed"} -> "finished"
    [] OTHER                                  -> "present"

StallCheck(d) ==
  /\ job[d].state = "active" /\ job[d].owner = Nothing
  /\ IF job[d].stalls < MaxStalledCount
     THEN job' = [job EXCEPT ![d] = [NewJob EXCEPT !.stalls = job[d].stalls + 1]]
     ELSE SetJob(d, "failed", Nothing)
  /\ QueueOnly /\ UNCHANGED faults

\* removeOnComplete / removeOnFail.
RemoveFinishedJob(d) ==
  /\ job[d].state \in {"completed", "failed"}
  /\ job' = [job EXCEPT ![d] = NoJob]
  /\ QueueOnly /\ UNCHANGED faults

\* Redis loses its data.
FlushQueue ==
  /\ Fault
  /\ job' = [d \in Delivery |-> NoJob]
  /\ QueueOnly

\* A worker too slow to renew its job's lock keeps running without it.
LoseLock(d) ==
  /\ Locked(d)
  /\ Fault
  /\ SetJob(d, "active", Nothing)
  /\ QueueOnly

-----------------------------------------------------------------------------
(* Workers *)

WorkerOnly == UNCHANGED <<closing, job, relay>>

TakeJob(w, d) ==
  /\ worker[w].phase = "idle" /\ closing[w] = "no"
  /\ job[d].state = "waiting"
  /\ SetJob(d, "active", w)
  /\ worker' = [worker EXCEPT ![w] = [IdleWorker EXCEPT !.phase = "taken", !.delivery = d]]
  /\ UNCHANGED <<storeVars, closing, relay, received, faults>>

\* process(): a delivery that cannot be claimed is ignored.
ClaimDelivery(w) ==
  LET d == worker[w].delivery IN
  /\ worker[w].phase = "taken"
  /\ \/ /\ Claim(d)
        /\ worker' = [worker EXCEPT ![w].phase = "sending", ![w].token = Len(attempts[d]) + 1]
     \/ /\ ~Claimable(d)
        /\ worker' = [worker EXCEPT ![w].phase = "finishing"]
        /\ UNCHANGED storeVars
  /\ WorkerOnly /\ UNCHANGED <<received, faults>>

\* send: the answer of the endpoint is arbitrary.  A request that timed out or
\* was aborted may have been accepted all the same.
Responses(w) == IF closing[w] = "cancelled" THEN {"unavailable", "gone"} ELSE Response

BrokenAcceptance(a) == BOOLEAN
Acceptance(a) == IF a = "accepted" THEN {TRUE}
                 ELSE IF a = "unavailable" THEN BOOLEAN ELSE {FALSE}

Send(w) ==
  LET d == worker[w].delivery IN
  /\ worker[w].phase = "sending"
  /\ \E a \in Responses(w) : \E accepted \in Acceptance(a) :
       /\ worker' = [worker EXCEPT ![w].phase = "settling", ![w].response = a]
       /\ received' = [received EXCEPT ![d] = @ \/ accepted]
  /\ WorkerOnly /\ UNCHANGED <<storeVars, faults>>

\* The store's answer may get lost after the commit: process() throws, and the
\* job fails although the transaction stands.
Then(w, phase) ==
  \/ worker' = [worker EXCEPT ![w].phase = phase] /\ UNCHANGED faults
  \/ worker' = [worker EXCEPT ![w].phase = "failing"] /\ Fault

RetryAllowed(t) == t < MaximumAttempts

\* A retryable failure is rescheduled unless the attempts are used up or the
\* next one would fall behind the delivery horizon (which may happen any time).
SettleRetry(w) ==
  LET d == worker[w].delivery  t == worker[w].token IN
  /\ worker[w].phase = "settling" /\ worker[w].response = "unavailable"
  /\ RetryAllowed(t)
  /\ IF HoldsClaim(d, t) THEN Reschedule(d) ELSE UNCHANGED storeVars
  /\ Then(w, "finishing")
  /\ WorkerOnly /\ UNCHANGED received

BrokenConclusionOf(a) == IF a = "accepted" THEN "succeeded" ELSE "rejected"
ConclusionOf(a) ==
  CASE a = "accepted"    -> "succeeded"
    [] a = "unavailable" -> "exhausted"
    [] OTHER             -> "failed"

SettleFinal(w) ==
  LET d == worker[w].delivery  t == worker[w].token  a == worker[w].response IN
  /\ worker[w].phase = "settling"
  /\ IF HoldsClaim(d, t) THEN Conclude(d, ConclusionOf(a), a = "gone")
     ELSE UNCHANGED storeVars
  /\ Then(w, "finishing")
  /\ WorkerOnly /\ UNCHANGED received

\* The store fails before its commit, or the sender throws: the job fails, a
\* claim stays set.
WorkerError(w) ==
  /\ worker[w].phase \in {"taken", "sending", "settling"}
  /\ Fault
  /\ worker' = [worker EXCEPT ![w].phase = "failing"]
  /\ WorkerOnly /\ UNCHANGED <<storeVars, received>>

\* The job ends as its processor did, unless its lock was lost meanwhile.
FinishJob(w) ==
  LET d == worker[w].delivery IN
  /\ worker[w].phase \in {"finishing", "failing"}
  /\ IF job[d].state = "active" /\ job[d].owner = w
     THEN SetJob(d, IF worker[w].phase = "finishing" THEN "completed" ELSE "failed", Nothing)
     ELSE UNCHANGED job
  /\ worker' = [worker EXCEPT ![w] = IdleWorker]
  /\ UNCHANGED <<storeVars, closing, relay, received, faults>>

Vanish(w) ==
  /\ worker' = [worker EXCEPT ![w] = IdleWorker]
  /\ closing' = [closing EXCEPT ![w] = "no"]
  /\ job' = [d \in Delivery |-> IF job[d].owner = w THEN [job[d] EXCEPT !.owner = Nothing]
                                ELSE job[d]]
  /\ UNCHANGED <<storeVars, relay, received>>

Crash(w) == worker[w].phase # "idle" /\ Fault /\ Vanish(w)

\* close(): stop taking jobs, wait for the active one, then abort it and exit.
StartShutdown(w) ==
  /\ closing[w] = "no"
  /\ Fault
  /\ closing' = [closing EXCEPT ![w] = "draining"]
  /\ UNCHANGED <<storeVars, worker, job, relay, received>>

CancelJobs(w) ==
  /\ closing[w] = "draining" /\ worker[w].phase # "idle"
  /\ closing' = [closing EXCEPT ![w] = "cancelled"]
  /\ UNCHANGED <<storeVars, worker, job, relay, received, faults>>

Exit(w) ==
  /\ \/ closing[w] = "draining" /\ worker[w].phase = "idle"
     \/ closing[w] = "cancelled"
  /\ Vanish(w)
  /\ UNCHANGED faults

-----------------------------------------------------------------------------
(* The relay, publishing one message at a time *)

OwnsMessage(p) ==
  LET m == messages[relay[p].delivery][relay[p].message] IN
  m.state \in {"claimed", "overdue"} /\ m.token = relay[p].token

SetMessage(p, s) ==
  /\ messages' = [messages EXCEPT ![relay[p].delivery][relay[p].message].state = s]
  /\ UNCHANGED <<endpoint, notified, delivery, attempts>>

Publishable(m) == m.state \in {"pending", "overdue"} /\ m.token < PublishBound

\* claimWebhookWork: available, unpublished, and not under a live lease.
RelayClaim(p, d, k) ==
  /\ relay[p].phase = "idle"
  /\ k \in DOMAIN messages[d]
  /\ Publishable(messages[d][k])
  /\ messages' = [messages EXCEPT ![d][k] = [state |-> "claimed", token |-> @.token + 1]]
  /\ relay' = [relay EXCEPT ![p] = [phase |-> "looking", delivery |-> d, message |-> k,
                                    token |-> messages[d][k].token + 1, queue |-> "unknown"]]
  /\ UNCHANGED <<endpoint, notified, delivery, attempts, job, workerVars, received, faults>>

RelayLook(p) ==
  /\ relay[p].phase = "looking"
  /\ relay' = [relay EXCEPT ![p].phase = "enqueuing", ![p].queue = QueueState(relay[p].delivery)]
  /\ UNCHANGED <<storeVars, job, workerVars, received, faults>>

\* enqueue: a job that is there and has not finished counts as a duplicate.
Enqueue(p) ==
  LET d == relay[p].delivery IN
  /\ relay[p].queue = "finished" => ~Locked(d)
  /\ job' = IF \/ relay[p].queue = "finished"
               \/ relay[p].queue = "missing" /\ job[d].state = "missing"
            THEN [job EXCEPT ![d] = NewJob] ELSE job

RelayEnqueue(p) ==
  /\ relay[p].phase = "enqueuing"
  /\ Enqueue(p)
  /\ relay' = [relay EXCEPT ![p].phase = "marking", ![p].queue = "unknown"]
  /\ UNCHANGED <<storeVars, workerVars, received, faults>>

RelayMark(p) ==
  /\ relay[p].phase = "marking"
  /\ IF OwnsMessage(p) THEN SetMessage(p, "published") ELSE UNCHANGED storeVars
  /\ relay' = [relay EXCEPT ![p] = IdleRelay]
  /\ UNCHANGED <<job, workerVars, received, faults>>

\* The enqueue or the mark fails: release the message for a later round.
RelayFails(p) ==
  /\ \/ /\ relay[p].phase = "enqueuing" /\ relay[p].queue = "finished"
        /\ Locked(relay[p].delivery)
        /\ UNCHANGED faults
     \/ relay[p].phase \in {"looking", "enqueuing", "marking"} /\ Fault
  /\ IF OwnsMessage(p) THEN SetMessage(p, "pending") ELSE UNCHANGED storeVars
  /\ relay' = [relay EXCEPT ![p] = IdleRelay]
  /\ UNCHANGED <<job, workerVars, received>>

\* The process dies, or the release fails too: the message's lease runs out.
RelayStops(p) ==
  /\ relay[p].phase # "idle"
  /\ Fault
  /\ relay' = [relay EXCEPT ![p] = IdleRelay]
  /\ UNCHANGED <<storeVars, job, workerVars, received>>

LeaseExpires(d, k) ==
  /\ k \in DOMAIN messages[d] /\ messages[d][k].state = "claimed"
  /\ messages' = [messages EXCEPT ![d][k].state = "overdue"]
  /\ UNCHANGED <<endpoint, notified, delivery, attempts, job, workerVars, relay,
                 received, faults>>

-----------------------------------------------------------------------------
(* The specification *)

WorkerProgress(w) ==
  /\ \/ \E d \in Delivery : TakeJob(w, d)
     \/ ClaimDelivery(w) \/ Send(w) \/ SettleRetry(w) \/ SettleFinal(w) \/ FinishJob(w)
     \/ CancelJobs(w) \/ Exit(w)
  /\ UNCHANGED replaying

RelayProgress(p) ==
  /\ \/ \E d \in Delivery : \E k \in DOMAIN messages[d] : RelayClaim(p, d, k)
     \/ RelayLook(p) \/ RelayEnqueue(p) \/ RelayMark(p)
  /\ UNCHANGED replaying

TimePasses(d) ==
  /\ \/ RetryComes(d) \/ StallCheck(d)
     \/ \E k \in DOMAIN messages[d] : LeaseExpires(d, k)
  /\ UNCHANGED replaying

Callers ==
  \/ /\ \/ \E v \in Event : Notify(v)
        \/ \E e \in Endpoint : DisableEndpoint(e)
     /\ UNCHANGED replaying
  \/ \E r \in Replayer : ReplayStep(r)

Faults ==
  /\ \/ \E w \in Worker : WorkerError(w) \/ Crash(w) \/ StartShutdown(w)
     \/ \E p \in Relay : RelayFails(p) \/ RelayStops(p)
     \/ \E d \in Delivery : RemoveFinishedJob(d) \/ LoseLock(d)
     \/ FlushQueue
  /\ UNCHANGED replaying

Next ==
  \/ Callers \/ Faults
  \/ \E d \in Delivery : TimePasses(d)
  \/ \E w \in Worker : WorkerProgress(w)
  \/ \E p \in Relay : RelayProgress(p)

Spec == Init /\ [][Next]_vars

\* Loops are rescheduled after every round, BullMQ hands out waiting jobs and
\* checks for stalled ones, requests time out, and time passes.  Nothing is
\* assumed of callers, faults or endpoints.
Fairness ==
  /\ \A d \in Delivery : WF_vars(TimePasses(d))
  /\ \A w \in Worker : WF_vars(WorkerProgress(w))
  /\ \A p \in Relay : WF_vars(RelayProgress(p) \/ (RelayFails(p) /\ UNCHANGED <<replaying, faults>>))

FairSpec == Spec /\ Fairness

-----------------------------------------------------------------------------
(* What webhook delivery promises *)

\* The attempt rows and the delivery row tell one story, whatever job is run
\* twice: every attempt but the last has failed, the last is still open exactly
\* while the row is 'delivering' under that attempt's claim, the row succeeded
\* exactly if the last attempt did, every retry has its own outbox message, and
\* the retry policy bounds the attempts.
AttemptsMatchStatus ==
  \A d \in Delivery :
    LET n == Len(attempts[d])
        LastIs(o) == n > 0 /\ attempts[d][n] = o IN
    /\ n <= MaximumAttempts
    /\ \A k \in 1..(n - 1) : attempts[d][k] = "failed"
    /\ (delivery[d].status = "delivering") <=> LastIs("started")
    /\ delivery[d].claim = IF LastIs("started") THEN n ELSE 0
    /\ (delivery[d].status = "succeeded") <=> LastIs("succeeded")
    /\ delivery[d].status = "pending" => Len(messages[d]) = n + 1

\* Whoever posts a delivery, or is about to record the answer, holds its claim,
\* and nobody else does: duplicated, stalled and restarted jobs never make two
\* workers post the same delivery at the same time.
SenderHoldsClaim ==
  LET Posting == {w \in Worker : worker[w].phase \in {"sending", "settling"}} IN
  \A w \in Posting :
    /\ HoldsClaim(worker[w].delivery, worker[w].token)
    /\ \A x \in Posting \ {w} : worker[x].delivery # worker[w].delivery

\* A delivery is recorded as succeeded only if its endpoint accepted it; the
\* converse fails, which is why receivers must expect duplicates.
SucceededMeansReceived ==
  \A d \in Delivery : delivery[d].status = "succeeded" => received[d]

\* However often an event is replayed, whichever of its deliveries is replayed
\* again, and however many replays of them are open at once, no two deliveries
\* get the same (event, endpoint, number): the unique constraint never rejects a
\* replay (webhooks/store/postgres.ts:779-815).
ReplayNumbersUnique ==
  \A d \in Delivery : \A s \in Siblings(d) :
    delivery[d].status # "absent" /\ s # d => delivery[s].replay # delivery[d].replay

\* A delivery that has reached an outcome is never claimed, rescheduled or
\* concluded again; only a replay, under a new id, sends the event once more.
ConcludedIsFinal ==
  [][\A d \in Delivery :
       delivery[d].status \in Concluded =>
         delivery'[d] = delivery[d] /\ attempts'[d] = attempts[d]]_vars

\* "At least once": a delivery whose worker dies, or whose store call fails, is
\* attempted again or given up; it does not stay under its claim for ever.
ClaimedDeliveryEnds ==
  \A d \in Delivery :
    delivery[d].status = "delivering" ~> delivery[d].status # "delivering"

\* A delivery's row, its attempts, its messages and the worker that posts it
\* agree at every moment.
DeliveriesConsistent ==
  WebhookTypeOK /\ AttemptsMatchStatus /\ SenderHoldsClaim /\ SucceededMeansReceived
=============================================================================
