---------------------------- MODULE QueueRecovery ----------------------------
(***************************************************************************)
(* One run of queue recovery (src/src/process-runs/recovery/): the         *)
(* reconciler's single batch, or the operator's command, which walks all   *)
(* runs in the order of their ids, batch by batch, and leaves an audit of  *)
(* each batch in the database.  Workers, the relay and callers go on       *)
(* meanwhile.  The cutoff is fixed at the start, so a lease that runs out  *)
(* later still counts as active: no such step is needed here.              *)
(***************************************************************************)
EXTENDS Integers, Sequences, FiniteSets, Functions

CONSTANTS
  Runs,       \* number of runs; run ids are 1..Runs
  BatchSize,
  RecoveryFaultBound, \* bound: calls that fail
  MoveBound   \* bound: steps of workers, relay and callers meanwhile

ASSUME RecoveryAssumption ==
  /\ Runs \in Nat \ {0} /\ BatchSize \in Nat \ {0} /\ RecoveryFaultBound \in Nat
  /\ MoveBound \in Nat

RunNumber == 1..Runs
Command == [trigger : {"manual"}, mode : {"stale", "all"}, dryRun : BOOLEAN] \union
           {[trigger |-> "periodic", mode |-> "stale", dryRun |-> FALSE]}

VARIABLES
  runStatus, \* "absent", "queued", "leased", "expired" (lease over at the cutoff) or "done"
  stuck,     \* runs that were queued before the age limit
  unsent,    \* runs with an unpublished message
  jobs,      \* per run: what the queue holds for it
  \* the command
  command, phase, cursor, candidates, inspected, items, counters,
  audits,    \* the audit rows: [status, counters, items]
  result,    \* "none", "finished", "stopped", "failed" or "dead"
  \* what the properties compare with
  untouched, \* runs nobody else has worked on since the start
  created,   \* jobs this batch put in the queue
  failures,  \* faults so far
  moves      \* steps of the others so far

worldVars == <<runStatus, stuck, unsent, jobs>>
batchVars == <<candidates, inspected, items, counters>>
recoveryVars == <<worldVars, command, phase, cursor, batchVars, audits,
                  result, untouched, created, failures, moves>>

Runnable(r) == runStatus[r] \in {"queued", "expired"}

-----------------------------------------------------------------------------
(* Counters of a batch.                                                    *)

QueueState == {"missing", "runnable", "terminal", "invalid"}
CounterName == {"found", "active_leases", "pending_outbox", "enqueued",
                "duplicate", "acknowledged", "failed"} \union QueueState

NoCounters == [c \in CounterName |-> 0]
Count(names) == [c \in CounterName |-> counters[c] + IF c \in names THEN 1 ELSE 0]

(* What one candidate adds when it is looked at, and when it is repaired.  *)
Sighting(x, state) ==
  {"found", state} \union (IF x.reason = "active_lease" THEN {"active_leases"} ELSE {})
                   \union (IF x.unsent THEN {"pending_outbox"} ELSE {})

BrokenEffects(action, outbox) == {action} \intersect CounterName
Effects(action, outbox) == {action, outbox} \intersect CounterName

-----------------------------------------------------------------------------
(* Selection and inspection.                                               *)

(* A queued run is recent or stuck, a claimed one has a lease or had one.  *)
Reason(r) ==
  CASE runStatus[r] = "queued"  -> IF r \in stuck THEN "stuck_queued" ELSE "recent_queued"
    [] runStatus[r] = "expired" -> "expired_lease"
    [] OTHER                    -> "active_lease"

Wanted(r) ==
  /\ runStatus[r] \in {"queued", "leased", "expired"}
  /\ r > cursor
  /\ command.mode = "all" \/ Reason(r) \in {"stuck_queued", "expired_lease"}

(* The first BatchSize wanted runs; one more is read to see whether any    *)
(* are left.                                                               *)
Batch == {r \in RunNumber : Wanted(r) /\ Cardinality({q \in 1..r : Wanted(q)}) <= BatchSize}
InOrder(S) == CHOOSE s \in [1..Cardinality(S) -> S] :
                \A i, j \in 1..Cardinality(S) : i < j => s[i] < s[j]

BrokenNextCursor(batch) == IF \E r \in RunNumber : Wanted(r) /\ r \notin batch THEN Runs ELSE 0
NextCursor(batch) ==
  IF \E r \in RunNumber : Wanted(r) /\ r \notin batch
  THEN CHOOSE r \in batch : \A q \in batch : q <= r ELSE 0

Select ==
  /\ phase = "select"
  /\ candidates' = [i \in 1..Cardinality(Batch) |->
        LET r == InOrder(Batch)[i] IN
          [run |-> r, reason |-> Reason(r), unsent |-> r \in unsent]]
  /\ cursor' = NextCursor(Batch)
  /\ items' = <<>> /\ counters' = NoCounters /\ created' = {} /\ UNCHANGED inspected
  /\ IF Batch = {} /\ command.trigger = "periodic"
     THEN phase' = "over" /\ result' = "finished"
     ELSE phase' = "begin" /\ UNCHANGED result
  /\ UNCHANGED <<worldVars, command, audits, untouched, failures>>

NewAudit == [status |-> "running", counters |-> NoCounters, items |-> {}]

BeginAudit ==
  /\ phase = "begin"
  /\ audits' = Append(audits, NewAudit)
  /\ phase' = "inspect"
  /\ UNCHANGED <<worldVars, command, cursor, batchVars, result, untouched, created, failures>>

InspectJobs ==
  /\ phase = "inspect"
  /\ inspected' = jobs /\ phase' = "item"
  /\ UNCHANGED <<worldVars, command, cursor, candidates, items, counters, audits,
                 result, untouched, created, failures>>

-----------------------------------------------------------------------------
(* One candidate: its job, its message, its row in the audit.              *)

ItemDone(x, action, outbox) ==
  /\ items' = Append(items, [run |-> x.run, reason |-> x.reason, unsent |-> x.unsent,
                             state |-> inspected[x.run], action |-> action, outbox |-> outbox])
  /\ counters' = Count(Sighting(x, inspected[x.run]) \union Effects(action, outbox))
  /\ phase' = "record"

Candidate == candidates[Len(items) + 1]
AtItem == phase = "item" /\ Len(items) < Len(candidates)

DryRunItem ==
  /\ AtItem /\ command.dryRun
  /\ LET x == Candidate
         valid == inspected[x.run] = "runnable"
         action == IF valid THEN "none"
                   ELSE IF x.reason = "active_lease" THEN "deferred" ELSE "would_enqueue"
     IN ItemDone(x, action, IF x.unsent /\ action # "deferred" THEN "would_acknowledge"
                            ELSE "none")
  /\ UNCHANGED <<worldVars, command, cursor, candidates, inspected, audits, result,
                 untouched, created, failures>>

(* A job is put in the queue unless a valid one is there; a job whose run  *)
(* still has an active lease is left to that lease.                        *)
BrokenDeferred(x) == inspected[x.run] # "runnable" /\ x.unsent
Deferred(x) == inspected[x.run] # "runnable" /\ x.reason = "active_lease"
Enqueues(x) == inspected[x.run] # "runnable" /\ ~Deferred(x)

Action(x) ==
  IF Enqueues(x) THEN IF jobs[x.run] = "runnable" THEN "duplicate" ELSE "enqueued"
  ELSE IF Deferred(x) THEN "deferred" ELSE "none"

QueueRepaired(x) ==
  /\ jobs' = IF Enqueues(x) THEN [jobs EXCEPT ![x.run] = "runnable"] ELSE jobs
  /\ created' = IF Action(x) = "enqueued" THEN created \union {x.run} ELSE created

(* The message is acknowledged only where a job is known to be there, and  *)
(* unless the relay has it claimed.                                        *)
RepairItem ==
  /\ AtItem /\ ~command.dryRun
  /\ \E acknowledges \in BOOLEAN :
     LET x == Candidate IN
        /\ acknowledges => x.unsent /\ ~Deferred(x) /\ x.run \in unsent
        /\ QueueRepaired(x)
        /\ unsent' = IF acknowledges THEN unsent \ {x.run} ELSE unsent
        /\ ItemDone(x, Action(x), IF acknowledges THEN "acknowledged" ELSE "none")
  /\ UNCHANGED <<runStatus, stuck, command, cursor, candidates, inspected, audits, result,
                 untouched, failures>>

(* The queue fails, whether or not the job was added, or between the       *)
(* removal of a spent job and its successor: nothing is acknowledged.      *)
EnqueueFails ==
  /\ AtItem /\ ~command.dryRun /\ Enqueues(Candidate) /\ failures < RecoveryFaultBound
  /\ failures' = failures + 1
  /\ \/ QueueRepaired(Candidate)
     \/ UNCHANGED <<jobs, created>>
     \/ /\ jobs[Candidate.run] \in {"terminal", "invalid"}
        /\ jobs' = [jobs EXCEPT ![Candidate.run] = "missing"] /\ UNCHANGED created
  /\ ItemDone(Candidate, "failed", IF Candidate.unsent THEN "failed" ELSE "none")
  /\ UNCHANGED <<runStatus, stuck, unsent, command, cursor, candidates, inspected, audits,
                 result, untouched>>

(* The acknowledgement fails, whether or not it was committed.             *)
AcknowledgeFails ==
  /\ AtItem /\ ~command.dryRun /\ Candidate.unsent /\ ~Deferred(Candidate)
  /\ failures < RecoveryFaultBound /\ failures' = failures + 1
  /\ QueueRepaired(Candidate)
  /\ unsent' \in {unsent, unsent \ {Candidate.run}}
  /\ ItemDone(Candidate, Action(Candidate), "failed")
  /\ UNCHANGED <<runStatus, stuck, command, cursor, candidates, inspected, audits,
                 result, untouched>>

BrokenRecordsItem == items[Len(items)].action # "duplicate"
RecordsItem == TRUE

RecordItem ==
  /\ phase = "record"
  /\ audits' = [audits EXCEPT ![Len(audits)].items =
                  IF RecordsItem THEN @ \union {items[Len(items)]} ELSE @]
  /\ phase' = "item"
  /\ UNCHANGED <<worldVars, command, cursor, batchVars, result, untouched, created, failures>>

Completed(a) == [a EXCEPT !.status = "completed", !.counters = counters]

(* The next batch, unless this was the last or the operator stops here.    *)
CompleteAudit ==
  /\ phase = "item" /\ Len(items) = Len(candidates)
  /\ audits' = [audits EXCEPT ![Len(audits)] = Completed(@)]
  /\ \/ cursor # 0 /\ command.trigger = "manual" /\ phase' = "select" /\ UNCHANGED result
     \/ cursor = 0 /\ phase' = "over" /\ result' = "finished"
     \/ cursor # 0 /\ phase' = "over" /\ result' = "stopped"
  /\ UNCHANGED <<worldVars, command, cursor, batchVars, untouched, created, failures>>

-----------------------------------------------------------------------------
(* Failures of the command.                                                *)

(* The database or the queue fails: the audit, once begun, is closed as    *)
(* failed, unless that fails too, or it was completed after all.  What the *)
(* failed statement was to write may be in the database all the same.      *)
ClosedAs(a, status, more) == [a EXCEPT !.status = status, !.items = @ \union more]
Unrecorded == IF phase = "record" THEN {items[Len(items)]} ELSE {}

RecoveryFails ==
  /\ phase \in {"select", "begin", "inspect", "record", "item"}
  /\ phase = "item" => Len(items) = Len(candidates)
  /\ failures < RecoveryFaultBound /\ failures' = failures + 1
  /\ \/ phase \in {"select", "begin"} /\ UNCHANGED audits
     \/ phase = "begin" /\ audits' = Append(audits, NewAudit)
     \/ /\ phase \notin {"select", "begin"}
        /\ \E close \in {"failed", "running"}, more \in {{}, Unrecorded} :
             audits' = [audits EXCEPT ![Len(audits)] = ClosedAs(@, close, more)]
     \/ phase = "item" /\ audits' = [audits EXCEPT ![Len(audits)] = Completed(@)]
  /\ phase' = "over" /\ result' = "failed"
  /\ UNCHANGED <<worldVars, command, cursor, batchVars, untouched, created>>

CommandDies ==
  /\ phase \notin {"idle", "over"} /\ failures < RecoveryFaultBound
  /\ failures' = failures + 1 /\ phase' = "over" /\ result' = "dead"
  /\ UNCHANGED <<worldVars, command, cursor, batchVars, audits, untouched, created>>

-----------------------------------------------------------------------------
(* The others.  What they did before is in the initial states, what they   *)
(* do once the command is over is of no interest here.                     *)

OthersOnly ==
  /\ phase \notin {"idle", "over"}
  /\ moves < MoveBound /\ moves' = moves + 1
  /\ UNCHANGED <<command, phase, cursor, batchVars, audits, result, created, failures>>

AcceptRun(r) ==
  /\ runStatus[r] = "absent"
  /\ runStatus' = [runStatus EXCEPT ![r] = "queued"] /\ unsent' = unsent \union {r}
  /\ UNCHANGED <<stuck, jobs, untouched>> /\ OthersOnly

RelayJob(r) ==
  /\ r \in unsent
  /\ jobs' = [jobs EXCEPT ![r] = "runnable"] /\ unsent' = unsent \ {r}
  /\ UNCHANGED <<runStatus, stuck, untouched>> /\ OthersOnly

ClaimRun(r) ==
  /\ Runnable(r) /\ jobs[r] = "runnable"
  /\ runStatus' = [runStatus EXCEPT ![r] = "leased"]
  /\ stuck' = stuck \ {r} /\ untouched' = untouched \ {r}
  /\ UNCHANGED <<unsent, jobs>> /\ OthersOnly

(* A finished attempt ends its job, unless Redis has lost it or holds      *)
(* another of the same name by now.  A retry (scheduleRetry, releaseClaim) *)
(* writes an event and no message: its job is delayed, or it has none.     *)
EndAttempt(r, status) ==
  /\ runStatus[r] = "leased"
  /\ runStatus' = [runStatus EXCEPT ![r] = status]
  /\ \/ UNCHANGED jobs
     \/ jobs[r] # "missing" /\ jobs' = [jobs EXCEPT ![r] = "terminal"]
  /\ UNCHANGED <<unsent, stuck, untouched>> /\ OthersOnly

StartRecovery(c) ==
  /\ phase = "idle"
  /\ command' = c /\ phase' = "select"
  /\ untouched' = {r \in RunNumber : Runnable(r)}
  /\ UNCHANGED <<worldVars, cursor, batchVars, audits, result, created, failures>>

(* Redis may have lost any job before recovery begins.                     *)
RecoveryInit ==
  /\ runStatus \in [RunNumber -> {"absent", "queued", "leased", "expired"}]
  /\ stuck \in SUBSET {r \in RunNumber : runStatus[r] = "queued"}
  /\ unsent \in SUBSET {r \in RunNumber : runStatus[r] \in {"queued", "leased", "expired"}}
  /\ jobs \in [RunNumber -> QueueState]
  /\ \A r \in RunNumber : runStatus[r] = "absent" => jobs[r] = "missing"
  /\ \A r \in RunNumber : runStatus[r] = "leased" => jobs[r] \in {"missing", "runnable"}
  /\ command = [trigger |-> "none", mode |-> "all", dryRun |-> TRUE]
  /\ phase = "idle" /\ cursor = 0 /\ candidates = <<>>
  /\ inspected = [r \in RunNumber |-> "missing"] /\ items = <<>> /\ counters = NoCounters
  /\ audits = <<>> /\ result = "none"
  /\ untouched = {} /\ created = {} /\ failures = 0 /\ moves = 0

CommandSteps ==
  \/ \E c \in Command : StartRecovery(c)
  \/ Select \/ BeginAudit \/ InspectJobs \/ DryRunItem \/ RepairItem \/ EnqueueFails
  \/ AcknowledgeFails \/ RecordItem \/ CompleteAudit \/ RecoveryFails \/ CommandDies

RecoveryNext ==
  \/ CommandSteps /\ UNCHANGED moves
  \/ \E r \in RunNumber :
       \/ AcceptRun(r) \/ RelayJob(r) \/ ClaimRun(r)
       \/ \E s \in {"queued", "done"} : EndAttempt(r, s)

RecoverySpec == RecoveryInit /\ [][RecoveryNext]_recoveryVars

-----------------------------------------------------------------------------
(* Properties.                                                             *)

RecoveryTypeOK ==
  /\ runStatus \in [RunNumber -> {"absent", "queued", "leased", "expired", "done"}]
  /\ stuck \subseteq RunNumber /\ unsent \subseteq RunNumber /\ jobs \in [RunNumber -> QueueState]
  /\ cursor \in 0..Runs /\ counters \in [CounterName -> Nat]
  /\ phase \in {"idle", "select", "begin", "inspect", "item", "record", "over"}
  /\ Len(items) <= Len(candidates) /\ Len(candidates) <= BatchSize
  /\ \A a \in Range(audits) : a.status \in {"running", "completed", "failed"}
  /\ result \in {"none", "finished", "stopped", "failed", "dead"}

Sound == \A a \in Range(audits) : \A x \in a.items : "failed" \notin {x.action, x.outbox}

(* After a complete recovery that reports no failure, every run that was   *)
(* waiting for work when it began, and that nobody has taken since, has a  *)
(* job again: no batch boundary, no stale inspection and no message that   *)
(* was acknowledged leaves one behind.                                     *)
NothingLeftBehind ==
  result = "finished" /\ ~command.dryRun /\ Sound =>
    \A r \in untouched :
      command.mode = "all" \/ r \in stuck \/ runStatus[r] = "expired" =>
        jobs[r] = "runnable"

(* The audit tells what was done.  A completed one adds up, item by item,  *)
(* and names every job its batch put in the queue; when the command fails  *)
(* or dies, at most the one item it was at is missing.                     *)
Tally(S, P(_)) == Cardinality({x \in S : P(x)})
AddsUp(a) ==
  /\ a.counters["found"] = Cardinality(a.items)
  /\ \A c \in QueueState : a.counters[c] = Tally(a.items, LAMBDA x : x.state = c)
  /\ \A c \in {"enqueued", "duplicate"} :
       a.counters[c] = Tally(a.items, LAMBDA x : x.action = c)
  /\ a.counters["acknowledged"] = Tally(a.items, LAMBDA x : x.outbox = "acknowledged")
  /\ a.counters["failed"] = Tally(a.items, LAMBDA x : "failed" \in {x.action, x.outbox})

AuditTellsWhatWasDone ==
  /\ \A a \in Range(audits) : a.status = "completed" => AddsUp(a)
  /\ result = "finished" => \A a \in Range(audits) : a.status = "completed"
  /\ created # {} =>
       LET last == audits[Len(audits)]
           missing == created \ {x.run : x \in last.items}
       IN Cardinality(missing) <= (IF last.status = "completed" THEN 0 ELSE 1)
=============================================================================
