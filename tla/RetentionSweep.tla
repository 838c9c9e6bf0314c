---------------------------- MODULE RetentionSweep ----------------------------
(***************************************************************************)
(* The retention cleaner (src/src/process-runs/retention/ and              *)
(* src/src/agent-conversations/retention*.ts): a sweep walks the runs, or  *)
(* the conversations, in the order of their ids, one transaction per       *)
(* batch, each with a row of audit counts.  A sweep that its limit or a    *)
(* shutdown stops leaves a continuation, the time it works with and its    *)
(* cursor, to the next sweep of the same process.  Days stand for times;   *)
(* all rows were created on day 0.                                         *)
(***************************************************************************)
EXTENDS Integers, FiniteSets, FiniteSetsExt

CONSTANTS
  Rows,             \* number of rows; ids are 1..Rows
  SweepBatchSize,
  SweepLimits,      \* values of maximumBatchesPerSweep to look at
  InputAge, ResultAge, MetadataAge,  \* PostgresProcessRunStoreRetention
  History,          \* webhookDeliveryHistoryMs
  ConversationAge,  \* retention of a conversation since its last turn
  DeletionGrace,
  LastSweepDay,     \* bound on the clock
  SweepFaultBound,  \* bound: failed batches and crashes
  OtherBound        \* bound: steps of workers, relays and callers

ASSUME SweepAssumption ==
  /\ {Rows, SweepBatchSize, InputAge, ResultAge, MetadataAge, History,
      ConversationAge, DeletionGrace, LastSweepDay} \subseteq Nat \ {0}
  /\ SweepLimits \subseteq Nat \ {0}
  /\ {SweepFaultBound, OtherBound} \subseteq Nat

VARIABLES
  table,         \* "runs" or "conversations": what this cleaner cleans
  limit,         \* maximumBatchesPerSweep
  rows,          \* [Id -> row]
  locked,        \* conversations whose row some transaction has locked
  today,
  cleaner,       \* "up", "closed" or "down"
  walk,          \* the sweep: [phase, asOf, cursor, batches]
  continuation,  \* [asOf, cursor], cursor 0 for none
  sweepResult,   \* how the last sweep ended
  counted,       \* the sums of the audit rows' counts
  still,         \* rows nobody else has touched since the sweep's first batch
  sweepFaults, others

sweepWorld == <<table, limit, today, locked>>
sweepVars == <<sweepWorld, rows, cleaner, walk, continuation, sweepResult, counted,
               still, sweepFaults, others>>

Id == 1..Rows
Day == 0..LastSweepDay
NoContinuation == [asOf |-> 0, cursor |-> 0]

-----------------------------------------------------------------------------
(* A run: are its input and its result still there, is a delivery of it    *)
(* open, when did the last one end, is a delivery's message unsent, the    *)
(* finished attempts kept, and how many there were in all.                 *)

Row(status, finished, open, ended, unsent, tries) ==
  [status |-> status, finished |-> finished, input |-> TRUE, result |-> TRUE,
   open |-> open, ended |-> ended, unsent |-> unsent, tries |-> tries,
   made |-> Cardinality(tries)]

AttemptOn(n, d) == [number |-> n, day |-> d]

FinishedRun(d) ==
  {Row("finished", d, FALSE, 0, FALSE, {}), Row("finished", d, TRUE, 0, TRUE, {}),
   Row("finished", d, TRUE, 0, FALSE, {AttemptOn(1, d)}),
   Row("finished", d, FALSE, d, FALSE, {AttemptOn(1, d)})}

Recent(x, asOf) == {a \in x.tries : a.day + History > asOf}

(* candidateQuery *)
RunIsDue(x, asOf) ==
  /\ x.status = "finished"
  /\ \/ x.input /\ InputAge <= asOf
     \/ x.result /\ x.finished + ResultAge <= asOf
     \/ MetadataAge <= asOf
     \/ Recent(x, asOf) # x.tries

(* A delivery, or the message of one, keeps the run. *)
KeptByDelivery(x, asOf) == x.open \/ x.ended + History > asOf \/ x.unsent

BrokenRunIsDeleted(x, asOf) == MetadataAge <= asOf /\ ~KeptByDelivery(x, asOf)
RunIsDeleted(x, asOf) ==
  /\ MetadataAge <= asOf /\ InputAge <= asOf /\ x.finished + ResultAge <= asOf
  /\ ~KeptByDelivery(x, asOf)

(* Contents first, then the row, and what is left of it by cascade. *)
CleanedRun(x, asOf) ==
  LET stripped == [x EXCEPT !.input = @ /\ InputAge > asOf,
                            !.result = @ /\ x.finished + ResultAge > asOf,
                            !.tries = Recent(x, asOf)]
  IN IF RunIsDeleted(x, asOf)
     THEN [stripped EXCEPT !.status = "gone", !.tries = {}] ELSE stripped

-----------------------------------------------------------------------------
(* A conversation: when it expires, or when the fenced one is deleted, and *)
(* who fenced it.                                                          *)

Conversation(status, expires, by, who) ==
  [status |-> status, expires |-> expires, by |-> by, who |-> who]
Fenced(x) == x.status \in {"deleting", "expired"}

ConversationIsDue(x, asOf) ==
  \/ x.status = "live" /\ x.expires <= asOf
  \/ Fenced(x) /\ x.by <= asOf

ExpiredBy(x, who) ==
  [x EXCEPT !.status = "expired", !.by = x.expires + DeletionGrace, !.who = who]

(* A conversation that the batch expires may be due for deletion at once. *)
CleanedConversation(x, asOf) ==
  LET fenced == IF x.status = "live" /\ x.expires <= asOf THEN ExpiredBy(x, "cleaner") ELSE x
  IN IF Fenced(fenced) /\ fenced.by <= asOf THEN [fenced EXCEPT !.status = "gone"] ELSE fenced

-----------------------------------------------------------------------------
(* A batch.                                                                *)

Due(r, asOf) ==
  IF table = "runs" THEN RunIsDue(rows[r], asOf) ELSE ConversationIsDue(rows[r], asOf)
Cleaned(r, asOf) ==
  IF table = "runs" THEN CleanedRun(rows[r], asOf) ELSE CleanedConversation(rows[r], asOf)

(* The rows after the cursor that are due, the first of them, without the  *)
(* conversations that are locked; a locked run is waited for.              *)
Candidates == {r \in Id \ locked : r > walk.cursor /\ Due(r, walk.asOf)}
CleanupBatch == {r \in Candidates : Cardinality({q \in Candidates : q <= r}) <= SweepBatchSize}

BrokenNextOf(batch) ==
  IF batch # {} /\ \E r \in Id : r > Max(batch) + 1 /\ Due(r, walk.asOf) THEN Max(batch)
  ELSE 0

(* The next cursor, 0 when no row after this batch is due, locked or not. *)
NextOf(batch) ==
  IF batch # {} /\ \E r \in Id : r > Max(batch) /\ Due(r, walk.asOf) THEN Max(batch) ELSE 0

HowMany(batch, P(_)) == Cardinality({r \in batch : P(r)})
Tried(r, attempts) == {<<r, a.number>> : a \in attempts}

(* The counts of the batch's audit row, added to those before; how many    *)
(* runs were examined or kept says nothing about what is missing.          *)
Counts(batch, after) ==
  IF table = "runs"
  THEN [counted EXCEPT
    !.inputs = @ + HowMany(batch, LAMBDA r : rows[r].input /\ ~after[r].input),
    !.results = @ + HowMany(batch, LAMBDA r : rows[r].result /\ ~after[r].result),
    !.tries = @ + Cardinality(UNION {
                Tried(r, rows[r].tries \ Recent(rows[r], walk.asOf)) : r \in batch}),
    !.gone = @ + HowMany(batch, LAMBDA r : after[r].status = "gone")]
  ELSE [counted EXCEPT
    !.expired = @ + HowMany(batch, LAMBDA r : rows[r].status = "live"),
    !.gone = @ + HowMany(batch, LAMBDA r : after[r].status = "gone")]

(* One transaction: the rows of the batch and its audit row. *)
BatchCommitted ==
  LET after == [r \in Id |-> IF r \in CleanupBatch THEN Cleaned(r, walk.asOf) ELSE rows[r]]
  IN rows' = after /\ counted' = Counts(CleanupBatch, after)

-----------------------------------------------------------------------------
(* The sweep.                                                              *)

BrokenSweepTime == today
SweepTime == IF continuation.cursor # 0 THEN continuation.asOf ELSE today

StartSweep ==
  /\ cleaner = "up" /\ walk.phase = "idle"
  /\ walk' = [phase |-> "batch", asOf |-> SweepTime, cursor |-> continuation.cursor,
              batches |-> 0]
  /\ still' = IF continuation.cursor = 0 THEN Id \ locked ELSE still
  /\ sweepResult' = "none"
  /\ UNCHANGED <<sweepWorld, rows, cleaner, continuation, counted, sweepFaults, others>>

SweepOver(result, next) ==
  /\ walk' = [walk EXCEPT !.phase = "idle", !.cursor = 0]
  /\ sweepResult' = result /\ continuation' = next

CleanBatch ==
  /\ walk.phase = "batch"
  /\ BatchCommitted
  /\ LET next == NextOf(CleanupBatch) IN
     IF next = 0 THEN SweepOver("complete", NoContinuation)
     ELSE /\ walk' = [walk EXCEPT !.phase = "between", !.cursor = next, !.batches = @ + 1]
          /\ UNCHANGED <<sweepResult, continuation>>
  /\ UNCHANGED <<sweepWorld, cleaner, still, sweepFaults, others>>

GoOn ==
  /\ walk.phase = "between" /\ walk.batches < limit /\ cleaner = "up"
  /\ walk' = [walk EXCEPT !.phase = "batch"]
  /\ UNCHANGED <<sweepWorld, rows, cleaner, continuation, sweepResult, counted, still,
                 sweepFaults, others>>

StopAtLimit ==
  /\ walk.phase = "between" /\ (walk.batches >= limit \/ cleaner = "closed")
  /\ SweepOver("stopped", [asOf |-> walk.asOf, cursor |-> walk.cursor])
  /\ UNCHANGED <<sweepWorld, rows, cleaner, counted, still, sweepFaults, others>>

SweepFault == sweepFaults < SweepFaultBound /\ sweepFaults' = sweepFaults + 1

(* The batch fails, or its answer is lost after the commit: the next sweep *)
(* starts where this one did.                                              *)
BatchFails ==
  /\ walk.phase = "batch" /\ SweepFault
  /\ BatchCommitted \/ UNCHANGED <<rows, counted>>
  /\ SweepOver("failed", continuation)
  /\ UNCHANGED <<sweepWorld, cleaner, still, others>>

CloseCleaner ==
  /\ cleaner = "up" /\ cleaner' = "closed"
  /\ UNCHANGED <<sweepWorld, rows, walk, continuation, sweepResult, counted, still,
                 sweepFaults, others>>

(* The process ends, asked to or not, and another takes its place. *)
CleanerGone ==
  /\ \/ cleaner = "closed" /\ walk.phase = "idle" /\ UNCHANGED sweepFaults
     \/ cleaner # "down" /\ SweepFault
  /\ cleaner' = "down" /\ SweepOver("none", NoContinuation)
  /\ UNCHANGED <<sweepWorld, rows, counted, still, others>>

CleanerStarts ==
  /\ cleaner = "down" /\ cleaner' = "up"
  /\ UNCHANGED <<sweepWorld, rows, walk, continuation, sweepResult, counted, still,
                 sweepFaults, others>>

-----------------------------------------------------------------------------
(* The others.                                                             *)

Touch(r, row) ==
  /\ others < OtherBound /\ others' = others + 1
  /\ rows' = [rows EXCEPT ![r] = row] /\ still' = still \ {r}
  /\ UNCHANGED <<sweepWorld, cleaner, walk, continuation, sweepResult, counted, sweepFaults>>

FinishActiveRun(r) ==
  /\ rows[r].status = "active"
  /\ \E open \in BOOLEAN : Touch(r, Row("finished", today, open, 0, open, {}))

SendMessage(r) == rows[r].unsent /\ Touch(r, [rows[r] EXCEPT !.unsent = FALSE])

TryDelivery(r) ==
  /\ rows[r].open /\ ~rows[r].unsent
  /\ \E ends \in BOOLEAN :
       Touch(r, [rows[r] EXCEPT !.tries = @ \union {AttemptOn(rows[r].made + 1, today)},
                                !.made = @ + 1, !.open = ~ends,
                                !.ended = IF ends THEN today ELSE @])

(* A failed delivery is replayed; the run of a delivery that is gone, is. *)
ReplayDelivery(r) ==
  /\ rows[r].status = "finished" /\ ~rows[r].open /\ rows[r].ended # 0
  /\ Touch(r, [rows[r] EXCEPT !.open = TRUE, !.unsent = TRUE])

RenewConversation(r) ==
  /\ rows[r].status = "live" /\ rows[r].expires > today
  /\ Touch(r, [rows[r] EXCEPT !.expires = today + ConversationAge])

DeleteConversation(r) ==
  /\ rows[r].status = "live" /\ rows[r].expires > today
  /\ Touch(r, [rows[r] EXCEPT !.status = "deleting", !.by = today + DeletionGrace,
                              !.who = "owner"])

(* Any call that meets an expired conversation fences it first. *)
ExpireConversation(r) ==
  /\ rows[r].status = "live" /\ rows[r].expires <= today
  /\ Touch(r, ExpiredBy(rows[r], "caller"))

LockConversation(r) ==
  /\ rows[r].status # "gone" /\ r \notin locked
  /\ others < OtherBound /\ others' = others + 1
  /\ locked' = locked \union {r} /\ still' = still \ {r}
  /\ UNCHANGED <<table, limit, today, rows, cleaner, walk, continuation, sweepResult,
                 counted, sweepFaults>>

UnlockConversation(r) ==
  /\ r \in locked /\ locked' = locked \ {r}
  /\ UNCHANGED <<table, limit, today, rows, cleaner, walk, continuation, sweepResult,
                 counted, still, sweepFaults, others>>

NextSweepDay ==
  /\ today < LastSweepDay /\ today' = today + 1
  /\ UNCHANGED <<table, limit, locked, rows, cleaner, walk, continuation, sweepResult,
                 counted, still, sweepFaults, others>>

SweepInit ==
  /\ table \in {"runs", "conversations"} /\ limit \in SweepLimits
  /\ rows \in [Id -> IF table = "runs"
                     THEN {Row("active", 0, FALSE, 0, FALSE, {})}
                          \union FinishedRun(0) \union FinishedRun(1)
                     ELSE {Conversation("live", d, 0, "none") : d \in 1..2} \union
                          {Conversation("deleting", 2, d, "owner") : d \in 1..2}]
  /\ locked = {} /\ today = 1 /\ cleaner = "up"
  /\ walk = [phase |-> "idle", asOf |-> 0, cursor |-> 0, batches |-> 0]
  /\ continuation = NoContinuation /\ sweepResult = "none"
  /\ counted = [inputs |-> 0, results |-> 0, tries |-> 0, gone |-> 0, expired |-> 0]
  /\ still = {} /\ sweepFaults = 0 /\ others = 0

RunMoves(r) == FinishActiveRun(r) \/ SendMessage(r) \/ TryDelivery(r) \/ ReplayDelivery(r)
ConversationMoves(r) ==
  \/ RenewConversation(r) \/ DeleteConversation(r) \/ ExpireConversation(r)
  \/ LockConversation(r) \/ UnlockConversation(r)

SweepNext ==
  \/ StartSweep \/ CleanBatch \/ GoOn \/ StopAtLimit \/ BatchFails
  \/ CloseCleaner \/ CleanerGone \/ CleanerStarts \/ NextSweepDay
  \/ table = "runs" /\ \E r \in Id : RunMoves(r)
  \/ table = "conversations" /\ \E r \in Id : ConversationMoves(r)

SweepSpec == SweepInit /\ [][SweepNext]_sweepVars

-----------------------------------------------------------------------------
(* Properties.                                                             *)

(* When a sweep says it is complete, whichever limits, failed batches and  *)
(* changes of the day it went through, no row that was left alone since    *)
(* its first batch is still due at the time the sweep gives, except a run  *)
(* that a delivery, or a content whose own time has not come, keeps        *)
(* (retention/index.ts:62-93,115-137; retention.ts likewise).              *)
NothingDueIsSkipped ==
  sweepResult = "complete" =>
    \A r \in still : Due(r, walk.asOf) =>
      /\ table = "runs" /\ MetadataAge <= walk.asOf /\ ~RunIsDeleted(rows[r], walk.asOf)
      /\ CleanedRun(rows[r], walk.asOf) = rows[r]

(* The audit accounts for everything that is missing: each input, each     *)
(* result, each attempt of a delivery and each row once, also when answers *)
(* of batches are lost and sweeps repeated, and a deleted run takes        *)
(* nothing with it that was not counted (retention/postgres.ts:63-188,     *)
(* agent-conversations/retention.postgres.ts:50-150).                      *)
CleanupAuditTells ==
  LET Missing(P(_)) == Cardinality({r \in Id : P(rows[r])})
  IN /\ counted.gone = Missing(LAMBDA x : x.status = "gone")
     /\ IF table = "conversations"
        THEN counted.expired = Missing(LAMBDA x : x.who = "cleaner")
        ELSE /\ counted.inputs = Missing(LAMBDA x : ~x.input)
             /\ counted.results = Missing(LAMBDA x : ~x.result)
             /\ counted.tries = Cardinality(UNION {
                  {<<r, n>> : n \in 1..rows[r].made} \ Tried(r, rows[r].tries) : r \in Id})
             /\ \A r \in Id : rows[r].status = "gone" => ~rows[r].input /\ ~rows[r].result
=============================================================================
