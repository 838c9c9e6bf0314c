--------------------------- MODULE ReleaseReadiness ---------------------------
(***************************************************************************)
(* The recovery gate of a staged release (src/src/process-runs/ops/        *)
(* postgres.ts): from canary on the API is ready only while the newest     *)
(* manual recovery of all runs has walked through every run.  A recovery   *)
(* is a chain of batches, each a row of queue_recovery_runs and each       *)
(* resuming at the cursor of the one before, possibly in another process   *)
(* that was given the same actor and cutoff.  The gate rebuilds the chain  *)
(* from the rows, while operators start, repeat and abandon recoveries and *)
(* runs come and go.  How one batch repairs jobs is in QueueRecovery.      *)
(***************************************************************************)
EXTENDS Integers, Sequences, FiniteSets

CONSTANTS
  LastRun,        \* run ids are 1..LastRun
  ReadyBatchSize,
  RecoveryProcess, \* invocations of the recovery command
  Actor,          \* ids the operators give
  Asked,          \* the command lines they use
  RecoveryMaxAge,
  LastTime,       \* bound: of the clock
  RowBound        \* bound: rows of the audit

ASSUME ReadinessAssumption ==
  /\ LastRun \in Nat /\ ReadyBatchSize \in Nat \ {0} /\ RecoveryMaxAge \in Nat
  /\ LastTime \in Nat \ {0} /\ RowBound \in Nat

RunNo == 1..LastRun
Time == 1..LastTime

\* A cursor is the id after which a batch begins; 0 is none.
RecoveryRequest ==
  [actor : Actor, mode : {"all", "stale"}, dryRun : BOOLEAN, asOf : Time, cursor : 0..LastRun]

ASSUME AskedAssumption == Asked \subseteq RecoveryRequest

VARIABLES
  clock,
  storedAt,   \* per run: when its row appeared, 0 before
  finished,   \* runs that are over
  gateRows,   \* queue_recovery_runs in the order of their insertion, with the
              \* runs named by their queue_recovery_items
  walker      \* per process: what it does, and the batch at hand

readyVars == <<clock, storedAt, finished, gateRows, walker>>

Nobody == [phase |-> "idle"]

Unfinished == {r \in RunNo : storedAt[r] # 0 /\ r \notin finished}

-----------------------------------------------------------------------------
(* The command.                                                           *)

\* A cutoff that is given is that of an earlier command, so a time past.
StartCommand(p) ==
  /\ walker[p].phase = "idle" /\ Len(gateRows) < RowBound
  /\ \E request \in Asked :
       /\ request.asOf <= clock
       /\ walker' = [walker EXCEPT ![p] =
            [phase |-> "select", request |-> request, startedAt |-> clock]]
  /\ UNCHANGED <<clock, storedAt, finished, gateRows>>

(* Mode "all" takes every run that is not over, mode "stale" some of them. *)
Selectable(request) ==
  LET beyond == {r \in Unfinished : r > request.cursor} IN
    IF request.mode = "all" THEN {beyond} ELSE SUBSET beyond

\* The first ReadyBatchSize of S are handled; the last of them is the next
\* cursor if there are more.
FirstOf(S) == {r \in S : Cardinality({q \in S : q <= r}) <= ReadyBatchSize}
IsNextCursor(S, next) ==
  IF FirstOf(S) = S THEN next = 0
  ELSE next \in FirstOf(S) /\ \A q \in FirstOf(S) : q <= next

SelectBatch(p) ==
  /\ walker[p].phase = "select" /\ Len(gateRows) < RowBound
  /\ \E S \in Selectable(walker[p].request), next \in 0..LastRun :
       /\ IsNextCursor(S, next)
       /\ walker' = [walker EXCEPT ![p] =
            [phase |-> "begin", request |-> @.request, batch |-> FirstOf(S),
             next |-> next, startedAt |-> @.startedAt]]
  /\ UNCHANGED <<clock, storedAt, finished, gateRows>>

\* The row is written after the batch was read, with the time before it was.
BeginRow(p) ==
  /\ walker[p].phase = "begin" /\ Len(gateRows) < RowBound
  /\ gateRows' = Append(gateRows, [request |-> walker[p].request, startedAt |-> walker[p].startedAt,
                           status |-> "running", next |-> 0, items |-> {},
                           failed |-> FALSE, completedAt |-> 0])
  /\ walker' = [walker EXCEPT ![p] = [phase |-> "work", request |-> @.request, batch |-> @.batch,
                                  next |-> @.next, row |-> Len(gateRows) + 1]]
  /\ UNCHANGED <<clock, storedAt, finished>>

\* The command goes on at the next cursor, unless there is none or it was
\* asked for a single batch or told to stop.
CompleteRow(p) ==
  /\ walker[p].phase = "work"
  /\ \E someFailed \in BOOLEAN :
       gateRows' = [gateRows EXCEPT ![walker[p].row] =
         [@ EXCEPT !.status = "completed", !.next = walker[p].next, !.items = walker[p].batch,
                   !.failed = someFailed, !.completedAt = clock]]
  /\ \/ walker' = [walker EXCEPT ![p] = Nobody]
     \/ /\ walker[p].next # 0
        /\ walker' = [walker EXCEPT ![p] =
             [phase |-> "select", request |-> [@.request EXCEPT !.cursor = walker[p].next],
              startedAt |-> clock]]
  /\ UNCHANGED <<clock, storedAt, finished>>

\* An exception ends the command and closes its row as failed.  The items
\* it had recorded by then are of no interest here.
FailRow(p) ==
  /\ walker[p].phase = "work"
  /\ gateRows' = [gateRows EXCEPT ![walker[p].row] =
                [@ EXCEPT !.status = "failed", !.completedAt = clock]]
  /\ walker' = [walker EXCEPT ![p] = Nobody]
  /\ UNCHANGED <<clock, storedAt, finished>>

\* The process dies, or fails before it has a row or to close it.
CommandVanishes(p) ==
  /\ walker[p].phase # "idle"
  /\ walker' = [walker EXCEPT ![p] = Nobody]
  /\ UNCHANGED <<clock, storedAt, finished, gateRows>>

-----------------------------------------------------------------------------
(* Callers, workers and time.                                              *)

RunArrives(r) ==
  /\ storedAt[r] = 0 /\ storedAt' = [storedAt EXCEPT ![r] = clock]
  /\ UNCHANGED <<clock, finished, gateRows, walker>>

RunEnds(r) ==
  /\ r \in Unfinished /\ finished' = finished \union {r}
  /\ UNCHANGED <<clock, storedAt, gateRows, walker>>

ClockTicks ==
  /\ clock < LastTime /\ clock' = clock + 1
  /\ UNCHANGED <<storedAt, finished, gateRows, walker>>

ReadinessInit ==
  /\ clock = 1 /\ storedAt = [r \in RunNo |-> 0] /\ finished = {}
  /\ gateRows = <<>> /\ walker = [p \in RecoveryProcess |-> Nobody]

ReadinessNext ==
  \/ \E p \in RecoveryProcess :
       \/ StartCommand(p) \/ SelectBatch(p) \/ BeginRow(p) \/ CompleteRow(p)
       \/ FailRow(p) \/ CommandVanishes(p)
  \/ \E r \in RunNo : RunArrives(r) \/ RunEnds(r)
  \/ ClockTicks

ReadinessSpec == ReadinessInit /\ [][ReadinessNext]_readyVars

-----------------------------------------------------------------------------
(* The gate: releaseGateQuery and the checks of its answer.  All rows of    *)
(* this model are manual.                                                  *)

RowNo == 1..Len(gateRows)

\* latest_recovery_root: rows started at the same time are ordered by a
\* random id, so any of the newest may be the root.
CanBeRoot(i) ==
  /\ gateRows[i].request.mode = "all" /\ gateRows[i].request.cursor = 0
  /\ \A j \in RowNo : gateRows[j].request.mode = "all" /\ gateRows[j].request.cursor = 0 =>
       gateRows[j].startedAt <= gateRows[i].startedAt

BrokenResumes(j, i) ==
  /\ gateRows[i].next # 0
  /\ gateRows[j].request = [gateRows[i].request EXCEPT
                              !.cursor = gateRows[i].next, !.asOf = gateRows[j].request.asOf]

\* Same operator, mode, cutoff and kind, beginning where the other ended.
Resumes(j, i) ==
  /\ gateRows[i].next # 0
  /\ gateRows[j].request = [gateRows[i].request EXCEPT !.cursor = gateRows[i].next]

Follows(j, i) == gateRows[i].status = "completed" /\ Resumes(j, i)

\* latest_recovery_chain: what the recursive query collects.
ClosedUnderFollows(S) == \A i \in S, j \in RowNo : Follows(j, i) => j \in S
Chain(root) ==
  {k \in RowNo : \A S \in SUBSET RowNo : root \in S /\ ClosedUnderFollows(S) => k \in S}

ChainEnds(C) ==
  /\ \E i \in C : gateRows[i].status = "completed" /\ gateRows[i].next = 0
  /\ \A i \in C : gateRows[i].next # 0 => \E j \in C : Resumes(j, i)

GateOpens(root) ==
  LET C == Chain(root) IN
    /\ CanBeRoot(root)
    /\ \A i \in C : gateRows[i].status = "completed" /\ ~gateRows[i].failed
    /\ \E i \in C : gateRows[i].completedAt >= clock - RecoveryMaxAge
    /\ ChainEnds(C)

-----------------------------------------------------------------------------
(* Properties.                                                             *)

ReadinessTypeOK ==
  /\ clock \in Time /\ storedAt \in [RunNo -> 0..LastTime] /\ finished \subseteq RunNo
  /\ \A i \in RowNo :
       /\ gateRows[i].request \in RecoveryRequest /\ gateRows[i].next \in 0..LastRun
       /\ gateRows[i].status \in {"running", "completed", "failed"}
       /\ gateRows[i].items \subseteq RunNo

(* While the gate is open, every run that was stored before the cutoff of  *)
(* the recovery it relies on and is not over was handled, without a        *)
(* failure, by a batch with that cutoff: no batch that was repeated, taken *)
(* over, run beside another command or left half-way hides a run from the  *)
(* recovery (ops/postgres.ts:290-320 and its query).                       *)
OpenGateMeansAllWereSeen ==
  \A root \in RowNo : GateOpens(root) =>
    \A r \in Unfinished : storedAt[r] < gateRows[root].request.asOf =>
      \E i \in RowNo : /\ gateRows[i].request.asOf = gateRows[root].request.asOf
                       /\ gateRows[i].request.dryRun = gateRows[root].request.dryRun
                       /\ gateRows[i].status = "completed" /\ ~gateRows[i].failed
                       /\ r \in gateRows[i].items
===============================================================================
