----------------------- MODULE AgentTurnDeliveryProofs -----------------------
(***************************************************************************)
(* What holds of the delivery of agent turns for any turns, workers, batch *)
(* sizes and any number of faults: no claim is dropped but by a crash, a   *)
(* forced exit or a failing store, and no message counts as published      *)
(* before a job was added.  The tables' own invariant is that of the       *)
(* conversation store, whose lemmas about its transactions are used here.  *)
(***************************************************************************)
EXTENDS AgentTurnDelivery, AgentConversationStoreProofs

-----------------------------------------------------------------------------
(* The inductive invariant *)

\* No turn is ever missing here, and nobody is accepting another.
Present == \A t \in TurnId : turn[t].status \in InUse
TablesSound == TableInv /\ SessionTypes /\ Present

WorkerRow == [phase : {"idle", "taken", "running", "done", "threw"},
              turn : TurnId \cup {None}, token : 0..AttemptBound]
ClosingPhase == {"no", "draining", "released", "cancelled", "forced"}
RelayRow == Loop({"idle", "working", "enqueuing", "marking", "releasing"}, ClaimedMessage)
ReconRow == Loop({"idle", "inspecting", "repairing", "enqueuing"}, Inspected)

QueueTypes == job \in [TurnId -> Job] /\ message \in [TurnId -> Message]
WorkerTypes == worker \in [Worker -> WorkerRow] /\ closing \in [Worker -> ClosingPhase]
LoopTypes == relay \in RelayRow /\ recon \in ReconRow
HistoryTypes == enqueued \subseteq TurnId /\ orphaned \subseteq TurnId /\ faults \in 0..FaultBound

\* Whoever is at work knows what it works on; the relay marks a message only
\* after it has added a job.
WorkerAims == \A w \in Worker : worker[w].phase # "idle" => worker[w].turn \in TurnId
RelayAims ==
  /\ relay.phase \in {"enqueuing", "marking", "releasing"} => relay.at \in ClaimedMessage
  /\ relay.phase = "marking" => relay.at.turn \in enqueued
ReconAims == recon.phase = "enqueuing" => recon.at \in Inspected

OwnTypes == QueueTypes /\ WorkerTypes /\ LoopTypes /\ HistoryTypes
Aims == WorkerAims /\ RelayAims /\ ReconAims
DeliveryInv ==
  TablesSound /\ OwnTypes /\ Aims /\ ClaimsAreNotDropped /\ PublishedMeansEnqueued

USE DEF conversationVars, turnVars, tables, storeVars, loopVars, workerVars, history

LEMMA DeliveryTypes == TablesSound /\ OwnTypes => DeliveryTypeOK
BY TypeParts DEF TablesSound, OwnTypes, QueueTypes, WorkerTypes, LoopTypes, HistoryTypes,
                 DeliveryTypeOK, WorkerRow, ClosingPhase, RelayRow, ReconRow

-----------------------------------------------------------------------------
(* What the store's transactions do to the tables *)

\* A step that starts no attempt but of the turns in T: nothing moves to another
\* conversation, none comes back to life, a turn that still runs is as it was,
\* and a message is sealed only with its conversation.
Moves(T) ==
  /\ TableInv' /\ UNCHANGED session
  /\ \A t \in TurnId : turn'[t].conversation = turn[t].conversation
  /\ \A c \in ConversationId : Live(c)' => Live(c)
  /\ \A t \in TurnId \ T : turn'[t].status = "running" => turn'[t] = turn[t]
  /\ \A t \in TurnId : outbox'[t] = "sealed" =>
       outbox[t] = "sealed" \/ ~Live(turn[t].conversation)'

LEMMA HomesKnown ==
  ASSUME TablesSound, NEW t \in TurnId
  PROVE  /\ turn[t].conversation \in ConversationId /\ turn[t].conversation # None
         /\ turn[t] \in TurnRow
         /\ turn[t].status = "running" => Live(turn[t].conversation)
BY NoneAssumption DEF TablesSound, Present, TableInv, TableTypes, TurnsHaveHomes, InUse,
                      Live, LiveStatus, PendingStatus

LEMMA MovesKeepSound ==
  ASSUME TablesSound, NEW T, Moves(T)
  PROVE  TablesSound'
<1>1. TableInv' /\ SessionTypes'
  BY DEF Moves, TablesSound, SessionTypes
<1>2. Present'
  <2> SUFFICES ASSUME NEW t \in TurnId PROVE turn'[t].status \in InUse
    BY DEF Present
  <2>1. turn'[t].conversation # None
    BY HomesKnown DEF Moves
  <2>2. turn'[t].status \in {"absent", "deleted"} \cup InUse
        /\ (turn'[t].status \in {"absent", "deleted"} => turn'[t].conversation = None)
    BY <1>1 DEF TableInv, TableTypes, TurnRow, InUse, TurnsHaveHomes
  <2> QED
    BY <2>1, <2>2
<1> QED
  BY <1>1, <1>2 DEF TablesSound

LEMMA MoveSame ==
  ASSUME TablesSound, UNCHANGED storeVars
  PROVE  Moves({})
<1>1. UNCHANGED tables /\ UNCHANGED <<conversation, turn, outbox, session>>
  OBVIOUS
<1>2. TableInv'
  BY <1>1, SameTables DEF TablesSound
<1> QED
  BY <1>1, <1>2 DEF Moves, Live

LEMMA MoveFence ==
  ASSUME TablesSound, NEW c \in ConversationId, Live(c), NEW st \in FencedStatus, Fence(c, st),
         UNCHANGED session
  PROVE  Moves({}) /\ \A t \in TurnId : turn[t].conversation = c => turn'[t].status # "running"
<1>1. TableInv /\ TableInv'
  BY FenceTables DEF TablesSound
<1>2. /\ \A t \in TurnId :
           turn'[t] = IF t \in TurnsOf(c) /\ Pending(t) THEN FailedByFence(t) ELSE turn[t]
      /\ \A d \in ConversationId \ {c} : conversation'[d] = conversation[d]
      /\ conversation'[c].status = st
  BY <1>1, FenceEffect
<1>3. \A t \in TurnId : turn[t] \in TurnRow
  BY <1>1 DEF TableInv, TableTypes
<1>4. \A t \in TurnId : /\ turn'[t].conversation = turn[t].conversation
                        /\ turn'[t].status = "running" => turn'[t] = turn[t]
                        /\ turn[t].conversation = c => turn'[t].status # "running"
  BY <1>2, <1>3 DEF FailedByFence, TurnRow, Pending, PendingStatus, TurnsOf
<1>5. ~Live(c)' /\ \A d \in ConversationId : Live(d)' => Live(d)
  BY <1>2 DEF Live, LiveStatus, FencedStatus
<1>6. \A t \in TurnId : outbox'[t] = "sealed" =>
        outbox[t] = "sealed" \/ ~Live(turn[t].conversation)'
  <2> SUFFICES ASSUME NEW t \in TurnId, outbox'[t] = "sealed", outbox[t] # "sealed"
               PROVE  ~Live(turn[t].conversation)'
    OBVIOUS
  <2>1. turn[t].conversation = c
    BY DEF Fence, TurnsOf
  <2>2. turn'[t].conversation = c
    BY <1>4, <2>1
  <2> QED
    BY <1>5, <2>2 DEF Live
<1> QED
  BY <1>1, <1>4, <1>5, <1>6 DEF Moves

LEMMA MoveExpire ==
  ASSUME TablesSound, NEW c \in ConversationId, ExpireIfDue(c), UNCHANGED session
  PROVE  Moves({}) /\ \A t \in TurnId : turn[t].conversation = c => turn'[t].status # "running"
BY MoveFence DEF ExpireIfDue, FencedStatus

\* An attempt starts: the turn runs under a token it did not have.
LEMMA MoveStart ==
  ASSUME TablesSound, NEW t \in TurnId, Live(turn[t].conversation), StartAttempt(t),
         UNCHANGED session
  PROVE  /\ Moves({t}) /\ turn'[t].status = "running" /\ turn'[t] # turn[t]
         /\ turn'[t].claim \in 0..AttemptBound
<1>1. TableInv /\ TableInv' /\ turn[t] \in TurnRow
  BY StartTables DEF TablesSound, TableInv, TableTypes
<1>2. /\ turn \in [TurnId -> TurnRow] /\ attempts \in [TurnId -> Seq(AttemptStatus)]
      /\ conversation \in [ConversationId -> ConversationRow] /\ turn' \in [TurnId -> TurnRow]
  BY <1>1 DEF TableInv, TableTypes
<1> DEFINE token == Len(attempts[t]) + 1  c == turn[t].conversation
<1>3. /\ turn' = [turn EXCEPT ![t].status = "running", ![t].claim = token]
      /\ conversation' = [conversation EXCEPT ![c].status = "busy"]
      /\ outbox' = outbox
  BY DEF StartAttempt
<1>4. \A u \in TurnId \ {t} : turn'[u] = turn[u]
  BY <1>2, <1>3
<1>5. /\ turn'[t].status = "running" /\ turn'[t].claim = token
      /\ turn'[t].conversation = turn[t].conversation
  BY <1>1, <1>2, <1>3 DEF TurnRow
<1>6. turn[t].claim # token
  <2>1. Len(attempts[t]) \in Nat
    BY <1>2, LenProperties
  <2>2. AttemptsFit(t)
    BY <1>1 DEF TableInv
  <2>3. CASE turn[t].status = "running"
    BY <2>1, <2>2, <2>3 DEF AttemptsFit, Fits
  <2>4. CASE turn[t].status # "running"
    BY <2>1, <2>2, <2>4 DEF AttemptsFit, Fits
  <2> QED
    BY <2>3, <2>4
<1>7. \A d \in ConversationId : Live(d)' => Live(d)
  <2>1. \A d \in ConversationId \ {c} : conversation'[d] = conversation[d]
    BY <1>2, <1>3
  <2> QED
    BY <2>1 DEF Live
<1>8. turn'[t].claim \in 0..AttemptBound
  BY <1>2 DEF TurnRow
<1>9. Moves({t})
  BY <1>1, <1>3, <1>4, <1>5, <1>7 DEF Moves
<1> QED
  BY <1>5, <1>6, <1>8, <1>9

\* An attempt ends: the turn no longer runs.
LEMMA MoveEnd ==
  ASSUME TablesSound, NEW t \in TurnId, Live(turn[t].conversation), TableInv', UNCHANGED session,
         NEW row \in TurnRow, row.status # "running", row.conversation = turn[t].conversation,
         turn' = [turn EXCEPT ![t] = row],
         NEW st, conversation' = [conversation EXCEPT ![turn[t].conversation].status = st],
         UNCHANGED outbox
  PROVE  Moves({}) /\ turn'[t].status # "running"
<1>1. turn \in [TurnId -> TurnRow] /\ conversation \in [ConversationId -> ConversationRow]
  BY DEF TablesSound, TableInv, TableTypes
<1>2. turn'[t] = row /\ \A u \in TurnId \ {t} : turn'[u] = turn[u]
  BY <1>1
<1>3. \A d \in ConversationId : Live(d)' => Live(d)
  <2>1. \A d \in ConversationId \ {turn[t].conversation} : conversation'[d] = conversation[d]
    BY <1>1
  <2> QED
    BY <2>1 DEF Live
<1> QED
  BY <1>2, <1>3 DEF Moves

LEMMA MoveFinish ==
  ASSUME TablesSound, NEW t \in TurnId, Live(turn[t].conversation), NEW token,
         NEW st \in TerminalStatus, NEW error \in ErrorCode, (error # None) <=> (st = "failed"),
         Finish(t, token, st, error), UNCHANGED session
  PROVE  Moves({}) /\ turn'[t].status # "running"
<1> DEFINE row == [turn[t] EXCEPT !.status = st, !.claim = 0, !.error = error]
<1>1. TableInv' /\ turn[t] \in TurnRow /\ turn \in [TurnId -> TurnRow]
  BY FinishTables DEF TablesSound, TableInv, TableTypes
<1>2. row \in TurnRow /\ row.status = st /\ row.conversation = turn[t].conversation
      /\ st # "running"
  <2>1. 0 \in 0..AttemptBound /\ turn[t] \in TurnRow
    BY <1>1, LimitAssumption
  <2>2. row \in TurnRow
    BY <2>1 DEF TurnRow, TerminalStatus, PendingStatus
  <2>3. row.status = st /\ row.conversation = turn[t].conversation
    BY <2>1 DEF TurnRow
  <2> QED
    BY <2>2, <2>3 DEF TerminalStatus
<1>3. turn' = [turn EXCEPT ![t] = row]
      /\ conversation' = [conversation EXCEPT ![turn[t].conversation].status = "ready"]
      /\ UNCHANGED outbox
  BY <1>1 DEF Finish
<1> HIDE DEF row
<1> QED
  BY <1>1, <1>2, <1>3, MoveEnd

LEMMA MoveGiveBack ==
  ASSUME TablesSound, NEW t \in TurnId, Live(turn[t].conversation), NEW token,
         GiveBack(t, token), UNCHANGED session
  PROVE  Moves({}) /\ turn'[t].status # "running"
<1> DEFINE row == [turn[t] EXCEPT !.status = "queued", !.claim = 0]
<1>1. TableInv' /\ turn[t] \in TurnRow /\ turn \in [TurnId -> TurnRow]
  BY GiveBackTables DEF TablesSound, TableInv, TableTypes
<1>2. row \in TurnRow /\ row.status = "queued" /\ row.conversation = turn[t].conversation
  <2>1. 0 \in 0..AttemptBound /\ turn[t] \in TurnRow
    BY <1>1, LimitAssumption
  <2> QED
    BY <2>1 DEF TurnRow, PendingStatus
<1>3. turn' = [turn EXCEPT ![t] = row]
      /\ conversation' = [conversation EXCEPT ![turn[t].conversation].status = "busy"]
      /\ UNCHANGED outbox
  BY <1>1 DEF GiveBack
<1> HIDE DEF row
<1> QED
  BY <1>1, <1>2, <1>3, MoveEnd

LEMMA MoveRelease ==
  ASSUME TablesSound, NEW t \in TurnId, NEW token, ReleaseClaim(t, token)
  PROVE  Moves({}) /\ turn'[t].status # "running"
<1> DEFINE c == turn[t].conversation
<1>1. c \in ConversationId /\ UNCHANGED session
  BY HomesKnown DEF ReleaseClaim, WithTurn
<1>2. CASE ExpireIfDue(c)
  BY <1>1, <1>2, MoveExpire
<1>3. CASE Usable(c) /\ GiveBack(t, token)
  BY <1>1, <1>3, MoveGiveBack DEF Usable
<1> QED
  BY <1>2, <1>3 DEF ReleaseClaim, WithTurn

LEMMA MoveComplete ==
  ASSUME TablesSound, NEW t \in TurnId, NEW token, NEW st \in TerminalStatus,
         CompleteClaim(t, token, st, IF st = "failed" THEN "OTHER" ELSE None)
  PROVE  Moves({}) /\ turn'[t].status # "running"
<1> DEFINE c == turn[t].conversation  error == IF st = "failed" THEN "OTHER" ELSE None
<1>1. c \in ConversationId /\ UNCHANGED session
  BY HomesKnown DEF CompleteClaim, WithTurn
<1>2. error \in ErrorCode /\ ((error # None) <=> (st = "failed"))
  BY NoneAssumption DEF ErrorCode
<1>3. ExpireIfDue(c) \/ (Usable(c) /\ Finish(t, token, st, error))
  BY DEF CompleteClaim, WithTurn
<1> HIDE DEF error
<1>4. CASE ExpireIfDue(c)
  BY <1>1, <1>4, MoveExpire
<1>5. CASE Usable(c) /\ Finish(t, token, st, error)
  BY <1>1, <1>2, <1>5, MoveFinish DEF Usable
<1> QED
  BY <1>3, <1>4, <1>5

\* Whatever a worker does with the end of its attempt, its claim is over, or it
\* was not its claim any more.
LEMMA MoveSettle ==
  ASSUME TablesSound, NEW w \in Worker, worker[w].turn \in TurnId, Settle(w)
  PROVE  /\ Moves({})
         /\ turn'[worker[w].turn].status = "running" =>
              ~HoldsClaim(worker[w].turn, worker[w].token)
<1> DEFINE t == worker[w].turn  token == worker[w].token
<1>1. CASE ReleaseClaim(t, token)
  BY <1>1, MoveRelease
<1>2. ASSUME NEW st \in TerminalStatus,
             CompleteClaim(t, token, st, IF st = "failed" THEN "OTHER" ELSE None)
      PROVE  Moves({}) /\ turn'[t].status # "running"
  BY <1>2, MoveComplete
<1>3. CASE TooLate(t, token) /\ UNCHANGED storeVars
  <2>1. Moves({})
    BY <1>3, MoveSame
  <2>2. HoldsClaim(t, token) => FALSE
    BY <1>3, HomesKnown DEF TooLate, HoldsClaim
  <2> QED
    BY <2>1, <2>2
<1> QED
  BY <1>1, <1>2, <1>3 DEF Settle

\* A deadline or a lease that passes moves nothing.
LEMMA MoveTime ==
  ASSUME TablesSound, due' \in [ConversationId -> BOOLEAN], leaseOver' \in [TurnId -> BOOLEAN],
         UNCHANGED <<conversation, turn, attempts, operation, outbox, invocation, session>>
  PROVE  Moves({})
<1>1. TableTypes' /\ TurnsHaveHomes'
  BY DEF TablesSound, TableInv, TableTypes, TurnsHaveHomes
<1>2. OneActive' /\ LastExists'
  BY DEF TablesSound, TableInv, OneActive, LastExists, IsLast, TurnsOf, Pending
<1>3. \A t \in TurnId : AttemptsFit(t)'
  BY DEF TablesSound, TableInv, AttemptsFit
<1>4. OperationsLead'
  BY DEF TablesSound, TableInv, OperationsLead
<1> QED
  BY <1>1, <1>2, <1>3, <1>4 DEF Moves, TableInv, Live

-----------------------------------------------------------------------------
(* What a step has to show *)

\* A running turn stays its worker's, or is accounted for, where the workers
\* and the turns of T are.
LEMMA ClaimsKept ==
  ASSUME DeliveryInv, NEW T, Moves(T), orphaned \ T \subseteq orphaned',
         \A w \in Worker :
           \/ worker'[w] = worker[w]
           \/ worker[w].phase # "running" \/ ~HoldsClaim(worker[w].turn, worker[w].token)
           \/ turn'[worker[w].turn].status # "running" \/ worker[w].turn \in orphaned',
         \A t \in T : turn'[t].status = "running" => Working(t)' \/ t \in orphaned'
  PROVE  ClaimsAreNotDropped'
<1> SUFFICES ASSUME NEW t \in TurnId, turn'[t].status = "running"
             PROVE  Working(t)' \/ t \in orphaned'
  BY DEF ClaimsAreNotDropped
<1>1. CASE t \in T
  BY <1>1
<1>2. CASE t \notin T
  <2>1. turn'[t] = turn[t]
    BY <1>2 DEF Moves
  <2>2. Working(t) \/ t \in orphaned
    BY <2>1 DEF DeliveryInv, ClaimsAreNotDropped
  <2>3. CASE Working(t)
    <3>1. PICK w \in Worker : /\ worker[w].phase = "running"
                              /\ worker[w].turn = t /\ worker[w].token = turn[t].claim
      BY <2>3 DEF Working
    <3>2. worker'[w] = worker[w] \/ t \in orphaned'
      BY <2>1, <3>1 DEF HoldsClaim
    <3> QED
      BY <2>1, <3>1, <3>2 DEF Working
  <2> QED
    BY <1>2, <2>2, <2>3
<1> QED
  BY <1>1, <1>2

LEMMA PublishedKept ==
  ASSUME DeliveryInv, NEW T, Moves(T), enqueued \subseteq enqueued'
  PROVE  PublishedMeansEnqueued'
<1> SUFFICES ASSUME NEW t \in TurnId, outbox'[t] = "sealed"
             PROVE  t \in enqueued' \/ ~Live(turn[t].conversation)'
  BY DEF PublishedMeansEnqueued
<1>1. turn'[t].conversation = turn[t].conversation /\ turn[t].conversation \in ConversationId
  BY HomesKnown DEF Moves, DeliveryInv
<1>2. Live(turn[t].conversation)' => Live(turn[t].conversation)
  <2> DEFINE c == turn[t].conversation
  <2>1. conversation'[c].status \in LiveStatus => conversation[c].status \in LiveStatus
    BY <1>1 DEF Moves, Live
  <2> QED
    BY <1>1, <2>1 DEF Live
<1> QED
  BY <1>2 DEF Moves, DeliveryInv, PublishedMeansEnqueued

\* A step of the queue, of one of the dispatcher's loops or of time that leaves
\* the tables and the workers alone.
LEMMA LoopMoves ==
  ASSUME DeliveryInv, UNCHANGED <<storeVars, workerVars, orphaned>>,
         QueueTypes', LoopTypes', RelayAims', ReconAims',
         enqueued \subseteq enqueued', enqueued' \subseteq TurnId, faults' \in 0..FaultBound
  PROVE  DeliveryInv'
<1>1. Moves({}) /\ TablesSound'
  BY MoveSame, MovesKeepSound DEF DeliveryInv
<1>2. OwnTypes' /\ WorkerAims'
  BY DEF DeliveryInv, OwnTypes, WorkerTypes, HistoryTypes, Aims, WorkerAims
<1>3. ClaimsAreNotDropped' /\ PublishedMeansEnqueued'
  BY <1>1, ClaimsKept, PublishedKept
<1> QED
  BY <1>1, <1>2, <1>3 DEF DeliveryInv, Aims

\* A step of the tables alone that starts no attempt.
LEMMA TablesMove ==
  ASSUME DeliveryInv, Moves({}), UNCHANGED <<message, job, workerVars, loopVars, history>>,
         faults' \in 0..FaultBound
  PROVE  DeliveryInv'
<1>1. TablesSound'
  BY MovesKeepSound DEF DeliveryInv
<1>2. OwnTypes' /\ Aims'
  BY DEF DeliveryInv, OwnTypes, QueueTypes, WorkerTypes, LoopTypes, HistoryTypes, Aims,
         WorkerAims, RelayAims, ReconAims
<1>3. ClaimsAreNotDropped' /\ PublishedMeansEnqueued'
  BY ClaimsKept, PublishedKept
<1> QED
  BY <1>1, <1>2, <1>3 DEF DeliveryInv

\* A step of one worker.
LEMMA WorkerMoves ==
  ASSUME DeliveryInv, NEW T, Moves(T), WorkerOnly, NEW w \in Worker, NEW row \in WorkerRow,
         row.phase # "idle" => row.turn \in TurnId, worker' = [worker EXCEPT ![w] = row],
         closing' \in [Worker -> ClosingPhase], job' \in [TurnId -> Job],
         orphaned' \subseteq TurnId, orphaned \ T \subseteq orphaned', faults' \in 0..FaultBound,
         \/ row = worker[w]
         \/ worker[w].phase # "running" \/ ~HoldsClaim(worker[w].turn, worker[w].token)
         \/ turn'[worker[w].turn].status # "running" \/ worker[w].turn \in orphaned',
         \A t \in T : \/ row.phase = "running" /\ row.turn = t /\ row.token = turn'[t].claim
                      \/ t \in orphaned'
  PROVE  DeliveryInv'
<1>1. TablesSound'
  BY MovesKeepSound DEF DeliveryInv
<1>2. worker \in [Worker -> WorkerRow]
  BY DEF DeliveryInv, OwnTypes, WorkerTypes
<1>3. worker'[w] = row /\ \A v \in Worker \ {w} : worker'[v] = worker[v]
  BY <1>2
<1>4. OwnTypes'
  BY <1>2 DEF DeliveryInv, OwnTypes, QueueTypes, WorkerTypes, LoopTypes, HistoryTypes, WorkerOnly
<1>5. WorkerAims'
  BY <1>3 DEF DeliveryInv, Aims, WorkerAims
<1>6. RelayAims' /\ ReconAims'
  BY DEF DeliveryInv, Aims, RelayAims, ReconAims, WorkerOnly
<1>7. ClaimsAreNotDropped'
  <2>1. \A t \in T : Working(t)' \/ t \in orphaned'
    BY <1>3 DEF Working
  <2>2. \A v \in Worker :
           \/ worker'[v] = worker[v]
           \/ worker[v].phase # "running" \/ ~HoldsClaim(worker[v].turn, worker[v].token)
           \/ turn'[worker[v].turn].status # "running" \/ worker[v].turn \in orphaned'
    BY <1>3
  <2> QED
    BY <2>1, <2>2, ClaimsKept
<1>8. PublishedMeansEnqueued'
  BY PublishedKept DEF WorkerOnly
<1> QED
  BY <1>1, <1>4, <1>5, <1>6, <1>7, <1>8 DEF DeliveryInv, Aims

\* The same where no attempt starts.
LEMMA WorkerEnds ==
  ASSUME DeliveryInv, Moves({}), WorkerOnly, NEW w \in Worker, NEW row \in WorkerRow,
         row.phase # "idle" => row.turn \in TurnId, worker' = [worker EXCEPT ![w] = row],
         closing' \in [Worker -> ClosingPhase], job' \in [TurnId -> Job],
         orphaned \subseteq orphaned', orphaned' \subseteq TurnId, faults' \in 0..FaultBound,
         row = worker[w] \/ (worker[w].phase = "running" /\ HoldsClaim(worker[w].turn, worker[w].token)
                              /\ turn'[worker[w].turn].status = "running"
                              => worker[w].turn \in orphaned')
  PROVE  DeliveryInv'
<1> DEFINE T == {}
<1>1. /\ Moves(T) /\ orphaned \ T \subseteq orphaned'
      /\ \A t \in T : \/ row.phase = "running" /\ row.turn = t /\ row.token = turn'[t].claim
                      \/ t \in orphaned'
  OBVIOUS
<1>2. \/ row = worker[w]
      \/ worker[w].phase # "running" \/ ~HoldsClaim(worker[w].turn, worker[w].token)
      \/ turn'[worker[w].turn].status # "running" \/ worker[w].turn \in orphaned'
  OBVIOUS
<1> HIDE DEF T
<1> QED
  BY <1>1, <1>2, WorkerMoves

-----------------------------------------------------------------------------
(* The queue *)

LEMMA JobsTyped ==
  /\ NoJob \in Job /\ NewJob \in Job
  /\ \A n \in 0..MaxStalledCount : [NewJob EXCEPT !.stalls = n] \in Job
<1>1. 0 \in 0..MaxStalledCount
  BY DeliveryAssumption
<1>2. NoJob \in Job
  BY <1>1 DEF NoJob, Job
<1>3. NewJob \in Job
  BY <1>2 DEF NewJob, Job, RunnableStates
<1>4. \A n \in 0..MaxStalledCount : [NewJob EXCEPT !.stalls = n] \in Job
  BY <1>3 DEF Job
<1> QED
  BY <1>2, <1>3, <1>4

LEMMA SetJobTyped ==
  ASSUME job \in [TurnId -> Job], NEW t \in TurnId, NEW owner \in Worker \cup {Nobody},
         NEW st \in RunnableStates \cup {"missing", "completed", "failed"}, SetJob(t, st, owner)
  PROVE  job' \in [TurnId -> Job]
<1> DEFINE row == [job[t] EXCEPT !.state = st, !.owner = owner]
<1>1. row \in Job
  BY DEF Job
<1>2. job' = [job EXCEPT ![t] = row]
  BY DEF SetJob
<1> HIDE DEF row
<1> QED
  BY <1>1, <1>2

LEMMA FaultTyped ==
  ASSUME DeliveryInv, Fault
  PROVE  faults' \in 0..FaultBound
<1>1. faults \in 0..FaultBound /\ FaultBound \in Nat
  BY DeliveryAssumption DEF DeliveryInv, OwnTypes, HistoryTypes
<1> QED
  BY <1>1 DEF Fault

LEMMA EnqueueTyped ==
  ASSUME DeliveryInv, NEW t \in TurnId, NEW saw, Enqueue(t, saw)
  PROVE  /\ job' \in [TurnId -> Job] /\ t \in enqueued'
         /\ enqueued \subseteq enqueued' /\ enqueued' \subseteq TurnId
<1>1. job \in [TurnId -> Job] /\ enqueued \subseteq TurnId
  BY DEF DeliveryInv, OwnTypes, QueueTypes, HistoryTypes
<1> QED
  BY <1>1, JobsTyped DEF Enqueue

\* A step of the queue alone.
LEMMA QueueMoves ==
  ASSUME DeliveryInv, QueueOnly, job' \in [TurnId -> Job], faults' \in 0..FaultBound
  PROVE  DeliveryInv'
<1>1. QueueTypes' /\ LoopTypes' /\ RelayAims' /\ ReconAims' /\ enqueued' \subseteq TurnId
  BY DEF DeliveryInv, OwnTypes, QueueTypes, LoopTypes, HistoryTypes, Aims, RelayAims, ReconAims,
         QueueOnly
<1> QED
  BY <1>1, LoopMoves DEF QueueOnly

LEMMA QueueSteps ==
  ASSUME DeliveryInv,
         RedisFault \/ \E t \in TurnId : StallCheck(t) \/ RemoveFinishedJob(t)
  PROVE  DeliveryInv'
<1>1. job \in [TurnId -> Job] /\ faults \in 0..FaultBound
  BY DEF DeliveryInv, OwnTypes, QueueTypes, HistoryTypes
<1>2. ASSUME NEW t \in TurnId, StallCheck(t) PROVE DeliveryInv'
  <2>1. job[t].stalls \in 0..MaxStalledCount /\ MaxStalledCount \in Nat
    BY <1>1, DeliveryAssumption DEF Job
  <2>2. CASE job[t].stalls < MaxStalledCount
    <3>1. job[t].stalls + 1 \in 0..MaxStalledCount
      BY <2>1, <2>2
    <3>2. job' \in [TurnId -> Job]
      BY <1>1, <1>2, <2>2, <3>1, JobsTyped DEF StallCheck
    <3> QED
      BY <1>1, <1>2, <3>2, QueueMoves DEF StallCheck
  <2>3. CASE ~(job[t].stalls < MaxStalledCount)
    <3>1. SetJob(t, "failed", Nobody)
      BY <1>2, <2>3 DEF StallCheck
    <3>2. job' \in [TurnId -> Job]
      BY <1>1, <3>1, SetJobTyped
    <3> QED
      BY <1>1, <1>2, <3>2, QueueMoves DEF StallCheck
  <2> QED
    BY <2>2, <2>3
<1>3. ASSUME NEW t \in TurnId, RemoveFinishedJob(t) PROVE DeliveryInv'
  <2>1. job' \in [TurnId -> Job]
    BY <1>1, <1>3, JobsTyped DEF RemoveFinishedJob
  <2> QED
    BY <1>1, <1>3, <2>1, QueueMoves DEF RemoveFinishedJob
<1>4. CASE RedisFault
  <2>1. QueueOnly /\ faults' \in 0..FaultBound
    BY <1>4, FaultTyped DEF RedisFault
  <2>2. CASE job' = [t \in TurnId |-> NoJob]
    <3>1. job' \in [TurnId -> Job]
      BY <2>2, JobsTyped
    <3> QED
      BY <2>1, <3>1, QueueMoves
  <2>3. ASSUME NEW t \in TurnId, SetJob(t, "active", Nobody) PROVE DeliveryInv'
    <3>1. job' \in [TurnId -> Job]
      BY <1>1, <2>3, SetJobTyped DEF RunnableStates
    <3> QED
      BY <2>1, <3>1, QueueMoves
  <2> QED
    BY <1>4, <2>2, <2>3 DEF RedisFault
<1> QED
  BY <1>2, <1>3, <1>4

-----------------------------------------------------------------------------
(* Workers *)

\* What a worker step starts from.
LEMMA WorkerKnown ==
  ASSUME DeliveryInv, NEW w \in Worker
  PROVE  /\ TablesSound /\ worker \in [Worker -> WorkerRow] /\ worker[w] \in WorkerRow
         /\ closing \in [Worker -> ClosingPhase] /\ job \in [TurnId -> Job]
         /\ orphaned \subseteq TurnId /\ faults \in 0..FaultBound
         /\ worker[w].phase # "idle" => worker[w].turn \in TurnId
BY DEF DeliveryInv, OwnTypes, QueueTypes, WorkerTypes, HistoryTypes, Aims, WorkerAims

LEMMA IdleTyped == IdleWorker \in WorkerRow
<1>1. 0 \in 0..AttemptBound
  BY LimitAssumption
<1> QED
  BY <1>1 DEF IdleWorker, WorkerRow

\* SetWorker gives a row of the same turn and claim.
LEMMA SetWorkerRow ==
  ASSUME worker \in [Worker -> WorkerRow], NEW w \in Worker, NEW phase,
         phase \in {"taken", "running", "done", "threw"}, SetWorker(w, phase)
  PROVE  \E row \in WorkerRow : /\ worker' = [worker EXCEPT ![w] = row]
                                /\ row.phase = phase /\ row.turn = worker[w].turn
<1> DEFINE row == [worker[w] EXCEPT !.phase = phase]
<1>1. worker[w] \in WorkerRow
  OBVIOUS
<1>2. row \in WorkerRow /\ row.phase = phase /\ row.turn = worker[w].turn
  BY <1>1 DEF WorkerRow
<1>3. worker' = [worker EXCEPT ![w] = row]
  BY DEF SetWorker
<1> HIDE DEF row
<1> QED
  BY <1>2, <1>3

LEMMA TakeStep ==
  ASSUME DeliveryInv, NEW w \in Worker, NEW t \in TurnId, TakeJob(w, t)
  PROVE  DeliveryInv'
<1> DEFINE row == [phase |-> "taken", turn |-> t, token |-> 0]
<1>1. 0 \in 0..AttemptBound
  BY LimitAssumption
<1>2. row \in WorkerRow /\ row.phase = "taken" /\ row.turn = t
  BY <1>1 DEF WorkerRow
<1>3. /\ worker' = [worker EXCEPT ![w] = row] /\ SetJob(t, "active", w) /\ WorkerOnly
      /\ UNCHANGED <<storeVars, closing, orphaned, faults>> /\ worker[w].phase = "idle"
  BY DEF TakeJob
<1> HIDE DEF row
<1>4. job' \in [TurnId -> Job]
  BY <1>3, SetJobTyped, WorkerKnown DEF RunnableStates
<1>5. Moves({})
  BY <1>3, MoveSame DEF DeliveryInv
<1> QED
  BY <1>2, <1>3, <1>4, <1>5, WorkerKnown, WorkerEnds

LEMMA ClaimStepOf ==
  ASSUME DeliveryInv, NEW w \in Worker, ClaimTurn(w)
  PROVE  DeliveryInv'
<1> DEFINE t == worker[w].turn  c == turn[t].conversation
<1>1. /\ TablesSound /\ worker \in [Worker -> WorkerRow] /\ worker[w] \in WorkerRow
      /\ closing' \in [Worker -> ClosingPhase] /\ job' \in [TurnId -> Job]
      /\ orphaned \subseteq TurnId /\ faults' \in 0..FaultBound /\ t \in TurnId
      /\ worker[w].phase = "taken" /\ WorkerOnly /\ c \in ConversationId
  BY WorkerKnown, HomesKnown DEF ClaimTurn
<1>2. orphaned' = IF turn'[t].status = "running" /\ turn'[t] # turn[t]
                  THEN orphaned \ {t} ELSE orphaned
  BY DEF ClaimTurn
<1>3. ASSUME Moves({}), SetWorker(w, "done") PROVE DeliveryInv'
  <2>1. orphaned' = orphaned
    BY <1>1, <1>2, <1>3 DEF Moves
  <2>2. PICK row \in WorkerRow : /\ worker' = [worker EXCEPT ![w] = row]
                                 /\ row.phase = "done" /\ row.turn = worker[w].turn
    BY <1>1, <1>3, SetWorkerRow
  <2> QED
    BY <1>1, <1>3, <2>1, <2>2, WorkerEnds
<1>4. CASE SetWorker(w, "done") /\ UNCHANGED storeVars
  BY <1>1, <1>3, <1>4, MoveSame
<1>5. CASE SetWorker(w, "done") /\ NothingToClaim(t)
  <2>1. CASE ExpireIfDue(c) /\ UNCHANGED session
    BY <1>1, <1>3, <1>5, <2>1, MoveExpire
  <2> QED
    BY <1>4, <1>5, <2>1 DEF NothingToClaim
<1>6. CASE /\ Usable(c) /\ Claim(t)
           /\ worker' = [worker EXCEPT ![w].phase = "running", ![w].token = turn'[t].claim]
  <2>1. StartAttempt(t) /\ Live(c) /\ UNCHANGED session
    BY <1>6 DEF Claim, WithTurn, Usable, ExpireIfDue
  <2>2. /\ Moves({t}) /\ turn'[t].status = "running" /\ turn'[t] # turn[t]
        /\ turn'[t].claim \in 0..AttemptBound
    BY <1>1, <2>1, MoveStart
  <2> DEFINE row == [worker[w] EXCEPT !.phase = "running", !.token = turn'[t].claim]
  <2>3. /\ row \in WorkerRow /\ row.phase = "running" /\ row.turn = t
        /\ row.token = turn'[t].claim
    BY <1>1, <2>2 DEF WorkerRow
  <2>4. worker' = [worker EXCEPT ![w] = row]
    BY <1>1, <1>6
  <2>5. orphaned' = orphaned \ {t}
    BY <1>2, <2>2
  <2> HIDE DEF row
  <2> QED
    BY <1>1, <2>2, <2>3, <2>4, <2>5, WorkerMoves
<1> QED
  BY <1>4, <1>5, <1>6 DEF ClaimTurn

LEMMA SettleStep ==
  ASSUME DeliveryInv, NEW w \in Worker, SettleTurn(w)
  PROVE  DeliveryInv'
<1>1. /\ TablesSound /\ worker \in [Worker -> WorkerRow] /\ worker[w] \in WorkerRow
      /\ closing' \in [Worker -> ClosingPhase] /\ job' \in [TurnId -> Job]
      /\ orphaned' = orphaned /\ orphaned \subseteq TurnId /\ faults' \in 0..FaultBound
      /\ worker[w].turn \in TurnId /\ WorkerOnly
      /\ Settle(w) /\ SetWorker(w, "done")
  BY WorkerKnown DEF SettleTurn
<1>2. Moves({}) /\ (turn'[worker[w].turn].status = "running" =>
                      ~HoldsClaim(worker[w].turn, worker[w].token))
  BY <1>1, MoveSettle
<1>3. PICK row \in WorkerRow : /\ worker' = [worker EXCEPT ![w] = row]
                               /\ row.phase = "done" /\ row.turn = worker[w].turn
  BY <1>1, SetWorkerRow
<1> QED
  BY <1>1, <1>2, <1>3, WorkerEnds

LEMMA OrphanKnown ==
  ASSUME DeliveryInv, NEW w \in Worker, Orphan(w)
  PROVE  /\ orphaned \subseteq orphaned' /\ orphaned' \subseteq TurnId
         /\ \/ worker[w].phase # "running" \/ ~HoldsClaim(worker[w].turn, worker[w].token)
            \/ worker[w].turn \in orphaned'
<1>1. orphaned \subseteq TurnId /\ (worker[w].phase # "idle" => worker[w].turn \in TurnId)
  BY WorkerKnown
<1>2. CASE worker[w].phase = "running" /\ HoldsClaim(worker[w].turn, worker[w].token)
  BY <1>1, <1>2 DEF Orphan
<1>3. CASE ~(worker[w].phase = "running" /\ HoldsClaim(worker[w].turn, worker[w].token))
  BY <1>1, <1>3 DEF Orphan
<1> QED
  BY <1>2, <1>3

LEMMA FailStep ==
  ASSUME DeliveryInv, NEW w \in Worker, StoreFails(w)
  PROVE  DeliveryInv'
<1> DEFINE t == worker[w].turn  c == turn[t].conversation
<1>1. /\ TablesSound /\ worker \in [Worker -> WorkerRow] /\ worker[w] \in WorkerRow
      /\ closing' \in [Worker -> ClosingPhase] /\ job' \in [TurnId -> Job]
      /\ orphaned \subseteq TurnId /\ faults' \in 0..FaultBound /\ t \in TurnId
      /\ WorkerOnly /\ SetWorker(w, "threw") /\ c \in ConversationId
  BY WorkerKnown, HomesKnown, FaultTyped DEF StoreFails
<1>2. PICK row \in WorkerRow : /\ worker' = [worker EXCEPT ![w] = row]
                               /\ row.phase = "threw" /\ row.turn = worker[w].turn
  BY <1>1, SetWorkerRow
<1>3. ASSUME Moves({}), Orphan(w) PROVE DeliveryInv'
  <2>1. orphaned \subseteq orphaned' /\ orphaned' \subseteq TurnId
        /\ (worker[w].phase = "running" /\ HoldsClaim(worker[w].turn, worker[w].token)
              => worker[w].turn \in orphaned')
    BY <1>3, OrphanKnown
  <2> QED
    BY <1>1, <1>2, <1>3, <2>1, WorkerEnds
<1>4. CASE UNCHANGED storeVars /\ Orphan(w)
  BY <1>1, <1>3, <1>4, MoveSame
<1>5. CASE Settle(w) /\ Orphan(w)
  BY <1>1, <1>3, <1>5, MoveSettle
<1>6. CASE /\ worker[w].phase = "taken" /\ Claim(t) /\ orphaned' = orphaned \cup {t}
  <2>1. UNCHANGED session /\ (ExpireIfDue(c) \/ (Live(c) /\ StartAttempt(t)))
    BY <1>6 DEF Claim, WithTurn, Usable
  <2>2. CASE ExpireIfDue(c)
    <3>1. Moves({})
      BY <1>1, <2>1, <2>2, MoveExpire
    <3> QED
      BY <1>1, <1>2, <1>6, <3>1, WorkerEnds
  <2>3. CASE Live(c) /\ StartAttempt(t)
    <3>1. Moves({t})
      BY <1>1, <2>1, <2>3, MoveStart
    <3>2. orphaned' \subseteq TurnId /\ orphaned \ {t} \subseteq orphaned' /\ t \in orphaned'
      BY <1>1, <1>6
    <3> QED
      BY <1>1, <1>2, <1>6, <3>1, <3>2, WorkerMoves
  <2> QED
    BY <2>1, <2>2, <2>3
<1> QED
  BY <1>4, <1>5, <1>6 DEF StoreFails

\* Steps that leave the tables alone and, if the worker's row changes, end with
\* the worker idle.
LEMMA IdleStep ==
  ASSUME DeliveryInv, NEW w \in Worker, UNCHANGED storeVars, WorkerOnly,
         worker' = [worker EXCEPT ![w] = IdleWorker],
         closing' \in [Worker -> ClosingPhase], job' \in [TurnId -> Job],
         orphaned \subseteq orphaned', orphaned' \subseteq TurnId, faults' \in 0..FaultBound,
         \/ worker[w].phase # "running" \/ ~HoldsClaim(worker[w].turn, worker[w].token)
         \/ worker[w].turn \in orphaned'
  PROVE  DeliveryInv'
<1>1. Moves({}) /\ IdleWorker \in WorkerRow /\ IdleWorker.phase = "idle"
  BY MoveSame, IdleTyped DEF DeliveryInv, IdleWorker
<1> QED
  BY <1>1, WorkerEnds

LEMMA VanishTyped ==
  ASSUME DeliveryInv, NEW w \in Worker, Vanish(w)
  PROVE  closing' \in [Worker -> ClosingPhase] /\ job' \in [TurnId -> Job]
<1>1. closing' \in [Worker -> ClosingPhase]
  BY WorkerKnown DEF Vanish, ClosingPhase
<1>2. \A t \in TurnId : job[t] \in Job /\ [job[t] EXCEPT !.owner = Nobody] \in Job
  BY WorkerKnown DEF Job
<1>3. job' \in [TurnId -> Job]
  BY <1>2 DEF Vanish
<1> QED
  BY <1>1, <1>3

LEMMA EndSteps ==
  ASSUME DeliveryInv, NEW w \in Worker, FinishJob(w) \/ Crash(w) \/ Exit(w)
  PROVE  DeliveryInv'
<1>1. CASE FinishJob(w)
  <2> DEFINE t == worker[w].turn
  <2>1. /\ UNCHANGED <<storeVars, closing, orphaned, faults>> /\ WorkerOnly
        /\ worker' = [worker EXCEPT ![w] = IdleWorker] /\ worker[w].phase \in {"done", "threw"}
    BY <1>1 DEF FinishJob
  <2>2. t \in TurnId /\ job \in [TurnId -> Job]
    BY <2>1, WorkerKnown
  <2>3. job' \in [TurnId -> Job]
    <3>1. ASSUME NEW st \in {"completed", "failed"}, SetJob(t, st, Nobody)
          PROVE  job' \in [TurnId -> Job]
      BY <2>2, <3>1, SetJobTyped
    <3>2. \/ UNCHANGED job
          \/ \E st \in {"completed", "failed"} : SetJob(t, st, Nobody)
      BY <1>1 DEF FinishJob
    <3> QED
      BY <2>2, <3>1, <3>2
  <2> QED
    BY <2>1, <2>3, WorkerKnown, IdleStep
<1>2. CASE Crash(w)
  <2>1. /\ Vanish(w) /\ Orphan(w) /\ Fault /\ UNCHANGED storeVars /\ WorkerOnly
        /\ worker' = [worker EXCEPT ![w] = IdleWorker]
    BY <1>2 DEF Crash, Vanish
  <2> QED
    BY <2>1, VanishTyped, OrphanKnown, FaultTyped, IdleStep
<1>3. CASE Exit(w)
  <2>1. /\ Vanish(w) /\ UNCHANGED <<storeVars, faults>> /\ WorkerOnly
        /\ worker' = [worker EXCEPT ![w] = IdleWorker]
        /\ (worker[w].phase = "idle" /\ UNCHANGED orphaned) \/ Orphan(w)
    BY <1>3 DEF Exit, Vanish
  <2>2. CASE worker[w].phase = "idle" /\ UNCHANGED orphaned
    BY <2>1, <2>2, VanishTyped, WorkerKnown, IdleStep
  <2>3. CASE Orphan(w)
    BY <2>1, <2>3, VanishTyped, OrphanKnown, WorkerKnown, IdleStep
  <2> QED
    BY <2>1, <2>2, <2>3
<1> QED
  BY <1>1, <1>2, <1>3

LEMMA ClosingSteps ==
  ASSUME DeliveryInv, NEW w \in Worker,
         StartShutdown(w) \/ ReleaseActive(w) \/ ReleaseActiveFails(w) \/ CancelJobs(w)
  PROVE  DeliveryInv'
<1>1. /\ worker \in [Worker -> WorkerRow] /\ worker[w] \in WorkerRow /\ TablesSound
      /\ closing \in [Worker -> ClosingPhase] /\ job \in [TurnId -> Job]
      /\ orphaned \subseteq TurnId /\ faults \in 0..FaultBound
      /\ worker[w].phase # "idle" => worker[w].turn \in TurnId
  BY WorkerKnown
<1>2. worker = [worker EXCEPT ![w] = worker[w]]
  BY <1>1
<1>3. /\ UNCHANGED <<worker, job, orphaned>> /\ WorkerOnly
      /\ closing' \in [Worker -> ClosingPhase]
  BY <1>1 DEF StartShutdown, ReleaseActive, ReleaseActiveFails, CancelJobs, ClosingPhase
<1>4. faults' \in 0..FaultBound
  BY <1>1, FaultTyped DEF StartShutdown, ReleaseActive, ReleaseActiveFails, CancelJobs
<1>5. Moves({})
  <2>1. CASE ReleaseActive(w) /\ worker[w].phase = "running"
             /\ ReleaseClaim(worker[w].turn, worker[w].token)
    BY <1>1, <2>1, MoveRelease
  <2>2. CASE UNCHANGED storeVars
    BY <1>1, <2>2, MoveSame
  <2> QED
    BY <2>1, <2>2 DEF StartShutdown, ReleaseActive, ReleaseActiveFails, CancelJobs
<1> QED
  BY <1>1, <1>2, <1>3, <1>4, <1>5, WorkerEnds

-----------------------------------------------------------------------------
(* The dispatcher's loops *)

\* What a step of a loop starts from.
LEMMA LoopKnown ==
  ASSUME DeliveryInv
  PROVE  /\ QueueTypes /\ LoopTypes /\ RelayAims /\ ReconAims
         /\ enqueued \subseteq TurnId /\ faults \in 0..FaultBound /\ TablesSound
         /\ relay.phase \in {"idle", "working", "enqueuing", "marking", "releasing"}
         /\ relay.batch \subseteq ClaimedMessage /\ relay.saw \in Seen
         /\ relay.at \in ClaimedMessage \cup {None}
         /\ recon.phase \in {"idle", "inspecting", "repairing", "enqueuing"}
         /\ recon.batch \subseteq Inspected /\ recon.saw \in Seen
         /\ recon.at \in Inspected \cup {None}
BY DEF DeliveryInv, OwnTypes, HistoryTypes, Aims, LoopTypes, RelayRow, ReconRow, Loop

LEMMA IdleLoopTyped ==
  /\ IdleLoop \in RelayRow /\ IdleLoop \in ReconRow /\ IdleLoop.phase = "idle"
  /\ \A b \in SUBSET ClaimedMessage : [IdleLoop EXCEPT !.phase = "working", !.batch = b] \in RelayRow
  /\ \A b \in SUBSET Inspected : \A p \in {"inspecting", "repairing"} :
       [IdleLoop EXCEPT !.phase = p, !.batch = b] \in ReconRow
BY DEF IdleLoop, RelayRow, ReconRow, Loop, Seen

LEMMA QueueStateSeen ==
  ASSUME job \in [TurnId -> Job], NEW t \in TurnId
  PROVE  QueueState(t) \in Seen
BY DEF QueueState, Seen, Job, RunnableStates

\* A step of the relay that leaves the outbox alone.
LEMMA RelayMoves ==
  ASSUME DeliveryInv, RelayOnly, UNCHANGED storeVars, QueueTypes', relay' \in RelayRow, RelayAims',
         enqueued \subseteq enqueued', enqueued' \subseteq TurnId, faults' \in 0..FaultBound
  PROVE  DeliveryInv'
<1>1. LoopTypes' /\ ReconAims'
  BY LoopKnown DEF LoopTypes, ReconAims, RelayOnly
<1> QED
  BY <1>1, LoopMoves DEF RelayOnly

\* Fewer turns than claim numbers: a round always finds a fresh one.
LEMMA TokenTyped ==
  ASSUME message \in [TurnId -> Message]
  PROVE  NextToken \in ClaimNumber /\ \A t \in TurnId : message[t].token # NextToken
<1> DEFINE n == Cardinality(TurnId)
<1>1. IsFiniteSet(TurnId) /\ n \in Nat
  BY DeliveryAssumption, FS_CardinalityType
<1>2. \E i \in ClaimNumber : \A t \in TurnId : message[t].token # i
  <2> SUFFICES ASSUME \A i \in ClaimNumber : \E t \in TurnId : message[t].token = i
               PROVE  FALSE
    OBVIOUS
  <2> DEFINE Held == {t \in TurnId : message[t].token \in ClaimNumber}
             f == [t \in Held |-> message[t].token]
  <2>1. IsFiniteSet(Held) /\ Cardinality(Held) <= n
    BY <1>1, FS_Subset
  <2>2. f \in Surjection(Held, ClaimNumber)
    BY DEF Surjection
  <2>3. IsFiniteSet(ClaimNumber) /\ Cardinality(ClaimNumber) <= Cardinality(Held)
    BY <2>1, <2>2, FS_Surjection
  <2>4. Cardinality(ClaimNumber) = n + 1
    <3>1. 1 \in Int /\ n + 1 \in Int /\ 1 <= n + 1
      BY <1>1
    <3>2. Cardinality(1..(n + 1)) = (n + 1) - 1 + 1
      BY <1>1, <3>1, FS_Interval
    <3> QED
      BY <1>1, <3>2 DEF ClaimNumber
  <2>5. Cardinality(Held) \in Nat
    BY <2>1, FS_CardinalityType
  <2> HIDE DEF Held, n
  <2> QED
    BY <1>1, <2>1, <2>3, <2>4, <2>5
<1> QED
  BY <1>2 DEF NextToken

LEMMA RelayClaimStep ==
  ASSUME DeliveryInv, NEW batch \in SUBSET TurnId, RelayClaim(batch)
  PROVE  DeliveryInv'
<1> DEFINE items == {[turn |-> t, token |-> NextToken] : t \in batch}
           row == [token |-> NextToken, over |-> FALSE]
<1>1. /\ RelayOnly /\ UNCHANGED <<storeVars, job, enqueued, faults>>
      /\ message' = [t \in TurnId |-> IF t \in batch THEN row ELSE message[t]]
      /\ relay' = [IdleLoop EXCEPT !.phase = "working", !.batch = items]
  BY DEF RelayClaim
<1>2. QueueTypes /\ NextToken \in ClaimNumber
  BY LoopKnown, TokenTyped DEF QueueTypes
<1>3. NextToken \in Nat
  BY <1>2, DeliveryAssumption, FS_CardinalityType DEF ClaimNumber
<1>4. row \in Message
  BY <1>2 DEF Message
<1>5. items \in SUBSET ClaimedMessage
  BY <1>3 DEF ClaimedMessage
<1> HIDE DEF row, items
<1>6. QueueTypes'
  BY <1>1, <1>2, <1>4 DEF QueueTypes
<1>7. relay' \in RelayRow
  BY <1>1, <1>5, IdleLoopTyped
<1>8. RelayAims'
  BY <1>1 DEF RelayAims, IdleLoop
<1> QED
  BY <1>1, <1>6, <1>7, <1>8, LoopKnown, RelayMoves

\* The next message of the batch, or the end of the round.
LEMMA NextTyped ==
  ASSUME DeliveryInv, NextMessage
  PROVE  relay' \in RelayRow /\ RelayAims'
<1>1. \/ relay' = IdleLoop
      \/ relay' = [IdleLoop EXCEPT !.phase = "working", !.batch = relay.batch]
  BY DEF NextMessage
<1>2. relay' \in RelayRow
  BY <1>1, LoopKnown, IdleLoopTyped
<1>3. relay'.phase \in {"idle", "working"}
  BY <1>1, IdleLoopTyped DEF RelayRow, Loop
<1> QED
  BY <1>2, <1>3 DEF RelayAims

\* The relay goes on with the message it has.
LEMMA SameMessageTyped ==
  ASSUME DeliveryInv, NEW p \in {"marking", "releasing"}, NEW saw \in Seen,
         relay.phase \in {"enqueuing", "marking"},
         relay' = [relay EXCEPT !.phase = p, !.saw = saw]
  PROVE  /\ relay' \in RelayRow /\ relay'.phase = p /\ relay'.at = relay.at
         /\ relay.at \in ClaimedMessage
<1>1. relay \in RelayRow /\ relay.at \in ClaimedMessage
  BY LoopKnown DEF LoopTypes, RelayAims
<1> QED
  BY <1>1 DEF RelayRow, Loop

LEMMA RelayWorkSteps ==
  ASSUME DeliveryInv,
         RelayEnqueue \/ RelayFails \/ RelayRelease \/ RelayRoundEnds
           \/ \E m \in relay.batch : RelayLook(m)
  PROVE  DeliveryInv'
<1>1. ASSUME NEW m \in relay.batch, RelayLook(m) PROVE DeliveryInv'
  <2>1. /\ RelayOnly /\ UNCHANGED <<storeVars, message, job, enqueued, faults>>
        /\ relay' = [phase |-> "enqueuing", batch |-> relay.batch \ {m}, at |-> m,
                     saw |-> QueueState(m.turn)]
    BY <1>1 DEF RelayLook
  <2>2. m \in ClaimedMessage /\ m.turn \in TurnId
    BY LoopKnown DEF ClaimedMessage
  <2>3. QueueState(m.turn) \in Seen
    BY <2>2, LoopKnown, QueueStateSeen DEF QueueTypes
  <2>4. relay' \in RelayRow /\ RelayAims'
    BY <2>1, <2>2, <2>3, LoopKnown DEF RelayRow, Loop, RelayAims
  <2>5. QueueTypes'
    BY <2>1, LoopKnown DEF QueueTypes
  <2> QED
    BY <2>1, <2>4, <2>5, LoopKnown, RelayMoves
<1>2. CASE RelayEnqueue
  <2>1. /\ RelayOnly /\ UNCHANGED <<storeVars, message, faults>> /\ relay.phase = "enqueuing"
        /\ Enqueue(relay.at.turn, relay.saw)
        /\ relay' = [relay EXCEPT !.phase = "marking", !.saw = "unknown"]
    BY <1>2 DEF RelayEnqueue
  <2>2. relay' \in RelayRow /\ relay'.at = relay.at /\ relay.at \in ClaimedMessage
    BY <2>1, SameMessageTyped DEF Seen
  <2>3. relay.at.turn \in TurnId
    BY <2>2 DEF ClaimedMessage
  <2>4. /\ job' \in [TurnId -> Job] /\ relay.at.turn \in enqueued'
        /\ enqueued \subseteq enqueued' /\ enqueued' \subseteq TurnId
    BY <2>1, <2>3, EnqueueTyped
  <2>5. QueueTypes' /\ RelayAims'
    BY <2>1, <2>2, <2>4, LoopKnown DEF QueueTypes, RelayAims
  <2> QED
    BY <2>1, <2>2, <2>4, <2>5, LoopKnown, RelayMoves
<1>3. CASE RelayFails
  <2>1. /\ RelayOnly /\ UNCHANGED <<storeVars, message, job, enqueued>>
        /\ relay.phase \in {"enqueuing", "marking"}
        /\ relay' = [relay EXCEPT !.phase = "releasing", !.saw = "unknown"]
    BY <1>3 DEF RelayFails
  <2>2. faults' \in 0..FaultBound
    BY <1>3, LoopKnown, FaultTyped DEF RelayFails
  <2>3. relay' \in RelayRow /\ RelayAims'
    BY <2>1, SameMessageTyped DEF Seen, RelayAims
  <2>4. QueueTypes'
    BY <2>1, LoopKnown DEF QueueTypes
  <2> QED
    BY <2>1, <2>2, <2>3, <2>4, LoopKnown, RelayMoves
<1>4. CASE RelayRelease
  <2> DEFINE m == relay.at
  <2>1. /\ RelayOnly /\ UNCHANGED <<storeVars, job, enqueued, faults>> /\ NextMessage
        /\ message' = IF OwnsMessage(m) THEN [message EXCEPT ![m.turn] = Unclaimed] ELSE message
    BY <1>4 DEF RelayRelease
  <2>2. Unclaimed \in Message
    BY DEF Unclaimed, Message
  <2>3. QueueTypes'
    BY <2>1, <2>2, LoopKnown DEF QueueTypes
  <2> QED
    BY <2>1, <2>3, NextTyped, LoopKnown, RelayMoves
<1>5. CASE RelayRoundEnds
  <2>1. /\ RelayOnly /\ UNCHANGED <<storeVars, message, job, enqueued>> /\ relay' = IdleLoop
        /\ faults' \in 0..FaultBound
    BY <1>5, FaultTyped DEF RelayRoundEnds
  <2>2. QueueTypes' /\ relay' \in RelayRow /\ RelayAims'
    BY <2>1, LoopKnown, IdleLoopTyped DEF QueueTypes, RelayAims
  <2> QED
    BY <2>1, <2>2, LoopKnown, RelayMoves
<1> QED
  BY <1>1, <1>2, <1>3, <1>4, <1>5

LEMMA MarkStep ==
  ASSUME DeliveryInv, RelayMark
  PROVE  DeliveryInv'
<1> DEFINE m == relay.at
<1>1. /\ RelayOnly /\ relay.phase = "marking" /\ UNCHANGED <<job, enqueued, faults>>
      /\ UNCHANGED <<conversation, due, turn, leaseOver, attempts, operation, invocation, session>>
  BY DEF RelayMark
<1>2. m \in ClaimedMessage /\ m.turn \in TurnId /\ m.turn \in enqueued
  BY <1>1, LoopKnown DEF RelayAims, ClaimedMessage
<1>3. CASE OwnsMessage(m)
  <2>1. /\ outbox' = [outbox EXCEPT ![m.turn] = "sealed"]
        /\ message' = [message EXCEPT ![m.turn] = Unclaimed] /\ NextMessage
    BY <1>3 DEF RelayMark
  <2>2. TableTypes /\ outbox \in [TurnId -> {"none", "open", "sealed"}]
    BY LoopKnown DEF TablesSound, TableInv, TableTypes
  <2>3. outbox' \in [TurnId -> {"none", "open", "sealed"}]
        /\ \A t \in TurnId : outbox'[t] = "sealed" => outbox[t] = "sealed" \/ t = m.turn
    BY <2>1, <2>2
  <2>4. TablesSound'
    <3>1. TableTypes' /\ TurnsHaveHomes'
      BY <1>1, <2>3, LoopKnown DEF TablesSound, TableInv, TableTypes, TurnsHaveHomes
    <3>2. OneActive' /\ LastExists'
      BY <1>1, LoopKnown
      DEF TablesSound, TableInv, OneActive, LastExists, IsLast, TurnsOf, Pending
    <3>3. \A t \in TurnId : AttemptsFit(t)'
      BY <1>1, LoopKnown DEF TablesSound, TableInv, AttemptsFit
    <3>4. OperationsLead' /\ SessionTypes' /\ Present'
      BY <1>1, LoopKnown DEF TablesSound, TableInv, OperationsLead, SessionTypes, Present
    <3> QED
      BY <3>1, <3>2, <3>3, <3>4 DEF TablesSound, TableInv
  <2>5. QueueTypes'
    <3>1. Unclaimed \in Message
      BY DEF Unclaimed, Message
    <3> QED
      BY <1>1, <2>1, <3>1, LoopKnown DEF QueueTypes
  <2>6. relay' \in RelayRow /\ RelayAims'
    BY <2>1, NextTyped
  <2>7. OwnTypes' /\ Aims'
    BY <1>1, <2>5, <2>6, LoopKnown
    DEF DeliveryInv, OwnTypes, WorkerTypes, LoopTypes, HistoryTypes, Aims, WorkerAims, ReconAims,
        RelayOnly
  <2>8. ClaimsAreNotDropped'
    BY <1>1 DEF DeliveryInv, ClaimsAreNotDropped, Working, RelayOnly
  <2>9. PublishedMeansEnqueued'
    BY <1>1, <1>2, <2>3 DEF DeliveryInv, PublishedMeansEnqueued, Live
  <2> QED
    BY <2>4, <2>7, <2>8, <2>9 DEF DeliveryInv
<1>4. CASE ~OwnsMessage(m)
  <2>1. relay' = [relay EXCEPT !.phase = "releasing"] /\ UNCHANGED <<outbox, message>>
    BY <1>4 DEF RelayMark
  <2>2. relay \in RelayRow
    BY LoopKnown DEF LoopTypes
  <2>3. relay' \in RelayRow /\ relay'.phase = "releasing" /\ relay'.at = m
    BY <2>1, <2>2 DEF RelayRow, Loop
  <2>4. QueueTypes' /\ RelayAims'
    BY <1>1, <1>2, <2>1, <2>3, LoopKnown DEF QueueTypes, RelayAims
  <2> QED
    BY <1>1, <2>1, <2>3, <2>4, LoopKnown, RelayMoves
<1> QED
  BY <1>3, <1>4

LEMMA MessageLeaseStep ==
  ASSUME DeliveryInv, NEW t \in TurnId, RelayLeaseEnds(t)
  PROVE  DeliveryInv'
<1> DEFINE row == [message[t] EXCEPT !.over = TRUE]
<1>1. /\ UNCHANGED <<storeVars, job, workerVars, loopVars, history>>
      /\ message' = [message EXCEPT ![t] = row]
  BY DEF RelayLeaseEnds, MessageLeaseEnds
<1>2. message \in [TurnId -> Message] /\ job \in [TurnId -> Job]
  BY LoopKnown DEF QueueTypes
<1>3. row \in Message
  BY <1>2 DEF Message
<1> HIDE DEF row
<1>4. QueueTypes' /\ LoopTypes' /\ RelayAims' /\ ReconAims'
  BY <1>1, <1>2, <1>3, LoopKnown DEF QueueTypes, LoopTypes, RelayAims, ReconAims
<1>5. faults' \in 0..FaultBound
  BY LoopKnown, FaultTyped DEF RelayLeaseEnds
<1> QED
  BY <1>1, <1>4, <1>5, LoopKnown, LoopMoves

\* A step of the reconciler.
LEMMA ReconMoves ==
  ASSUME DeliveryInv, ReconcileOnly, UNCHANGED storeVars, job' \in [TurnId -> Job],
         recon' \in ReconRow, ReconAims',
         enqueued \subseteq enqueued', enqueued' \subseteq TurnId, faults' \in 0..FaultBound
  PROVE  DeliveryInv'
<1>1. LoopTypes' /\ RelayAims' /\ QueueTypes'
  BY LoopKnown DEF LoopTypes, RelayAims, QueueTypes, ReconcileOnly
<1> QED
  BY <1>1, LoopMoves DEF ReconcileOnly

LEMMA NextItemTyped ==
  ASSUME DeliveryInv, NEW left \in SUBSET Inspected, NextItem(left)
  PROVE  recon' \in ReconRow /\ ReconAims'
<1>1. \/ recon' = IdleLoop
      \/ recon' = [IdleLoop EXCEPT !.phase = "repairing", !.batch = left]
  BY DEF NextItem
<1>2. recon' \in ReconRow
  BY <1>1, IdleLoopTyped
<1>3. recon'.phase \in {"idle", "repairing"}
  BY <1>1, IdleLoopTyped DEF ReconRow, Loop
<1> QED
  BY <1>2, <1>3 DEF ReconAims

LEMMA ReconSteps ==
  ASSUME DeliveryInv, ReconcileStep
  PROVE  DeliveryInv'
<1>1. job \in [TurnId -> Job]
  BY LoopKnown DEF QueueTypes
<1>2. ASSUME NEW found \in SUBSET TurnId, SelectCandidates(found) PROVE DeliveryInv'
  <2> DEFINE items == {[turn |-> t, queue |-> "unknown"] : t \in found}
  <2>1. /\ ReconcileOnly /\ UNCHANGED <<storeVars, job, enqueued, faults>>
        /\ recon' = [IdleLoop EXCEPT !.phase = "inspecting", !.batch = items]
    BY <1>2 DEF SelectCandidates
  <2>2. items \in SUBSET Inspected
    BY DEF Inspected, Seen
  <2> HIDE DEF items
  <2>3. recon' \in ReconRow
    BY <2>1, <2>2, IdleLoopTyped
  <2>4. ReconAims'
    BY <2>1, IdleLoopTyped DEF ReconAims, ReconRow, Loop
  <2> QED
    BY <1>1, <2>1, <2>3, <2>4, LoopKnown, ReconMoves
<1>3. CASE InspectJobs
  <2> DEFINE items == {[i EXCEPT !.queue = QueueState(i.turn)] : i \in recon.batch}
  <2>1. recon \in ReconRow /\ recon.batch \subseteq Inspected
    BY LoopKnown DEF LoopTypes
  <2>2. /\ ReconcileOnly /\ UNCHANGED <<storeVars, job, enqueued, faults>>
        /\ recon' = [recon EXCEPT !.phase = "repairing", !.batch = items]
    BY <1>3, <2>1 DEF InspectJobs, ReconRow, Loop
  <2>3. items \in SUBSET Inspected
    <3>1. \A i \in Inspected : QueueState(i.turn) \in Seen
      BY <1>1, QueueStateSeen DEF Inspected
    <3>2. \A i \in Inspected : [i EXCEPT !.queue = QueueState(i.turn)] \in Inspected
      BY <3>1 DEF Inspected
    <3> QED
      BY <2>1, <3>2
  <2> HIDE DEF items
  <2>4. recon' \in ReconRow /\ recon'.phase = "repairing"
    BY <2>1, <2>2, <2>3 DEF ReconRow, Loop
  <2>5. ReconAims'
    BY <2>4 DEF ReconAims
  <2> QED
    BY <1>1, <2>2, <2>4, <2>5, LoopKnown, ReconMoves
<1>4. ASSUME NEW i \in recon.batch, RepairItem(i) PROVE DeliveryInv'
  <2>1. ReconcileOnly /\ UNCHANGED <<storeVars, job, enqueued, faults>>
    BY <1>4 DEF RepairItem
  <2>2. i \in Inspected /\ i.turn \in TurnId /\ recon.batch \ {i} \in SUBSET Inspected
    BY LoopKnown DEF Inspected
  <2>3. CASE NextItem(recon.batch \ {i})
    BY <1>1, <2>1, <2>2, <2>3, NextItemTyped, LoopKnown, ReconMoves
  <2>4. CASE recon' = [phase |-> "enqueuing", batch |-> recon.batch \ {i}, at |-> i,
                       saw |-> QueueState(i.turn)]
    <3>1. QueueState(i.turn) \in Seen
      BY <1>1, <2>2, QueueStateSeen
    <3>2. recon' \in ReconRow /\ ReconAims'
      BY <2>2, <2>4, <3>1 DEF ReconRow, Loop, ReconAims
    <3> QED
      BY <1>1, <2>1, <3>2, LoopKnown, ReconMoves
  <2> QED
    BY <1>4, <2>3, <2>4 DEF RepairItem
<1>5. CASE EnqueueItem
  <2>1. ReconcileOnly /\ UNCHANGED storeVars /\ NextItem(recon.batch) /\ recon.phase = "enqueuing"
    BY <1>5 DEF EnqueueItem
  <2>2. recon' \in ReconRow /\ ReconAims'
    BY <2>1, LoopKnown, NextItemTyped
  <2>3. recon.at.turn \in TurnId
    BY <2>1, LoopKnown DEF ReconAims, Inspected
  <2>4. CASE Enqueue(recon.at.turn, recon.saw) /\ UNCHANGED faults
    BY <2>1, <2>2, <2>3, <2>4, EnqueueTyped, LoopKnown, ReconMoves
  <2>5. CASE UNCHANGED <<job, enqueued>> /\ faults' \in 0..FaultBound
    BY <1>1, <2>1, <2>2, <2>5, LoopKnown, ReconMoves
  <2> QED
    BY <1>5, <2>4, <2>5, LoopKnown, FaultTyped DEF EnqueueItem
<1> QED
  BY <1>2, <1>3, <1>4, <1>5 DEF ReconcileStep

LEMMA StopStep ==
  ASSUME DeliveryInv, DispatcherStops
  PROVE  DeliveryInv'
<1>1. /\ UNCHANGED <<storeVars, message, job, workerVars, history>>
      /\ relay' \in {relay, IdleLoop} /\ recon' \in {recon, IdleLoop}
      /\ faults' \in 0..FaultBound
  BY FaultTyped DEF DispatcherStops
<1>2. QueueTypes' /\ LoopTypes' /\ RelayAims' /\ ReconAims'
  BY <1>1, LoopKnown, IdleLoopTyped DEF QueueTypes, LoopTypes, RelayAims, ReconAims
<1> QED
  BY <1>1, <1>2, LoopKnown, LoopMoves

-----------------------------------------------------------------------------
(* Callers and time *)

LEMMA CallerSteps ==
  ASSUME DeliveryInv, CallerStep \/ \E t \in TurnId : TurnLeaseEnds(t)
  PROVE  DeliveryInv'
<1>1. TablesSound /\ faults \in 0..FaultBound /\ TableTypes
  BY LoopKnown DEF TablesSound, TableInv
<1>2. CASE CallerStep
  <2>1. UNCHANGED <<message, job, workerVars, loopVars, history, faults>>
    BY <1>2 DEF CallerStep
  <2>2. ASSUME NEW c \in ConversationId, Delete(c) PROVE Moves({})
    BY <1>1, <2>2, MoveFence DEF Delete, FencedStatus
  <2>3. ASSUME NEW c \in ConversationId, Read(c) PROVE Moves({})
    BY <1>1, <2>3, MoveExpire DEF Read
  <2>4. ASSUME NEW c \in ConversationId, DeadlinePasses(c) PROVE Moves({})
    <3>1. /\ due' \in [ConversationId -> BOOLEAN] /\ leaseOver' \in [TurnId -> BOOLEAN]
          /\ UNCHANGED <<conversation, turn, attempts, operation, outbox, invocation, session>>
      BY <1>1, <2>4 DEF DeadlinePasses, TableTypes
    <3> QED
      BY <1>1, <3>1, MoveTime
  <2>5. Moves({})
    BY <1>2, <2>2, <2>3, <2>4 DEF CallerStep
  <2> QED
    BY <1>1, <2>1, <2>5, TablesMove
<1>3. ASSUME NEW t \in TurnId, TurnLeaseEnds(t) PROVE DeliveryInv'
  <2>1. UNCHANGED <<message, job, workerVars, loopVars, history>> /\ faults' \in 0..FaultBound
    BY <1>1, <1>3, FaultTyped DEF TurnLeaseEnds
  <2>2. /\ due' \in [ConversationId -> BOOLEAN] /\ leaseOver' \in [TurnId -> BOOLEAN]
        /\ UNCHANGED <<conversation, turn, attempts, operation, outbox, invocation, session>>
    BY <1>1, <1>3 DEF TurnLeaseEnds, LeaseEnds, TableTypes
  <2>3. Moves({})
    BY <1>1, <2>2, MoveTime
  <2> QED
    BY <2>1, <2>3, TablesMove
<1> QED
  BY <1>2, <1>3

-----------------------------------------------------------------------------
(* The theorem *)

\* A turn is accepted by one key, which opened its conversation.
LEMMA AcceptedOnce ==
  /\ \A t \in TurnId : AcceptedBy(t) \in Key /\ AcceptedTurn[AcceptedBy(t)].turn = t
  /\ \A k \in Key : AcceptedTurn[k].turn \in TurnId /\ AcceptedBy(AcceptedTurn[k].turn) = k
  /\ \A t, u \in TurnId :
       AcceptedTurn[AcceptedBy(t)].conversation = AcceptedTurn[AcceptedBy(u)].conversation => t = u
<1>1. \A t \in TurnId : AcceptedBy(t) \in Key /\ AcceptedTurn[AcceptedBy(t)].turn = t
  BY AcceptedAssumption DEF AcceptedBy
<1>2. \A k \in Key : AcceptedTurn[k].turn \in TurnId
  BY AcceptedAssumption
<1> QED
  BY <1>1, <1>2, AcceptedAssumption

\* The tables after the turns were accepted.
LEMMA AcceptedTables == DeliveryInit => TablesSound
<1> SUFFICES ASSUME DeliveryInit PROVE TablesSound
  OBVIOUS
<1> DEFINE home(t) == AcceptedTurn[AcceptedBy(t)].conversation
<1>1. \A t \in TurnId : home(t) \in ConversationId
  BY AcceptedOnce, AcceptedAssumption
<1>2. 0 \in 0..AttemptBound /\ 1 \in 0..MaxTurns /\ 0 \in 0..MaxTurns
  BY LimitAssumption
<1>3. /\ turn \in [TurnId -> TurnRow]
      /\ \A t \in TurnId : /\ turn[t].status = "queued" /\ turn[t].sequence = 1
                           /\ turn[t].conversation = home(t)
                           /\ turn[t].claim = 0 /\ turn[t].error = None
  <2> DEFINE row(t) == [NoTurn EXCEPT !.status = "queued", !.sequence = 1,
                                      !.conversation = home(t)]
  <2>1. turn = [t \in TurnId |-> row(t)]
    BY DEF DeliveryInit
  <2>2. NoTurn \in TurnRow /\ NoTurn.claim = 0 /\ NoTurn.error = None
    BY RowTypes DEF NoTurn
  <2>3. \A t \in TurnId : /\ row(t) \in TurnRow
                          /\ row(t).status = "queued" /\ row(t).sequence = 1
                          /\ row(t).conversation = home(t)
                          /\ row(t).claim = 0 /\ row(t).error = None
    BY <1>1, <1>2, <2>2 DEF TurnRow, PendingStatus
  <2> HIDE DEF row, home
  <2> QED
    BY <2>1, <2>3
<1>4. /\ conversation \in [ConversationId -> ConversationRow]
      /\ \A c \in ConversationId : conversation[c].status = "busy"
  <2> DEFINE opener(c) == CHOOSE k \in Key : AcceptedTurn[k].conversation = c
  <2>1. \A c \in ConversationId : KeyOwner[opener(c)] \in Owner
    BY AcceptedAssumption, KeyAssumption
  <2>2. conversation = [c \in ConversationId |->
                          [status |-> "busy", owner |-> KeyOwner[opener(c)]]]
    BY DEF DeliveryInit
  <2> HIDE DEF opener
  <2> QED
    BY <2>1, <2>2 DEF ConversationRow, LiveStatus
<1>5. /\ operation \in [Key -> [fingerprint : Fingerprint, turn : TurnId] \cup {NoOperation}]
      /\ \A k \in Key : /\ operation[k].turn = AcceptedTurn[k].turn
                        /\ operation[k].fingerprint.after = None
  <2>1. Opening \in Fingerprint /\ Opening.after = None
    BY AcceptedAssumption DEF Opening, Fingerprint
  <2>2. operation = [k \in Key |-> [fingerprint |-> Opening, turn |-> AcceptedTurn[k].turn]]
    BY DEF DeliveryInit
  <2> QED
    BY <2>1, <2>2, AcceptedOnce
<1>6. TableTypes
  <2>1. attempts \in [TurnId -> Seq(AttemptStatus)]
    BY EmptySeq DEF DeliveryInit
  <2>2. invocation \in [TurnId -> [Ordinal -> InvocationRow]]
    BY RowTypes DEF DeliveryInit
  <2>3. /\ due \in [ConversationId -> BOOLEAN] /\ leaseOver \in [TurnId -> BOOLEAN]
        /\ outbox \in [TurnId -> {"none", "open", "sealed"}]
    BY DEF DeliveryInit
  <2> QED
    BY <1>3, <1>4, <1>5, <2>1, <2>2, <2>3 DEF TableTypes
<1>7. TurnsHaveHomes
  BY <1>1, <1>3, <1>4 DEF TurnsHaveHomes, LiveStatus
<1>8. \A t, u \in TurnId : turn[t].conversation = turn[u].conversation => t = u
  BY <1>3, AcceptedOnce
<1>9. \A c \in ConversationId : \E t \in TurnId : turn[t].conversation = c
  <2> SUFFICES ASSUME NEW c \in ConversationId PROVE \E t \in TurnId : turn[t].conversation = c
    OBVIOUS
  <2>1. PICK k \in Key : AcceptedTurn[k].conversation = c
    BY AcceptedAssumption
  <2>2. AcceptedTurn[k].turn \in TurnId /\ home(AcceptedTurn[k].turn) = c
    BY <2>1, AcceptedOnce
  <2> QED
    BY <1>3, <2>2
<1>10. OneActive
  BY <1>3, <1>8, <1>9 DEF OneActive, Pending, PendingStatus, TurnsOf
<1>11. LastExists
  <2>1. \A c \in ConversationId : \E t \in TurnId : IsLast(t, c)
    BY <1>3, <1>9 DEF IsLast, TurnsOf
  <2> QED
    BY <1>8, <2>1 DEF LastExists, TurnsOf
<1>12. \A t \in TurnId : AttemptsFit(t)
  <2> SUFFICES ASSUME NEW t \in TurnId PROVE AttemptsFit(t)
    OBVIOUS
  <2>1. attempts[t] = <<>> /\ Len(attempts[t]) = 0
    BY EmptySeq DEF DeliveryInit
  <2> QED
    BY <1>3, <2>1, LimitAssumption DEF AttemptsFit, Fits
<1>13. OperationsLead
  <2>1. \A k \in Key : turn[operation[k].turn].status \in PendingStatus
    BY <1>3, <1>5, AcceptedOnce DEF PendingStatus
  <2> QED
    BY <1>5, <2>1 DEF OperationsLead
<1>14. SessionTypes /\ Present
  BY <1>3 DEF DeliveryInit, SessionTypes, Present, InUse, PendingStatus
<1> QED
  BY <1>6, <1>7, <1>10, <1>11, <1>12, <1>13, <1>14 DEF TablesSound, TableInv

LEMMA DeliveryStarts == DeliveryInit => DeliveryInv
<1> SUFFICES ASSUME DeliveryInit PROVE DeliveryInv
  OBVIOUS
<1>1. TablesSound
  BY AcceptedTables
<1>2. Unclaimed \in Message /\ NoJob \in Job /\ IdleWorker \in WorkerRow
      /\ IdleLoop \in RelayRow /\ IdleLoop \in ReconRow
  BY JobsTyped, IdleTyped, IdleLoopTyped DEF Unclaimed, Message
<1>3. OwnTypes
  <2>1. QueueTypes /\ LoopTypes
    BY <1>2 DEF DeliveryInit, QueueTypes, LoopTypes
  <2>2. WorkerTypes
    BY <1>2 DEF DeliveryInit, WorkerTypes, ClosingPhase
  <2>3. HistoryTypes
    <3>1. FaultBound \in Nat /\ faults = 0 /\ enqueued = {} /\ orphaned = {}
      BY DeliveryAssumption DEF DeliveryInit
    <3> QED
      BY <3>1 DEF HistoryTypes
  <2> QED
    BY <2>1, <2>2, <2>3 DEF OwnTypes
<1>4. Aims
  BY DEF DeliveryInit, Aims, WorkerAims, RelayAims, ReconAims, IdleWorker, IdleLoop
<1>5. \A t \in TurnId : turn[t].status = "queued" /\ outbox[t] = "open"
  BY DEF DeliveryInit, NoTurn
<1> QED
  BY <1>1, <1>3, <1>4, <1>5 DEF DeliveryInv, ClaimsAreNotDropped, PublishedMeansEnqueued

LEMMA DeliveryGoesOn == DeliveryInv /\ [DeliveryNext]_deliveryVars => DeliveryInv'
<1> SUFFICES ASSUME DeliveryInv, [DeliveryNext]_deliveryVars PROVE DeliveryInv'
  OBVIOUS
<1>1. CASE CallerStep \/ \E t \in TurnId : TurnLeaseEnds(t)
  BY <1>1, CallerSteps
<1>2. CASE RedisFault \/ \E t \in TurnId : StallCheck(t) \/ RemoveFinishedJob(t)
  BY <1>2, QueueSteps
<1>3. ASSUME NEW t \in TurnId, RelayLeaseEnds(t) PROVE DeliveryInv'
  BY <1>3, MessageLeaseStep
<1>4. ASSUME NEW w \in Worker, WorkerStep(w) \/ WorkerFault(w) PROVE DeliveryInv'
  BY <1>4, TakeStep, ClaimStepOf, SettleStep, FailStep, EndSteps, ClosingSteps
  DEF WorkerStep, WorkerFault
<1>5. CASE RelayStep \/ RelayRoundEnds
  BY <1>5, RelayClaimStep, RelayWorkSteps, MarkStep DEF RelayStep
<1>6. CASE ReconcileStep
  BY <1>6, ReconSteps
<1>7. CASE DispatcherStops
  BY <1>7, StopStep
<1>8. CASE UNCHANGED deliveryVars
  <2>1. UNCHANGED <<storeVars, workerVars, loopVars, history, message, job, faults>>
    BY <1>8 DEF deliveryVars
  <2>2. QueueTypes' /\ LoopTypes' /\ RelayAims' /\ ReconAims'
    BY <2>1, LoopKnown DEF QueueTypes, LoopTypes, RelayAims, ReconAims
  <2> QED
    BY <2>1, <2>2, LoopKnown, LoopMoves
<1> QED
  BY <1>1, <1>2, <1>3, <1>4, <1>5, <1>6, <1>7, <1>8 DEF DeliveryNext

\* However workers crash, shut down, pause or fail, and wherever the relay and
\* the reconciler are interrupted: a running turn is its worker's unless that
\* worker crashed, was forced out or met a failing store, and no message counts
\* as published before a job for its turn was added.
THEOREM TurnsStayConsistent == DeliverySpec => []TurnsConsistent
<1>1. DeliveryInv => TurnsConsistent
  BY DeliveryTypes DEF DeliveryInv, TurnsConsistent
<1> QED
  BY <1>1, DeliveryStarts, DeliveryGoesOn, PTL DEF DeliverySpec
=============================================================================
