----------------------- MODULE ProcessRunSystemProofs -----------------------
(***************************************************************************)
(* What TLAPS proves of ProcessRunStore and of ProcessRunSystem, for any   *)
(* numbers of API sessions, workers, dispatchers, runs, callers, keys,     *)
(* endpoints, attempts and faults and for every backlog limit.             *)
(*                                                                         *)
(* The store first: the tables of a run tell one history; a run is what    *)
(* its caller was told, from the submission to the end; and the store      *)
(* implements RunLifecycle.  Then, with it, the system: whatever the       *)
(* queue, the workers, the relays and the reconcilers do, the store keeps  *)
(* its promises, and the system keeps its own.                             *)
(***************************************************************************)
EXTENDS ProcessRunSystem, SequenceTheorems, FiniteSetTheorems, TLAPS

USE DEF Active, Terminal, Outcome, tables, storeVars

-----------------------------------------------------------------------------
(* Lemmas about the operators the actions are built from *)

\* Ending the current attempt changes the status of that attempt and no other.
LEMMA EndAttemptProperties ==
  ASSUME TypeOK, NEW r \in RunId, NEW s \in AttemptStatus, AttemptIsCurrent(r)
  PROVE  /\ claim[r] \in 1..Len(attempts[r]) /\ claim[r] = Len(attempts[r])
         /\ EndAttempt(r, s) \in Seq(AttemptStatus)
         /\ Len(EndAttempt(r, s)) = Len(attempts[r])
         /\ \A n \in 1..Len(attempts[r]) :
              EndAttempt(r, s)[n] = IF n = claim[r] THEN s ELSE attempts[r][n]
<1>1. attempts[r] \in Seq(AttemptStatus) /\ claim[r] \in Nat
  BY DEF TypeOK
<1>2. Len(attempts[r]) \in Nat
  BY <1>1, LenProperties
<1>3. claim[r] \in 1..Len(attempts[r]) /\ claim[r] = Len(attempts[r])
  BY <1>1, <1>2 DEF AttemptIsCurrent
<1> QED
  BY <1>1, <1>3, ExceptSeq DEF EndAttempt

\* The record a session keeps of a submission in progress names a submission.
LEMMA IntakeRequest ==
  ASSUME TypeOK, NEW a \in Api, intake[a].phase # "idle"
  PROVE  /\ intake[a].phase \in {"locked", "admitted"}
         /\ intake[a].request \in Requests
         /\ intake[a].request.caller \in Caller
         /\ intake[a].request.key \in Key
         /\ intake[a].request.fingerprint \in Fingerprint
<1>1. intake[a] \in IntakeState
  BY DEF TypeOK
<1>2. intake[a] \in [phase : {"locked", "admitted"}, request : Requests]
  BY <1>1 DEF IntakeState, IdleIntake
<1> QED
  BY <1>2, RequestsAssumption

\* Every step is one of these, so each invariant below has one case for each.
LEMMA StepCases ==
  ASSUME Next
  PROVE  \/ \E a \in Api, q \in Requests :
              BeginAccept(a, q) \/ BeginUnlimitedAccept(a, q)
         \/ \E a \in Api : \/ AnswerKnownKey(a) \/ RejectBacklog(a) \/ Admit(a)
                           \/ InsertConflict(a) \/ AbortAccept(a)
         \/ \E a \in Api, r \in RunId : InsertRun(a, r)
         \/ \E r \in RunId : Claim(r) \/ DeleteRun(r) \/ Age(r)
         \/ \E r \in RunId, t \in 1..AttemptBound :
              \/ \E outcome \in Outcome : Complete(r, t, outcome)
              \/ ScheduleRetry(r, t) \/ ReleaseClaim(r, t)
         \/ \E batch \in SUBSET RunId : ClaimOutbox(batch)
         \/ \E r \in RunId, s \in OutboxState : SetMessage(r, s)
         \/ \E e \in Endpoint, f \in {"absent", "enabled"}, t \in {"enabled", "disabled"} :
              SetEndpoint(e, f, t)
<1>1. CASE \E a \in Api : Accept(a)
  BY <1>1 DEF Accept
<1>2. CASE \E r \in RunId : Execute(r)
  BY <1>2 DEF Execute
<1>3. CASE \E r \in RunId : Publish(r)
  BY <1>3 DEF Publish, MarkPublished, ReleaseMessage, AcknowledgeOutbox,
              OutboxLeaseExpires, OutboxState
<1>4. CASE Environment
  BY <1>4 DEF Environment, ProvisionEndpoint, DisableEndpoint
<1> QED
  BY <1>1, <1>2, <1>3, <1>4 DEF Next

-----------------------------------------------------------------------------
(* Type correctness *)

LEMMA TypeInit == Init => TypeOK
<1> SUFFICES ASSUME Init PROVE TypeOK
  OBVIOUS
<1>1. <<>> \in Seq(AttemptStatus)
  BY EmptySeq
<1> QED
  BY <1>1 DEF Init, TypeOK, NoMessage, Message, OutboxState, IntakeState, Promise

LEMMA TypeStep == TypeOK /\ [Next]_storeVars => TypeOK'
<1> SUFFICES ASSUME TypeOK, [Next]_storeVars PROVE TypeOK'
  OBVIOUS
<1>1. ASSUME NEW a \in Api, NEW q \in Requests,
             BeginAccept(a, q) \/ BeginUnlimitedAccept(a, q)
      PROVE  TypeOK'
  <2>1. PICK p \in {"locked", "admitted"} :
          intake' = [intake EXCEPT ![a] = [phase |-> p, request |-> q]]
    BY <1>1 DEF BeginAccept, BeginUnlimitedAccept
  <2>2. [phase |-> p, request |-> q] \in IntakeState
    BY DEF IntakeState
  <2>3. intake' \in [Api -> IntakeState]
    BY <2>1, <2>2 DEF TypeOK
  <2> QED
    BY <1>1, <2>3 DEF TypeOK, BeginAccept, BeginUnlimitedAccept
<1>2. ASSUME NEW a \in Api, AnswerKnownKey(a) \/ InsertConflict(a)
      PROVE  TypeOK'
  <2>1. intake[a].phase # "idle" /\ EndAccept(a) /\ UNCHANGED tables
    BY <1>2 DEF AnswerKnownKey, InsertConflict
  <2>2. PICK r \in RunOf(intake[a].request) : AnswerExisting(r, intake[a].request)
    BY <1>2 DEF AnswerKnownKey, InsertConflict
  <2>3. r \in RunId
    BY DEF RunOf
  <2>4. promised' \in [Caller -> [Key -> Promise]]
    BY <2>1, <2>2, <2>3, IntakeRequest DEF AnswerExisting, TypeOK, Promise
  <2> QED
    BY <2>1, <2>4 DEF TypeOK, EndAccept, IntakeState
<1>3. ASSUME NEW a \in Api, RejectBacklog(a) \/ AbortAccept(a)
      PROVE  TypeOK'
  BY <1>3 DEF TypeOK, RejectBacklog, AbortAccept, EndAccept, IntakeState
<1>4. ASSUME NEW a \in Api, Admit(a)
      PROVE  TypeOK'
  <2>1. intake[a] \in [phase : {"locked", "admitted"}, request : Requests]
    BY <1>4 DEF Admit, TypeOK, IntakeState, IdleIntake
  <2>2. intake' \in [Api -> IntakeState]
    BY <1>4, <2>1 DEF Admit, TypeOK, IntakeState
  <2> QED
    BY <1>4, <2>2 DEF Admit, TypeOK
<1>5. ASSUME NEW a \in Api, NEW r \in RunId, InsertRun(a, r)
      PROVE  TypeOK'
  <2>1. intake[a].phase # "idle"
    BY <1>5 DEF InsertRun
  <2>2. promised' \in [Caller -> [Key -> Promise]]
    BY <1>5, <2>1, IntakeRequest DEF InsertRun, TypeOK, Promise
  <2>3. /\ request' \in [RunId -> Requests \cup {NoRequest}]
        /\ status' \in [RunId -> {"absent", "deleted"} \cup Active \cup Terminal]
        /\ aged' \in [RunId -> BOOLEAN]
        /\ outbox' \in [RunId -> Message]
    BY <1>5, <2>1, IntakeRequest DEF InsertRun, TypeOK, Message, OutboxState
  <2>4. events' \in [RunId -> SUBSET EventKey]
    BY <1>5 DEF InsertRun, TypeOK, EventKey, QueuedEvent
  <2> QED
    BY <1>5, <2>2, <2>3, <2>4 DEF InsertRun, TypeOK, EndAccept, IntakeState
<1>6. ASSUME NEW r \in RunId, Claim(r)
      PROVE  TypeOK'
  <2>1. attempts[r] \in Seq(AttemptStatus) /\ "running" \in AttemptStatus
    BY DEF TypeOK, AttemptStatus
  <2>2. (IF status[r] = "running" THEN EndAttempt(r, "abandoned") ELSE attempts[r])
          \in Seq(AttemptStatus)
    BY <1>6, <2>1, EndAttemptProperties DEF Claim, AttemptStatus
  <2>3. attempts'[r] \in Seq(AttemptStatus)
    BY <1>6, <2>1, <2>2, AppendProperties DEF Claim, TypeOK
  <2>4. Len(attempts[r]) + 1 \in Nat
    BY <2>1, LenProperties
  <2> QED
    BY <1>6, <2>3, <2>4 DEF Claim, TypeOK
<1>7. ASSUME NEW r \in RunId, NEW t \in 1..AttemptBound, NEW o \in Outcome,
             Complete(r, t, o)
      PROVE  TypeOK'
  <2>1. EndAttempt(r, o) \in Seq(AttemptStatus)
    BY <1>7, EndAttemptProperties DEF Complete, AttemptStatus
  <2>2. events' \in [RunId -> SUBSET EventKey]
    BY <1>7 DEF Complete, TypeOK, EventKey, FinalEvent
  <2>3. deliveries' \in [RunId -> SUBSET Endpoint]
    BY <1>7 DEF Complete, TypeOK, Subscribers
  <2> QED
    BY <1>7, <2>1, <2>2, <2>3 DEF Complete, TypeOK
<1>8. ASSUME NEW r \in RunId, NEW t \in 1..AttemptBound,
             ScheduleRetry(r, t) \/ ReleaseClaim(r, t)
      PROVE  TypeOK'
  <2>1. PICK s \in {"failed", "abandoned"} : Requeue(r, t, s)
    BY <1>8 DEF ScheduleRetry, ReleaseClaim
  <2>2. EndAttempt(r, s) \in Seq(AttemptStatus)
    BY <2>1, EndAttemptProperties DEF Requeue, AttemptStatus
  <2>3. Len(attempts[r]) \in Nat
    <3>1. attempts[r] \in Seq(AttemptStatus)
      BY DEF TypeOK
    <3> QED
      BY <3>1, LenProperties
  <2>4. events' \in [RunId -> SUBSET EventKey]
    <3>1. RetryEvent(r) \in EventKey
      BY <2>3 DEF RetryEvent, QueuedEvent, EventKey
    <3>2. events[r] \cup {RetryEvent(r)} \in SUBSET EventKey
      BY <3>1 DEF TypeOK
    <3>3. \/ events' = events
          \/ events' = [events EXCEPT ![r] = events[r] \cup {RetryEvent(r)}]
      BY <1>8 DEF ScheduleRetry, ReleaseClaim
    <3> QED
      BY <3>2, <3>3 DEF TypeOK
  <2> QED
    BY <2>1, <2>2, <2>4 DEF Requeue, TypeOK
<1>9. ASSUME NEW batch \in SUBSET RunId, ClaimOutbox(batch)
      PROVE  TypeOK'
  BY <1>9 DEF ClaimOutbox, TypeOK, Message, OutboxState
<1>10. ASSUME NEW r \in RunId, NEW s \in OutboxState, SetMessage(r, s)
       PROVE  TypeOK'
  BY <1>10 DEF SetMessage, TypeOK, Message
<1>11. ASSUME NEW e \in Endpoint, NEW f, NEW t \in {"enabled", "disabled"},
              SetEndpoint(e, f, t)
       PROVE  TypeOK'
  BY <1>11 DEF SetEndpoint, TypeOK
<1>12. ASSUME NEW r \in RunId, Age(r)
       PROVE  TypeOK'
  BY <1>12 DEF Age, TypeOK
<1>13. ASSUME NEW r \in RunId, DeleteRun(r)
       PROVE  TypeOK'
  BY <1>13, EmptySeq DEF DeleteRun, TypeOK, NoMessage, Message, OutboxState
<1>14. CASE UNCHANGED storeVars
  BY <1>14 DEF TypeOK
<1> QED
  BY <1>1, <1>2, <1>3, <1>4, <1>5, <1>6, <1>7, <1>8, <1>9, <1>10, <1>11, <1>12,
     <1>13, <1>14, StepCases

\* In every reachable state each variable has its type.
THEOREM TypeCorrect == Spec => []TypeOK
<1> QED
  BY TypeInit, TypeStep, PTL DEF Spec

-----------------------------------------------------------------------------
(* The history of a run: claims, attempts and events agree *)

\* Nothing hangs on a run id without a row: an id is never taken over dirty.
UnusedIsBlank(r) ==
  ~Present(r) => attempts[r] = <<>> /\ claim[r] = 0 /\ events[r] = {}

\* One run's part of the three invariants, and what makes them inductive.
RunHistory(r) ==
  /\ UnusedIsBlank(r)
  /\ status[r] = "running" <=> claim[r] # 0
  /\ status[r] = "running" => AttemptIsCurrent(r)
  /\ \A n \in 1..Len(attempts[r]) : attempts[r][n] = "running" => n = claim[r]
  /\ status[r] \in Terminal =>
       Len(attempts[r]) > 0 /\ attempts[r][Len(attempts[r])] = status[r]
  /\ \A n \in 1..Len(attempts[r]) :
       n < Len(attempts[r]) \/ status[r] = "queued" =>
         attempts[r][n] \in {"failed", "abandoned"}
  /\ Present(r) =>
       events[r] = {QueuedEvent(0)}
                   \cup {QueuedEvent(n) : n \in RetriedAttempts(r)}
                   \cup (IF status[r] \in Terminal THEN {FinalEvent(status[r])} ELSE {})

HistoryInv == TypeOK /\ \A r \in RunId : RunHistory(r)

LEMMA HistoryImplies ==
  HistoryInv => HistoryConsistent
BY DEF HistoryInv, RunHistory, HistoryConsistent, ClaimOwnsRunningAttempt,
       OutcomeIsLastAttempts, EventsMatchHistory

\* A step that leaves a run's row, attempts and events alone keeps its history.
RowUnchanged(r) ==
  /\ status'[r] = status[r] /\ claim'[r] = claim[r]
  /\ attempts'[r] = attempts[r] /\ events'[r] = events[r]

LEMMA HistoryFrame ==
  ASSUME NEW r \in RunId, RunHistory(r), RowUnchanged(r)
  PROVE  RunHistory(r)'
<1>1. RetriedAttempts(r)' = RetriedAttempts(r)
  BY DEF RetriedAttempts, RowUnchanged
<1> QED
  BY <1>1 DEF RunHistory, RowUnchanged, UnusedIsBlank, Present, AttemptIsCurrent

\* Before its outcome, the failed attempts of a run are its retried ones.
LEMMA RetriedWhileActive ==
  ASSUME NEW r \in RunId, status[r] # "failed"
  PROVE  RetriedAttempts(r) = {n \in 1..Len(attempts[r]) : attempts[r][n] = "failed"}
BY DEF RetriedAttempts

LEMMA HistoryInit == Init => HistoryInv
<1> SUFFICES ASSUME Init PROVE HistoryInv
  OBVIOUS
<1>1. Len(<<>>) = 0 /\ 1..0 = {}
  BY EmptySeq
<1> QED
  BY <1>1, TypeInit DEF HistoryInv, RunHistory, UnusedIsBlank, Present, Init

LEMMA InsertHistory ==
  ASSUME HistoryInv, NEW a \in Api, NEW r \in RunId, InsertRun(a, r)
  PROVE  RunHistory(r)'
<1>1. /\ status'[r] = "queued" /\ claim'[r] = 0 /\ attempts'[r] = <<>>
      /\ events'[r] = {QueuedEvent(0)}
  BY DEF HistoryInv, RunHistory, UnusedIsBlank, Present, InsertRun, TypeOK
<1>2. Len(attempts'[r]) = 0 /\ 1..Len(attempts'[r]) = {}
  BY <1>1, EmptySeq
<1>3. RetriedAttempts(r)' = {}
  BY <1>2 DEF RetriedAttempts
<1> QED
  BY <1>1, <1>2, <1>3 DEF RunHistory, UnusedIsBlank, Present

LEMMA DeleteHistory ==
  ASSUME HistoryInv, NEW r \in RunId, DeleteRun(r)
  PROVE  RunHistory(r)'
<1>1. /\ status'[r] = "deleted" /\ claim'[r] = 0 /\ attempts'[r] = <<>>
      /\ events'[r] = {}
  BY DEF HistoryInv, DeleteRun, TypeOK
<1>2. Len(attempts'[r]) = 0 /\ 1..Len(attempts'[r]) = {}
  BY <1>1, EmptySeq
<1> QED
  BY <1>1, <1>2 DEF RunHistory, UnusedIsBlank, Present

\* A claim appends a running attempt to attempts that have all ended, a
\* taken-over one being abandoned by the same step.
LEMMA ClaimHistory ==
  ASSUME HistoryInv, NEW r \in RunId, Claim(r)
  PROVE  RunHistory(r)'
<1> DEFINE len == Len(attempts[r])
           ended == IF status[r] = "running" THEN EndAttempt(r, "abandoned")
                                             ELSE attempts[r]
<1>1. attempts[r] \in Seq(AttemptStatus) /\ TypeOK /\ RunHistory(r)
  BY DEF HistoryInv, TypeOK
<1>2. len \in Nat
  BY <1>1, LenProperties
<1>3. /\ status[r] \in {"queued", "running"}
      /\ status'[r] = "running" /\ claim'[r] = len + 1 /\ events'[r] = events[r]
      /\ attempts'[r] = Append(ended, "running")
  BY <1>1 DEF Claim, Claimable, TypeOK
<1>4. /\ ended \in Seq(AttemptStatus) /\ Len(ended) = len
      /\ \A n \in 1..len : /\ ended[n] \in {"failed", "abandoned"}
                           /\ ended[n] = "failed" <=> attempts[r][n] = "failed"
  <2>1. CASE status[r] = "running"
    <3>1. AttemptIsCurrent(r)
      BY <1>1, <2>1 DEF RunHistory
    <3>2. /\ claim[r] = len /\ ended \in Seq(AttemptStatus) /\ Len(ended) = len
          /\ \A n \in 1..len : ended[n] = IF n = claim[r] THEN "abandoned" ELSE attempts[r][n]
      BY <1>1, <2>1, <3>1, EndAttemptProperties DEF AttemptStatus
    <3>3. \A n \in 1..len : n # claim[r] => attempts[r][n] \in {"failed", "abandoned"}
      BY <1>1, <1>2, <3>2 DEF RunHistory
    <3>4. attempts[r][claim[r]] = "running"
      BY <3>1 DEF AttemptIsCurrent
    <3> QED
      BY <3>2, <3>3, <3>4
  <2>2. CASE status[r] = "queued"
    BY <1>1, <2>2 DEF RunHistory
  <2> QED
    BY <1>3, <2>1, <2>2
<1>5. /\ attempts'[r] \in Seq(AttemptStatus) /\ Len(attempts'[r]) = len + 1
      /\ \A n \in 1..len : attempts'[r][n] = ended[n]
      /\ attempts'[r][len + 1] = "running"
  BY <1>2, <1>3, <1>4, AppendProperties DEF AttemptStatus
<1>6. RetriedAttempts(r)' = RetriedAttempts(r)
  <2>1. RetriedAttempts(r) = {n \in 1..len : attempts[r][n] = "failed"}
    BY <1>3, RetriedWhileActive
  <2>2. RetriedAttempts(r)' = {n \in 1..(len + 1) : attempts'[r][n] = "failed"}
    BY <1>3, <1>5 DEF RetriedAttempts
  <2>3. \A n \in 1..(len + 1) : n \in 1..len \/ n = len + 1
    BY <1>2
  <2>4. \A n \in 1..len : n \in 1..(len + 1)
    BY <1>2
  <2> QED
    BY <1>4, <1>5, <2>1, <2>2, <2>3, <2>4
<1>7. AttemptIsCurrent(r)'
  BY <1>2, <1>3, <1>5 DEF AttemptIsCurrent
<1>8. \A n \in 1..Len(attempts'[r]) :
        attempts'[r][n] = "running" => n = claim'[r]
  <2>1. \A n \in 1..(len + 1) : n \in 1..len \/ n = len + 1
    BY <1>2
  <2> QED
    BY <1>3, <1>4, <1>5, <2>1
<1>9. \A n \in 1..Len(attempts'[r]) :
        n < Len(attempts'[r]) => attempts'[r][n] \in {"failed", "abandoned"}
  <2>1. \A n \in 1..(len + 1) : n < len + 1 => n \in 1..len
    BY <1>2
  <2> QED
    BY <1>4, <1>5, <2>1
<1>10. events'[r] = {QueuedEvent(0)} \cup {QueuedEvent(n) : n \in RetriedAttempts(r)'}
  <2>1. events[r] = {QueuedEvent(0)} \cup {QueuedEvent(n) : n \in RetriedAttempts(r)}
    BY <1>1, <1>3 DEF RunHistory, Present
  <2> QED
    BY <1>3, <1>6, <2>1
<1>11. claim'[r] # 0
  BY <1>2, <1>3
<1> QED
  BY <1>3, <1>7, <1>8, <1>9, <1>10, <1>11 DEF RunHistory, UnusedIsBlank, Present

\* What a run's attempts look like once its running attempt has ended as s.
LEMMA EndedAttempts ==
  ASSUME HistoryInv, NEW r \in RunId, NEW s \in {"succeeded", "failed", "abandoned"},
         AttemptIsCurrent(r), status[r] = "running", attempts'[r] = EndAttempt(r, s)
  PROVE  LET len == Len(attempts[r]) IN
         /\ len \in Nat /\ len > 0
         /\ Len(attempts'[r]) = len /\ attempts'[r][len] = s
         /\ \A n \in 1..len : n < len => attempts'[r][n] \in {"failed", "abandoned"}
         /\ \A n \in 1..len : attempts'[r][n] # "running"
         /\ RetriedAttempts(r) = {n \in 1..len : n < len /\ attempts'[r][n] = "failed"}
<1> DEFINE len == Len(attempts[r])
<1>1. attempts[r] \in Seq(AttemptStatus) /\ TypeOK /\ RunHistory(r)
  BY DEF HistoryInv, TypeOK
<1>2. s \in AttemptStatus
  BY DEF AttemptStatus
<1>3. /\ claim[r] \in 1..len /\ claim[r] = len /\ Len(attempts'[r]) = len
      /\ \A n \in 1..len : attempts'[r][n] = IF n = claim[r] THEN s ELSE attempts[r][n]
  BY <1>1, <1>2, EndAttemptProperties
<1>4. len \in Nat /\ len > 0 /\ len \in 1..len
  BY <1>1, <1>3, LenProperties
<1>5. \A n \in 1..len : n < len => attempts[r][n] \in {"failed", "abandoned"}
  BY <1>1 DEF RunHistory
<1>6. \A n \in 1..len : n < len <=> n # len
  BY <1>4
<1>7. attempts[r][len] = "running"
  BY <1>3 DEF AttemptIsCurrent
<1>8. RetriedAttempts(r) = {n \in 1..len : attempts[r][n] = "failed"}
  BY RetriedWhileActive
<1>9. RetriedAttempts(r) = {n \in 1..len : n < len /\ attempts'[r][n] = "failed"}
  BY <1>3, <1>6, <1>7, <1>8
<1>10. \A n \in 1..len : attempts'[r][n] # "running"
  BY <1>3, <1>5, <1>6
<1>11. \A n \in 1..len : n < len => attempts'[r][n] \in {"failed", "abandoned"}
  BY <1>3, <1>5, <1>6
<1> QED
  BY <1>3, <1>4, <1>9, <1>10, <1>11

LEMMA CompleteHistory ==
  ASSUME HistoryInv, NEW r \in RunId, NEW t, NEW o \in Outcome, Complete(r, t, o)
  PROVE  RunHistory(r)'
<1> DEFINE len == Len(attempts[r])
<1>1. /\ AttemptIsCurrent(r) /\ status[r] = "running" /\ RunHistory(r)
      /\ status'[r] = o /\ claim'[r] = 0 /\ attempts'[r] = EndAttempt(r, o)
      /\ events'[r] = events[r] \cup {FinalEvent(o)}
  BY DEF HistoryInv, TypeOK, Complete, HoldsClaim
<1>2. /\ len \in Nat /\ len > 0
      /\ Len(attempts'[r]) = len /\ attempts'[r][len] = o
      /\ \A n \in 1..len : n < len => attempts'[r][n] \in {"failed", "abandoned"}
      /\ \A n \in 1..len : attempts'[r][n] # "running"
      /\ RetriedAttempts(r) = {n \in 1..len : n < len /\ attempts'[r][n] = "failed"}
  BY <1>1, EndedAttempts
<1>3. RetriedAttempts(r)' = RetriedAttempts(r)
  <2>1. RetriedAttempts(r)' =
          {n \in 1..len : attempts'[r][n] = "failed" /\ ~(o = "failed" /\ n = len)}
    BY <1>1, <1>2 DEF RetriedAttempts
  <2>2. \A n \in 1..len : n < len <=> n # len
    BY <1>2
  <2> QED
    BY <1>2, <2>1, <2>2
<1>4. events[r] = {QueuedEvent(0)} \cup {QueuedEvent(n) : n \in RetriedAttempts(r)}
  BY <1>1 DEF RunHistory, Present
<1> QED
  BY <1>1, <1>2, <1>3, <1>4 DEF RunHistory, UnusedIsBlank, Present

\* The part scheduleRetry and releaseClaim share, the events aside.
LEMMA RequeueHistory ==
  ASSUME HistoryInv, NEW r \in RunId, NEW t, NEW s \in {"failed", "abandoned"},
         Requeue(r, t, s),
         events'[r] = events[r] \cup (IF s = "failed" THEN {RetryEvent(r)} ELSE {})
  PROVE  RunHistory(r)'
<1> DEFINE len == Len(attempts[r])
<1>1. /\ AttemptIsCurrent(r) /\ status[r] = "running" /\ RunHistory(r)
      /\ status'[r] = "queued" /\ claim'[r] = 0 /\ attempts'[r] = EndAttempt(r, s)
  BY DEF HistoryInv, TypeOK, Requeue, HoldsClaim
<1>2. /\ len \in Nat /\ len > 0
      /\ Len(attempts'[r]) = len /\ attempts'[r][len] = s
      /\ \A n \in 1..len : n < len => attempts'[r][n] \in {"failed", "abandoned"}
      /\ \A n \in 1..len : attempts'[r][n] # "running"
      /\ RetriedAttempts(r) = {n \in 1..len : n < len /\ attempts'[r][n] = "failed"}
  BY <1>1, EndedAttempts
<1>3. \A n \in 1..len : n < len <=> n # len
  BY <1>2
<1>4. \A n \in 1..len : attempts'[r][n] \in {"failed", "abandoned"}
  BY <1>2, <1>3
<1>5. len \in 1..len
  BY <1>2
<1>6. RetriedAttempts(r)' = RetriedAttempts(r) \cup (IF s = "failed" THEN {len} ELSE {})
  <2>1. RetriedAttempts(r)' = {n \in 1..len : attempts'[r][n] = "failed"}
    BY <1>1, <1>2 DEF RetriedAttempts
  <2> QED
    BY <1>2, <1>3, <1>5, <2>1
<1>7. events[r] = {QueuedEvent(0)} \cup {QueuedEvent(n) : n \in RetriedAttempts(r)}
  BY <1>1 DEF RunHistory, Present
<1>8. events'[r] = {QueuedEvent(0)} \cup {QueuedEvent(n) : n \in RetriedAttempts(r)'}
  BY <1>6, <1>7 DEF RetryEvent
<1> QED
  BY <1>1, <1>2, <1>4, <1>8 DEF RunHistory, UnusedIsBlank, Present

LEMMA HistoryStep == HistoryInv /\ [Next]_storeVars => HistoryInv'
<1> SUFFICES ASSUME HistoryInv, [Next]_storeVars, NEW s \in RunId
             PROVE  RunHistory(s)'
  BY TypeStep DEF HistoryInv
<1>1. TypeOK /\ RunHistory(s)
  BY DEF HistoryInv
<1>2. CASE RowUnchanged(s)
  BY <1>1, <1>2, HistoryFrame
<1>3. ASSUME NEW a \in Api, NEW r \in RunId, InsertRun(a, r)
      PROVE  RunHistory(s)'
  <2>1. CASE s = r
    BY <1>3, <2>1, InsertHistory
  <2>2. CASE s # r
    BY <1>1, <1>2, <1>3, <2>2 DEF InsertRun, RowUnchanged, TypeOK
  <2> QED
    BY <2>1, <2>2
<1>4. ASSUME NEW r \in RunId, Claim(r)
      PROVE  RunHistory(s)'
  <2>1. CASE s = r
    BY <1>4, <2>1, ClaimHistory
  <2>2. CASE s # r
    BY <1>1, <1>2, <1>4, <2>2 DEF Claim, RowUnchanged, TypeOK
  <2> QED
    BY <2>1, <2>2
<1>5. ASSUME NEW r \in RunId, NEW t, NEW o \in Outcome, Complete(r, t, o)
      PROVE  RunHistory(s)'
  <2>1. CASE s = r
    BY <1>5, <2>1, CompleteHistory
  <2>2. CASE s # r
    BY <1>1, <1>2, <1>5, <2>2 DEF Complete, RowUnchanged, TypeOK
  <2> QED
    BY <2>1, <2>2
<1>6. ASSUME NEW r \in RunId, NEW t, ScheduleRetry(r, t)
      PROVE  RunHistory(s)'
  <2>1. Requeue(r, t, "failed") /\ events' = [events EXCEPT ![r] = @ \cup {RetryEvent(r)}]
    BY <1>6 DEF ScheduleRetry
  <2>2. events'[r] = events[r] \cup {RetryEvent(r)}
    BY <1>1, <2>1 DEF TypeOK
  <2>3. CASE s = r
    BY <2>1, <2>2, <2>3, RequeueHistory
  <2>4. CASE s # r
    BY <1>1, <1>2, <2>1, <2>4 DEF Requeue, RowUnchanged, TypeOK
  <2> QED
    BY <2>3, <2>4
<1>7. ASSUME NEW r \in RunId, NEW t, ReleaseClaim(r, t)
      PROVE  RunHistory(s)'
  <2>1. Requeue(r, t, "abandoned") /\ events' = events
    BY <1>7 DEF ReleaseClaim
  <2>2. events'[r] = events[r] \cup {}
    BY <2>1
  <2>3. CASE s = r
    BY <2>1, <2>2, <2>3, RequeueHistory
  <2>4. CASE s # r
    BY <1>1, <1>2, <2>1, <2>4 DEF Requeue, RowUnchanged, TypeOK
  <2> QED
    BY <2>3, <2>4
<1>8. ASSUME NEW r \in RunId, DeleteRun(r)
      PROVE  RunHistory(s)'
  <2>1. CASE s = r
    BY <1>8, <2>1, DeleteHistory
  <2>2. CASE s # r
    BY <1>1, <1>2, <1>8, <2>2 DEF DeleteRun, RowUnchanged, TypeOK
  <2> QED
    BY <2>1, <2>2
<1>9. CASE UNCHANGED <<status, claim, attempts, events>>
  BY <1>2, <1>9 DEF RowUnchanged
<1>10. ASSUME NEW a \in Api, NEW q \in Requests,
              BeginAccept(a, q) \/ BeginUnlimitedAccept(a, q)
       PROVE  UNCHANGED <<status, claim, attempts, events>>
  BY <1>10 DEF BeginAccept, BeginUnlimitedAccept
<1>11. ASSUME NEW a \in Api,
              \/ AnswerKnownKey(a) \/ RejectBacklog(a) \/ Admit(a)
              \/ InsertConflict(a) \/ AbortAccept(a)
       PROVE  UNCHANGED <<status, claim, attempts, events>>
  BY <1>11 DEF AnswerKnownKey, RejectBacklog, Admit, InsertConflict, AbortAccept
<1>12. ASSUME \/ \E r \in RunId : Age(r)
              \/ \E batch \in SUBSET RunId : ClaimOutbox(batch)
              \/ \E r \in RunId, m \in OutboxState : SetMessage(r, m)
              \/ \E e \in Endpoint, f \in {"absent", "enabled"}, t \in {"enabled", "disabled"} :
                   SetEndpoint(e, f, t)
              \/ UNCHANGED storeVars
       PROVE  UNCHANGED <<status, claim, attempts, events>>
  BY <1>12 DEF Age, ClaimOutbox, SetMessage, SetEndpoint
<1> QED
  BY <1>3, <1>4, <1>5, <1>6, <1>7, <1>8, <1>9, <1>10, <1>11, <1>12, StepCases

\* A run is running exactly while the claim of its newest attempt is set; what
\* a caller reads is the last attempt's outcome; the event log tells the same
\* history as the attempts.
THEOREM HistoryCorrect == Spec => []HistoryConsistent
<1> QED
  BY HistoryInit, HistoryStep, HistoryImplies, PTL DEF Spec

-----------------------------------------------------------------------------
(* How each step changes the rows *)

\* A step that creates no run: rows disappear or keep their submission, and
\* no run becomes unfinished.
NoNewRun ==
  \A r \in RunId :
    /\ status'[r] # "absent" => status[r] # "absent"
    /\ Present(r)' => Present(r) /\ request'[r] = request[r]
    /\ status'[r] \in Active => status[r] \in Active
    /\ Present(r) => Present(r)' \/ status'[r] = "deleted"
    /\ status[r] = "deleted" => status'[r] = "deleted"

\* A step of one session that leaves every table alone.
SessionStep(a) ==
  \/ \E q \in Requests : BeginAccept(a, q) \/ BeginUnlimitedAccept(a, q)
  \/ AnswerKnownKey(a) \/ RejectBacklog(a) \/ Admit(a)
  \/ InsertConflict(a) \/ AbortAccept(a)

LEMMA RowSteps ==
  ASSUME TypeOK, [Next]_storeVars
  PROVE  \/ \E a \in Api : SessionStep(a) /\ UNCHANGED tables
         \/ \E a \in Api, r \in RunId : InsertRun(a, r)
         \/ NoNewRun /\ UNCHANGED <<intake, lock, promised>>
<1>1. ASSUME NEW a \in Api, SessionStep(a)
      PROVE  UNCHANGED tables
  BY <1>1 DEF SessionStep, BeginAccept, BeginUnlimitedAccept, AnswerKnownKey,
              RejectBacklog, Admit, InsertConflict, AbortAccept
<1>2. ASSUME NEW r \in RunId, Claim(r)
      PROVE  NoNewRun /\ UNCHANGED <<intake, lock, promised>>
  BY <1>2 DEF Claim, Claimable, NoNewRun, Present, TypeOK
<1>3. ASSUME NEW r \in RunId, NEW t, NEW o \in Outcome, Complete(r, t, o)
      PROVE  NoNewRun /\ UNCHANGED <<intake, lock, promised>>
  BY <1>3 DEF Complete, HoldsClaim, NoNewRun, Present, TypeOK
<1>4. ASSUME NEW r \in RunId, NEW t, ScheduleRetry(r, t) \/ ReleaseClaim(r, t)
      PROVE  NoNewRun /\ UNCHANGED <<intake, lock, promised>>
  <2>1. PICK s : Requeue(r, t, s)
    BY <1>4 DEF ScheduleRetry, ReleaseClaim
  <2> QED
    BY <2>1 DEF Requeue, HoldsClaim, NoNewRun, Present, TypeOK
<1>5. ASSUME NEW r \in RunId, DeleteRun(r)
      PROVE  NoNewRun /\ UNCHANGED <<intake, lock, promised>>
  BY <1>5 DEF DeleteRun, Deletable, NoNewRun, Present, TypeOK
<1>6. ASSUME \/ \E r \in RunId : Age(r)
             \/ \E batch \in SUBSET RunId : ClaimOutbox(batch)
             \/ \E r \in RunId, m \in OutboxState : SetMessage(r, m)
             \/ \E e \in Endpoint, f \in {"absent", "enabled"}, t \in {"enabled", "disabled"} :
                  SetEndpoint(e, f, t)
             \/ UNCHANGED storeVars
      PROVE  NoNewRun /\ UNCHANGED <<intake, lock, promised>>
  <2>1. UNCHANGED <<request, status, intake, lock, promised>>
    BY <1>6 DEF Age, ClaimOutbox, SetMessage, SetEndpoint
  <2> QED
    BY <2>1 DEF NoNewRun, Present
<1> QED
  BY <1>1, <1>2, <1>3, <1>4, <1>5, <1>6, StepCases DEF SessionStep

LEMMA InsertRows ==
  ASSUME TypeOK, NEW a \in Api, NEW r \in RunId, InsertRun(a, r)
  PROVE  /\ intake[a].request \in Requests
         /\ status[r] = "absent" /\ RunOf(intake[a].request) = {}
         /\ status'[r] = "queued" /\ request'[r] = intake[a].request
         /\ \A s \in RunId : s # r => status'[s] = status[s] /\ request'[s] = request[s]
<1>1. intake[a].request \in Requests
  BY IntakeRequest DEF InsertRun
<1> QED
  BY <1>1 DEF InsertRun, KeyIsFree, TypeOK

-----------------------------------------------------------------------------
(* Idempotency keys and the answers callers hold *)

\* A row always has the submission it was created for.
RowsHaveRequests == \A r \in RunId : Present(r) => request[r] \in Requests

AcceptInv == TypeOK /\ RowsHaveRequests /\ OneRunPerKey /\ PromiseKept

LEMMA AcceptInit == Init => AcceptInv
BY TypeInit DEF AcceptInv, Init, Present, RowsHaveRequests, OneRunPerKey, PromiseKept

\* A promise that holds survives a step that creates no run.
LEMMA PromiseFrame ==
  ASSUME TypeOK, PromiseKept, NoNewRun, promised' = promised
  PROVE  PromiseKept'
<1> SUFFICES ASSUME NEW c \in Caller, NEW k \in Key,
                    promised[c][k] # NoPromise,
                    status'[promised[c][k].run] # "deleted"
             PROVE  /\ Present(promised[c][k].run)'
                    /\ request'[promised[c][k].run] =
                         [caller |-> c, key |-> k,
                          fingerprint |-> promised[c][k].fingerprint]
  BY DEF PromiseKept, Present
<1> DEFINE p == promised[c][k]
<1>1. p.run \in RunId
  BY DEF TypeOK, Promise
<1>2. status[p.run] # "deleted"
  BY <1>1 DEF NoNewRun
<1>3. /\ Present(p.run)
      /\ request[p.run] = [caller |-> c, key |-> k, fingerprint |-> p.fingerprint]
  BY <1>2 DEF PromiseKept
<1> QED
  BY <1>1, <1>3 DEF NoNewRun

\* Answering with the run of a key, after comparing fingerprints, is a promise
\* that holds.
LEMMA AnswerKeepsPromise ==
  ASSUME AcceptInv, NEW a \in Api, intake[a].phase # "idle",
         NEW r \in RunOf(intake[a].request), AnswerExisting(r, intake[a].request),
         UNCHANGED tables
  PROVE  PromiseKept'
<1> DEFINE q == intake[a].request
<1>1. q \in Requests /\ q.caller \in Caller /\ q.key \in Key
  BY IntakeRequest DEF AcceptInv
<1>2. /\ r \in RunId /\ Present(r) /\ request[r] \in Requests
      /\ request[r].caller = q.caller /\ request[r].key = q.key
  BY DEF RunOf, AcceptInv, RowsHaveRequests
<1>3. NoNewRun /\ TypeOK /\ PromiseKept
  BY DEF NoNewRun, AcceptInv, Present
<1>4. CASE promised' = promised
  BY <1>3, <1>4, PromiseFrame
<1>5. CASE SameRequest(r, q)
  <2>1. request[r] = [caller |-> q.caller, key |-> q.key, fingerprint |-> q.fingerprint]
    BY <1>2, <1>5, RequestsAssumption DEF SameRequest
  <2>2. promised' = [promised EXCEPT ![q.caller][q.key] =
                       [run |-> r, fingerprint |-> q.fingerprint]]
    BY <1>5 DEF AnswerExisting
  <2> SUFFICES ASSUME NEW c \in Caller, NEW k \in Key
               PROVE  LET p == promised'[c][k] IN
                      \/ p = NoPromise
                      \/ status[p.run] = "deleted"
                      \/ /\ Present(p.run)
                         /\ request[p.run] =
                              [caller |-> c, key |-> k, fingerprint |-> p.fingerprint]
    BY DEF PromiseKept, Present
  <2>3. CASE c = q.caller /\ k = q.key
    <3>1. promised'[c][k] = [run |-> r, fingerprint |-> q.fingerprint]
      BY <1>1, <1>3, <2>2, <2>3 DEF TypeOK
    <3> QED
      BY <1>2, <2>1, <2>3, <3>1
  <2>4. CASE ~(c = q.caller /\ k = q.key)
    <3>1. promised'[c][k] = promised[c][k]
      BY <1>1, <1>3, <2>2, <2>4 DEF TypeOK
    <3> QED
      BY <1>3, <3>1 DEF PromiseKept
  <2> QED
    BY <2>3, <2>4
<1> QED
  BY <1>4, <1>5 DEF AnswerExisting

LEMMA InsertKeepsAccept ==
  ASSUME AcceptInv, NEW a \in Api, NEW r \in RunId, InsertRun(a, r)
  PROVE  RowsHaveRequests' /\ OneRunPerKey' /\ PromiseKept'
<1> DEFINE q == intake[a].request
<1>1. TypeOK /\ RowsHaveRequests /\ OneRunPerKey /\ PromiseKept
  BY DEF AcceptInv
<1>2. /\ q \in Requests
      /\ status[r] = "absent" /\ RunOf(q) = {}
      /\ status'[r] = "queued" /\ request'[r] = q
      /\ \A s \in RunId : s # r => status'[s] = status[s] /\ request'[s] = request[s]
  BY <1>1, InsertRows
<1>3. q.caller \in Caller /\ q.key \in Key
  BY <1>1, IntakeRequest DEF InsertRun
<1>4. RowsHaveRequests'
  BY <1>1, <1>2 DEF RowsHaveRequests, Present
<1>5. \A s \in RunId : Present(s) =>
        ~(request[s].caller = q.caller /\ request[s].key = q.key)
  BY <1>2 DEF RunOf
<1>6. OneRunPerKey'
  <2> SUFFICES ASSUME NEW s \in RunId, NEW u \in RunId,
                      Present(s)', Present(u)',
                      request'[s].caller = request'[u].caller,
                      request'[s].key = request'[u].key
               PROVE  s = u
    BY DEF OneRunPerKey
  <2>1. CASE s # r /\ u # r
    BY <1>1, <1>2, <2>1 DEF OneRunPerKey, Present
  <2>2. CASE s = r /\ u # r
    BY <1>2, <1>5, <2>2 DEF Present
  <2>3. CASE s # r /\ u = r
    BY <1>2, <1>5, <2>3 DEF Present
  <2> QED
    BY <2>1, <2>2, <2>3
<1>7. PromiseKept'
  <2>1. promised' = [promised EXCEPT ![q.caller][q.key] =
                       [run |-> r, fingerprint |-> q.fingerprint]]
    BY DEF InsertRun
  <2> SUFFICES ASSUME NEW c \in Caller, NEW k \in Key
               PROVE  LET p == promised'[c][k] IN
                      \/ p = NoPromise
                      \/ status'[p.run] = "deleted"
                      \/ /\ status'[p.run] \in Active \cup Terminal
                         /\ request'[p.run] =
                              [caller |-> c, key |-> k, fingerprint |-> p.fingerprint]
    BY DEF PromiseKept, Present
  <2>2. CASE c = q.caller /\ k = q.key
    <3>1. promised'[c][k] = [run |-> r, fingerprint |-> q.fingerprint]
      BY <1>1, <1>3, <2>1, <2>2 DEF TypeOK
    <3>2. q = [caller |-> c, key |-> k, fingerprint |-> q.fingerprint]
      BY <1>2, <2>2, RequestsAssumption
    <3> QED
      BY <1>2, <3>1, <3>2 DEF Present
  <2>3. CASE ~(c = q.caller /\ k = q.key)
    <3> DEFINE p == promised[c][k]
    <3>1. promised'[c][k] = p /\ p \in Promise
      BY <1>1, <1>3, <2>1, <2>3 DEF TypeOK
    <3>2. CASE p = NoPromise
      BY <3>1, <3>2
    <3>3. CASE p # NoPromise
      <4>1. p.run \in RunId
        BY <3>1, <3>3 DEF Promise
      <4>2. \/ status[p.run] = "deleted"
            \/ /\ Present(p.run)
               /\ request[p.run] =
                    [caller |-> c, key |-> k, fingerprint |-> p.fingerprint]
        BY <1>1, <3>3 DEF PromiseKept
      <4>3. p.run # r
        BY <1>2, <4>2 DEF Present
      <4> QED
        BY <1>2, <3>1, <4>1, <4>2, <4>3 DEF Present
    <3> QED
      BY <3>2, <3>3
  <2> QED
    BY <2>2, <2>3
<1> QED
  BY <1>4, <1>6, <1>7

LEMMA AcceptStep == AcceptInv /\ [Next]_storeVars => AcceptInv'
<1> SUFFICES ASSUME AcceptInv, [Next]_storeVars PROVE AcceptInv'
  OBVIOUS
<1>1. TypeOK /\ TypeOK' /\ RowsHaveRequests /\ OneRunPerKey /\ PromiseKept
  BY TypeStep DEF AcceptInv
<1>2. ASSUME NEW a \in Api, NEW r \in RunId, InsertRun(a, r)
      PROVE  AcceptInv'
  BY <1>1, <1>2, InsertKeepsAccept DEF AcceptInv
<1>3. ASSUME NEW a \in Api, SessionStep(a), UNCHANGED tables
      PROVE  AcceptInv'
  <2>1. RowsHaveRequests' /\ OneRunPerKey'
    BY <1>1, <1>3 DEF RowsHaveRequests, OneRunPerKey, Present
  <2>2. CASE AnswerKnownKey(a) \/ InsertConflict(a)
    <3>1. intake[a].phase # "idle"
      BY <2>2 DEF AnswerKnownKey, InsertConflict
    <3>2. PICK r \in RunOf(intake[a].request) : AnswerExisting(r, intake[a].request)
      BY <2>2 DEF AnswerKnownKey, InsertConflict
    <3> QED
      BY <1>1, <1>3, <2>1, <3>1, <3>2, AnswerKeepsPromise DEF AcceptInv
  <2>3. CASE ~(AnswerKnownKey(a) \/ InsertConflict(a))
    <3>1. promised' = promised
      BY <1>3, <2>3 DEF SessionStep, BeginAccept, BeginUnlimitedAccept,
                        RejectBacklog, Admit, AbortAccept
    <3>2. NoNewRun
      BY <1>3 DEF NoNewRun, Present
    <3> QED
      BY <1>1, <2>1, <3>1, <3>2, PromiseFrame DEF AcceptInv
  <2> QED
    BY <2>2, <2>3
<1>4. CASE NoNewRun /\ UNCHANGED <<intake, lock, promised>>
  <2>1. RowsHaveRequests' /\ OneRunPerKey'
    BY <1>1, <1>4 DEF RowsHaveRequests, OneRunPerKey, NoNewRun
  <2> QED
    BY <1>1, <1>4, <2>1, PromiseFrame DEF AcceptInv
<1> QED
  BY <1>1, <1>2, <1>3, <1>4, RowSteps

\* An idempotency key of a caller never has two runs, whatever sessions race
\* for it, with the advisory lock or without.
THEOREM KeyOwnsOneRun == Spec => []OneRunPerKey
<1>1. AcceptInv => OneRunPerKey
  BY DEF AcceptInv
<1> QED
  BY <1>1, AcceptInit, AcceptStep, PTL DEF Spec

\* Every 202 answer stays true until retention deletes the run it named.
THEOREM AcceptCorrect == Spec => []PromiseKept
<1>1. AcceptInv => PromiseKept
  BY DEF AcceptInv
<1> QED
  BY <1>1, AcceptInit, AcceptStep, PTL DEF Spec

-----------------------------------------------------------------------------
(* The backlog limits *)

\* What a session that has passed admission may rely on until it inserts.
RoomFor(q) ==
  Cardinality(CallerBacklog(q.caller)) < CallerLimit /\ Cardinality(Backlog) < GlobalLimit

\* The advisory lock makes the count and the insert one step: only the lock's
\* holder is inside `accept`, so what it counted is still true when it inserts.
AdmissionInv ==
  /\ IsFiniteSet(Backlog)
  /\ BacklogBounded
  /\ \A a \in Api : intake[a].phase # "idle" => lock = a
  /\ \A a \in Api : intake[a].phase = "admitted" => RoomFor(intake[a].request)

BoundedInv == TypeOK /\ (Admission => AdmissionInv)

LEMMA CallerBacklogFinite ==
  ASSUME IsFiniteSet(Backlog), NEW c
  PROVE  IsFiniteSet(CallerBacklog(c)) /\ Cardinality(CallerBacklog(c)) \in Nat
<1>1. CallerBacklog(c) \subseteq Backlog
  BY DEF CallerBacklog
<1> QED
  BY <1>1, FS_Subset, FS_CardinalityType

LEMMA BoundedInit == Init => BoundedInv
<1> SUFFICES ASSUME Init PROVE BoundedInv
  OBVIOUS
<1>1. Backlog = {} /\ \A c : CallerBacklog(c) = {}
  BY DEF Init, Backlog, CallerBacklog
<1>2. IsFiniteSet({}) /\ Cardinality({}) = 0
  BY FS_EmptySet
<1>3. BacklogBounded
  BY <1>1, <1>2, LimitAssumption DEF BacklogBounded
<1> QED
  BY <1>1, <1>2, <1>3, TypeInit DEF BoundedInv, AdmissionInv, Init, IdleIntake

\* A step that leaves the sessions alone and creates no run only shrinks what
\* the limits count.
LEMMA BacklogShrinks ==
  ASSUME TypeOK, AdmissionInv, NoNewRun
  PROVE  /\ IsFiniteSet(Backlog') /\ Cardinality(Backlog') <= Cardinality(Backlog)
         /\ Cardinality(Backlog) \in Nat /\ Cardinality(Backlog') \in Nat
         /\ \A c \in Caller :
              /\ Cardinality(CallerBacklog(c)') <= Cardinality(CallerBacklog(c))
              /\ Cardinality(CallerBacklog(c)) \in Nat
              /\ Cardinality(CallerBacklog(c)') \in Nat
<1>1. Backlog' \subseteq Backlog
  BY DEF NoNewRun, Backlog
<1>2. \A c \in Caller : CallerBacklog(c)' \subseteq CallerBacklog(c)
  BY <1>1 DEF NoNewRun, Backlog, CallerBacklog, Present
<1>3. /\ IsFiniteSet(Backlog) /\ IsFiniteSet(Backlog')
      /\ Cardinality(Backlog') <= Cardinality(Backlog)
  BY <1>1, FS_Subset DEF AdmissionInv
<1>4. \A c \in Caller :
        /\ IsFiniteSet(CallerBacklog(c)) /\ IsFiniteSet(CallerBacklog(c)')
        /\ Cardinality(CallerBacklog(c)') <= Cardinality(CallerBacklog(c))
  BY <1>2, <1>3, CallerBacklogFinite, FS_Subset
<1> QED
  BY <1>3, <1>4, FS_CardinalityType

\* The insert uses the room its session was admitted for.
LEMMA InsertBounded ==
  ASSUME BoundedInv, Admission, NEW a \in Api, NEW r \in RunId, InsertRun(a, r)
  PROVE  AdmissionInv'
<1> DEFINE q == intake[a].request
<1>1. /\ TypeOK /\ AdmissionInv /\ intake[a].phase = "admitted" /\ lock = a
      /\ IsFiniteSet(Backlog) /\ RoomFor(q)
  BY DEF BoundedInv, AdmissionInv, InsertRun
<1>2. /\ status[r] = "absent" /\ status'[r] = "queued" /\ request'[r] = q
      /\ \A s \in RunId : s # r => status'[s] = status[s] /\ request'[s] = request[s]
  BY <1>1, InsertRows
<1>3. Backlog' = Backlog \cup {r} /\ r \notin Backlog
  BY <1>2 DEF Backlog
<1>4. \A c \in Caller :
        CallerBacklog(c)' = CallerBacklog(c) \cup (IF q.caller = c THEN {r} ELSE {})
  BY <1>2, <1>3 DEF Backlog, CallerBacklog
<1>5. /\ IsFiniteSet(Backlog') /\ Cardinality(Backlog') = Cardinality(Backlog) + 1
      /\ Cardinality(Backlog) \in Nat
  BY <1>1, <1>3, FS_AddElement, FS_CardinalityType
<1>6. \A c \in Caller : Cardinality(CallerBacklog(c)') <= CallerLimit
  <2> SUFFICES ASSUME NEW c \in Caller
               PROVE  Cardinality(CallerBacklog(c)') <= CallerLimit
    OBVIOUS
  <2>1. IsFiniteSet(CallerBacklog(c)) /\ Cardinality(CallerBacklog(c)) \in Nat
    BY <1>1, CallerBacklogFinite
  <2>2. CASE q.caller = c
    <3>1. Cardinality(CallerBacklog(c)) < CallerLimit
      BY <1>1, <2>2 DEF RoomFor
    <3>2. CallerBacklog(c)' = CallerBacklog(c) \cup {r} /\ r \notin CallerBacklog(c)
      BY <1>3, <1>4, <2>2 DEF CallerBacklog
    <3>3. Cardinality(CallerBacklog(c)') = Cardinality(CallerBacklog(c)) + 1
      BY <2>1, <3>2, FS_AddElement
    <3> QED
      BY <2>1, <3>1, <3>3, LimitAssumption
  <2>3. CASE q.caller # c
    <3>1. CallerBacklog(c)' = CallerBacklog(c)
      BY <1>4, <2>3
    <3> QED
      BY <1>1, <3>1 DEF AdmissionInv, BacklogBounded
  <2> QED
    BY <2>2, <2>3
<1>7. Cardinality(Backlog') <= GlobalLimit
  BY <1>1, <1>5, LimitAssumption DEF RoomFor
<1>8. \A b \in Api : intake'[b].phase = "idle"
  BY <1>1 DEF AdmissionInv, InsertRun, EndAccept, TypeOK, IdleIntake
<1> QED
  BY <1>5, <1>6, <1>7, <1>8 DEF AdmissionInv, BacklogBounded

LEMMA SessionBounded ==
  ASSUME BoundedInv, Admission, NEW a \in Api, SessionStep(a), UNCHANGED tables
  PROVE  AdmissionInv'
<1>1. TypeOK /\ AdmissionInv
  BY DEF BoundedInv
<1>2. IsFiniteSet(Backlog)' /\ BacklogBounded'
  BY <1>1 DEF AdmissionInv, BacklogBounded, Backlog, CallerBacklog
<1>3. \A q : RoomFor(q)' <=> RoomFor(q)
  BY DEF RoomFor, Backlog, CallerBacklog
<1>4. CASE EndAccept(a)
  BY <1>1, <1>2, <1>3, <1>4 DEF AdmissionInv, EndAccept, TypeOK, IdleIntake
<1>5. ASSUME NEW q \in Requests, BeginAccept(a, q)
      PROVE  AdmissionInv'
  <2>1. lock = Nobody /\ lock' = a /\ a # Nobody
    BY <1>5, ApiAssumption DEF BeginAccept, LockFree
  <2>2. \A b \in Api : intake[b].phase = "idle"
    BY <1>1, <2>1, ApiAssumption DEF AdmissionInv
  <2>3. \A b \in Api : IF b = a THEN intake'[b].phase = "locked"
                                ELSE intake'[b] = intake[b]
    BY <1>1, <1>5 DEF BeginAccept, TypeOK
  <2> QED
    BY <1>2, <2>1, <2>2, <2>3 DEF AdmissionInv
<1>6. CASE Admit(a)
  <2>1. /\ lock = a /\ lock' = a /\ intake[a].phase = "locked"
        /\ intake[a].request.caller \in Caller /\ ~BacklogFull(intake[a].request.caller)
    BY <1>1, <1>6, IntakeRequest DEF Admit, AdmissionInv
  <2>2. RoomFor(intake[a].request)
    <3>1. /\ Cardinality(Backlog) \in Nat
          /\ Cardinality(CallerBacklog(intake[a].request.caller)) \in Nat
      BY <1>1, CallerBacklogFinite, FS_CardinalityType DEF AdmissionInv
    <3> QED
      BY <2>1, <3>1, LimitAssumption DEF RoomFor, BacklogFull
  <2>3. \A b \in Api : b # a => intake'[b] = intake[b]
    BY <1>1, <1>6 DEF Admit, TypeOK
  <2>4. intake'[a].request = intake[a].request
    BY <1>1, <1>6, <2>1 DEF Admit, TypeOK, IntakeState, IdleIntake
  <2>5. \A b \in Api : intake'[b].phase # "idle" => lock' = b
    BY <1>1, <2>1, <2>3 DEF AdmissionInv
  <2>6. \A b \in Api : intake'[b].phase = "admitted" => RoomFor(intake'[b].request)
    BY <1>1, <2>2, <2>3, <2>4 DEF AdmissionInv
  <2> QED
    BY <1>2, <1>3, <2>5, <2>6 DEF AdmissionInv
<1> QED
  BY <1>4, <1>5, <1>6 DEF SessionStep, BeginUnlimitedAccept, AnswerKnownKey,
                          RejectBacklog, InsertConflict, AbortAccept

LEMMA BoundedStep == BoundedInv /\ [Next]_storeVars => BoundedInv'
<1> SUFFICES ASSUME BoundedInv, [Next]_storeVars, Admission
             PROVE  AdmissionInv'
  BY TypeStep DEF BoundedInv
<1>1. TypeOK /\ AdmissionInv
  BY DEF BoundedInv
<1>2. ASSUME NoNewRun, UNCHANGED <<intake, lock, promised>>
      PROVE  AdmissionInv'
  <2>1. /\ IsFiniteSet(Backlog')
        /\ Cardinality(Backlog') <= Cardinality(Backlog)
        /\ Cardinality(Backlog) \in Nat /\ Cardinality(Backlog') \in Nat
        /\ \A c \in Caller :
             /\ Cardinality(CallerBacklog(c)') <= Cardinality(CallerBacklog(c))
             /\ Cardinality(CallerBacklog(c)) \in Nat
             /\ Cardinality(CallerBacklog(c)') \in Nat
    BY <1>1, <1>2, BacklogShrinks
  <2>2. BacklogBounded'
    BY <1>1, <2>1, LimitAssumption DEF AdmissionInv, BacklogBounded
  <2>3. ASSUME NEW a \in Api, intake[a].phase = "admitted"
        PROVE  RoomFor(intake[a].request)'
    <3>1. RoomFor(intake[a].request)
      BY <1>1, <2>3 DEF AdmissionInv
    <3>2. intake[a].request.caller \in Caller /\ intake' = intake
      BY <1>1, <1>2, <2>3, IntakeRequest
    <3> QED
      BY <2>1, <3>1, <3>2, LimitAssumption DEF RoomFor
  <2> QED
    BY <1>1, <1>2, <2>1, <2>2, <2>3 DEF AdmissionInv
<1> QED
  BY <1>1, <1>2, RowSteps, InsertBounded, SessionBounded

\* Concurrent submissions never push the unfinished runs over the limits.
THEOREM BacklogStaysBounded == Spec => []BacklogBounded
<1>1. BoundedInv => BacklogBounded
  BY DEF BoundedInv, AdmissionInv, BacklogBounded
<1> QED
  BY <1>1, BoundedInit, BoundedStep, PTL DEF Spec

-----------------------------------------------------------------------------
(* What is final, and what is announced *)

\* A step on one run's row (r) leaves the rows of all others alone.
OtherRunsUnchanged(r) ==
  \A s \in RunId : s # r =>
    /\ status'[s] = status[s] /\ request'[s] = request[s]
    /\ claim'[s] = claim[s] /\ attempts'[s] = attempts[s]
    /\ events'[s] = events[s] /\ deliveries'[s] = deliveries[s]

LEMMA RunSteps ==
  ASSUME TypeOK, [Next]_storeVars
  PROVE  \/ UNCHANGED <<status, request, claim, attempts, events, deliveries>>
         \/ \E r \in RunId :
              /\ OtherRunsUnchanged(r)
              /\ \/ \E a \in Api : InsertRun(a, r)
                 \/ Claim(r)
                 \/ \E t \in 1..AttemptBound, o \in Outcome : Complete(r, t, o)
                 \/ \E t \in 1..AttemptBound : ScheduleRetry(r, t) \/ ReleaseClaim(r, t)
                 \/ DeleteRun(r)
<1>1. ASSUME NEW a \in Api, NEW r \in RunId, InsertRun(a, r)
      PROVE  OtherRunsUnchanged(r)
  BY <1>1 DEF InsertRun, OtherRunsUnchanged, TypeOK
<1>2. ASSUME NEW r \in RunId, Claim(r)
      PROVE  OtherRunsUnchanged(r)
  BY <1>2 DEF Claim, OtherRunsUnchanged, TypeOK
<1>3. ASSUME NEW r \in RunId, NEW t, NEW o, Complete(r, t, o)
      PROVE  OtherRunsUnchanged(r)
  BY <1>3 DEF Complete, OtherRunsUnchanged, TypeOK
<1>4. ASSUME NEW r \in RunId, NEW t, ScheduleRetry(r, t) \/ ReleaseClaim(r, t)
      PROVE  OtherRunsUnchanged(r)
  BY <1>4 DEF ScheduleRetry, ReleaseClaim, Requeue, OtherRunsUnchanged, TypeOK
<1>5. ASSUME NEW r \in RunId, DeleteRun(r)
      PROVE  OtherRunsUnchanged(r)
  BY <1>5 DEF DeleteRun, OtherRunsUnchanged, TypeOK
<1>6. ASSUME NEW a \in Api, SessionStep(a)
      PROVE  UNCHANGED <<status, request, claim, attempts, events, deliveries>>
  BY <1>6 DEF SessionStep, BeginAccept, BeginUnlimitedAccept, AnswerKnownKey,
              RejectBacklog, Admit, InsertConflict, AbortAccept
<1>7. ASSUME \/ \E r \in RunId : Age(r)
             \/ \E batch \in SUBSET RunId : ClaimOutbox(batch)
             \/ \E r \in RunId, m \in OutboxState : SetMessage(r, m)
             \/ \E e \in Endpoint, f \in {"absent", "enabled"}, t \in {"enabled", "disabled"} :
                  SetEndpoint(e, f, t)
             \/ UNCHANGED storeVars
      PROVE  UNCHANGED <<status, request, claim, attempts, events, deliveries>>
  BY <1>7 DEF Age, ClaimOutbox, SetMessage, SetEndpoint
<1> QED
  BY <1>1, <1>2, <1>3, <1>4, <1>5, <1>6, <1>7, StepCases DEF SessionStep

\* The status each kind of step starts from and leads to.
LEMMA StatusSteps ==
  ASSUME TypeOK, NEW r \in RunId
  PROVE  /\ \A a : InsertRun(a, r) => status[r] = "absent" /\ status'[r] = "queued"
         /\ Claim(r) => status[r] \in Active /\ status'[r] = "running"
         /\ \A t, o : Complete(r, t, o) => status[r] = "running" /\ status'[r] = o
         /\ \A t : ScheduleRetry(r, t) \/ ReleaseClaim(r, t) =>
              status[r] = "running" /\ status'[r] = "queued"
         /\ DeleteRun(r) => status[r] \in Terminal /\ status'[r] = "deleted"
BY DEF InsertRun, Claim, Claimable, Complete, ScheduleRetry, ReleaseClaim, Requeue,
       HoldsClaim, DeleteRun, Deletable, TypeOK

\* A finished run never changes again, and only a finished run is deleted.
THEOREM FinishedStaysFinal == Spec => FinishedIsFinal
<1> DEFINE Final(r) ==
       /\ status[r] \in Terminal =>
            \/ status'[r] = "deleted"
            \/ /\ status'[r] = status[r] /\ request'[r] = request[r]
               /\ attempts'[r] = attempts[r] /\ events'[r] = events[r]
               /\ deliveries'[r] = deliveries[r]
       /\ status[r] \in Active => status'[r] \in Active \cup Terminal
<1>1. TypeOK /\ [Next]_storeVars => [\A r \in RunId : Final(r)]_storeVars
  <2> SUFFICES ASSUME TypeOK, [Next]_storeVars, NEW s \in RunId
               PROVE  Final(s)
    OBVIOUS
  <2>1. CASE UNCHANGED <<status, request, attempts, events, deliveries>>
    BY <2>1
  <2>2. ASSUME NEW r \in RunId, OtherRunsUnchanged(r),
               \/ \E a \in Api : InsertRun(a, r)
               \/ Claim(r)
               \/ \E t \in 1..AttemptBound, o \in Outcome : Complete(r, t, o)
               \/ \E t \in 1..AttemptBound : ScheduleRetry(r, t) \/ ReleaseClaim(r, t)
               \/ DeleteRun(r)
        PROVE  Final(s)
    <3>1. CASE s = r
      BY <2>2, <3>1, StatusSteps
    <3>2. CASE s # r
      BY <2>2, <3>2 DEF OtherRunsUnchanged
    <3> QED
      BY <3>1, <3>2
  <2> QED
    BY <2>1, <2>2, RunSteps
<1> QED
  BY <1>1, TypeInit, TypeStep, PTL DEF Spec, FinishedIsFinal

NotifyInv == TypeOK /\ DeliveriesFollowOutcome

LEMMA NotifyStep == NotifyInv /\ [Next]_storeVars => NotifyInv'
<1> SUFFICES ASSUME NotifyInv, [Next]_storeVars, NEW s \in RunId,
                    NEW d \in deliveries'[s]
             PROVE  /\ status'[s] \in Terminal
                    /\ EndpointOwner[d] = request'[s].caller
                    /\ endpoint'[d] # "absent"
  BY TypeStep DEF NotifyInv, DeliveriesFollowOutcome
<1>1. TypeOK /\ TypeOK' /\ DeliveriesFollowOutcome /\ d \in Endpoint
  BY TypeStep DEF NotifyInv, TypeOK
<1>2. endpoint[d] # "absent" => endpoint'[d] # "absent"
  <2>1. CASE endpoint' = endpoint
    BY <2>1
  <2>2. ASSUME NEW e \in Endpoint, NEW f, NEW t \in {"enabled", "disabled"},
               SetEndpoint(e, f, t)
        PROVE  endpoint[d] # "absent" => endpoint'[d] # "absent"
    BY <1>1, <2>2 DEF SetEndpoint, TypeOK
  <2>3. \/ endpoint' = endpoint
        \/ \E e \in Endpoint, f \in {"absent", "enabled"}, t \in {"enabled", "disabled"} : SetEndpoint(e, f, t)
    <3>1. ASSUME NEW r \in RunId, NEW t, ScheduleRetry(r, t) \/ ReleaseClaim(r, t)
          PROVE  endpoint' = endpoint
      BY <3>1 DEF ScheduleRetry, ReleaseClaim, Requeue
    <3>2. ASSUME NEW a \in Api, SessionStep(a)
          PROVE  endpoint' = endpoint
      BY <3>2 DEF SessionStep, BeginAccept, BeginUnlimitedAccept, AnswerKnownKey,
                  RejectBacklog, Admit, InsertConflict, AbortAccept
    <3>3. ASSUME NEW r \in RunId,
                 \/ \E a \in Api : InsertRun(a, r)
                 \/ Claim(r) \/ DeleteRun(r) \/ Age(r)
                 \/ \E t \in 1..AttemptBound, o \in Outcome : Complete(r, t, o)
                 \/ \E m \in OutboxState : SetMessage(r, m)
          PROVE  endpoint' = endpoint
      BY <3>3 DEF InsertRun, Claim, DeleteRun, Age, Complete, SetMessage
    <3>4. ASSUME NEW batch \in SUBSET RunId, ClaimOutbox(batch)
          PROVE  endpoint' = endpoint
      BY <3>4 DEF ClaimOutbox
    <3> QED
      BY <3>1, <3>2, <3>3, <3>4, StepCases DEF SessionStep
  <2> QED
    BY <2>1, <2>2, <2>3
<1>3. CASE UNCHANGED <<status, request, attempts, events, deliveries>>
  BY <1>1, <1>2, <1>3 DEF DeliveriesFollowOutcome
<1>4. ASSUME NEW r \in RunId, OtherRunsUnchanged(r), s # r
      PROVE  /\ status'[s] \in Terminal
             /\ EndpointOwner[d] = request'[s].caller
             /\ endpoint'[d] # "absent"
  BY <1>1, <1>2, <1>4 DEF OtherRunsUnchanged, DeliveriesFollowOutcome
<1>5. status[s] \notin Terminal => deliveries[s] = {}
  BY <1>1 DEF DeliveriesFollowOutcome
<1>6. ASSUME NEW t, NEW o \in Outcome, Complete(s, t, o)
      PROVE  /\ status'[s] \in Terminal
             /\ EndpointOwner[d] = request'[s].caller
             /\ endpoint'[d] # "absent"
  BY <1>1, <1>6 DEF Complete, Subscribers, TypeOK
<1>7. (\E a \in Api : InsertRun(a, s)) \/ Claim(s)
        \/ (\E t \in 1..AttemptBound : ScheduleRetry(s, t) \/ ReleaseClaim(s, t))
      => deliveries'[s] = deliveries[s] /\ status[s] \notin Terminal
  BY <1>1, StatusSteps DEF InsertRun, Claim, ScheduleRetry, ReleaseClaim, Requeue
<1>8. DeleteRun(s) => deliveries'[s] = {}
  BY <1>1 DEF DeleteRun, TypeOK
<1> QED
  BY <1>1, <1>3, <1>4, <1>5, <1>6, <1>7, <1>8, RunSteps

\* Webhook deliveries exist only for finished runs, for endpoints of the run's
\* own caller.
THEOREM DeliveriesCorrect == Spec => []DeliveriesFollowOutcome
<1>1. Init => NotifyInv
  BY TypeInit DEF NotifyInv, DeliveriesFollowOutcome, Init
<1>2. NotifyInv => DeliveriesFollowOutcome
  BY DEF NotifyInv
<1> QED
  BY <1>1, <1>2, NotifyStep, PTL DEF Spec

-----------------------------------------------------------------------------
(* The store implements the lifecycle *)

\* What the refinement mapping substitutes for notice and owner.
noticeOf == [r \in RunId |-> {e.type : e \in events[r]} \cap Outcome]
ownerOf == [ck \in Caller \X Key |->
              {r \in RunId : /\ Present(r)
                             /\ request[r].caller = ck[1]
                             /\ request[r].key = ck[2]}]

NoticeByStatus ==
  noticeOf = [r \in RunId |-> IF status[r] \in Terminal THEN {status[r]} ELSE {}]

\* The event log announces exactly the outcome the row shows.
LEMMA NoticeFollowsStatus == HistoryInv => NoticeByStatus
<1> SUFFICES ASSUME HistoryInv, NEW r \in RunId
             PROVE  {e.type : e \in events[r]} \cap Outcome =
                      IF status[r] \in Terminal THEN {status[r]} ELSE {}
  BY DEF NoticeByStatus, noticeOf
<1>1. TypeOK /\ RunHistory(r)
  BY DEF HistoryInv
<1>2. CASE ~Present(r)
  BY <1>1, <1>2 DEF RunHistory, UnusedIsBlank, Present
<1>3. CASE Present(r)
  <2> DEFINE queued == {QueuedEvent(0)} \cup {QueuedEvent(n) : n \in RetriedAttempts(r)}
  <2>1. \A e \in queued : e.type = "queued"
    BY DEF QueuedEvent
  <2>2. events[r] = queued \cup (IF status[r] \in Terminal THEN {FinalEvent(status[r])} ELSE {})
    BY <1>1, <1>3 DEF RunHistory
  <2>3. FinalEvent(status[r]).type = status[r]
    BY DEF FinalEvent
  <2> HIDE DEF queued
  <2> QED
    BY <2>1, <2>2, <2>3
<1> QED
  BY <1>2, <1>3

LifecycleInv == HistoryInv /\ AcceptInv

LEMMA NoticeThroughStep ==
  LifecycleInv /\ LifecycleInv' => TypeOK /\ NoticeByStatus /\ NoticeByStatus'
<1>1. LifecycleInv => TypeOK /\ NoticeByStatus
  BY NoticeFollowsStatus DEF LifecycleInv, AcceptInv
<1> QED
  BY <1>1, PTL

LEMMA LifecycleInvStep == LifecycleInv /\ [Next]_storeVars => LifecycleInv'
BY HistoryStep, AcceptStep DEF LifecycleInv

\* A step that keeps every row's presence and submission keeps the owners.
LEMMA OwnerFrame ==
  ASSUME \A r \in RunId : Present(r)' = Present(r) /\ request'[r] = request[r]
  PROVE  ownerOf' = ownerOf
BY DEF ownerOf

LEMMA SubmitStep ==
  ASSUME LifecycleInv, LifecycleInv', NEW a \in Api, NEW r \in RunId, InsertRun(a, r)
  PROVE  \E s \in Caller \X Key : Lifecycle!Submit(s, r)
<1> DEFINE q == intake[a].request
           s == <<q.caller, q.key>>
<1>1. TypeOK /\ NoticeByStatus /\ NoticeByStatus'
  BY NoticeThroughStep
<1>2. /\ status[r] = "absent" /\ RunOf(q) = {}
      /\ status'[r] = "queued" /\ request'[r] = q
      /\ \A u \in RunId : u # r => status'[u] = status[u] /\ request'[u] = request[u]
  BY <1>1, InsertRows
<1>3. s \in Caller \X Key /\ status' = [status EXCEPT ![r] = "queued"]
  BY <1>1, IntakeRequest DEF InsertRun
<1>4. noticeOf' = noticeOf
  BY <1>1, <1>2 DEF NoticeByStatus
<1>5. ownerOf[s] = {}
  BY <1>2, <1>3 DEF ownerOf, RunOf
<1>6. ownerOf' = [ownerOf EXCEPT ![s] = {r}]
  <2> SUFFICES ASSUME NEW ck \in Caller \X Key
               PROVE  ownerOf'[ck] = IF ck = s THEN {r} ELSE ownerOf[ck]
    BY <1>3 DEF ownerOf
  <2>1. ownerOf'[ck] = {u \in RunId : /\ status'[u] \in Active \cup Terminal
                                      /\ request'[u].caller = ck[1]
                                      /\ request'[u].key = ck[2]}
    BY DEF ownerOf, Present
  <2>2. ownerOf[ck] = {u \in RunId : /\ status[u] \in Active \cup Terminal
                                     /\ request[u].caller = ck[1]
                                     /\ request[u].key = ck[2]}
    BY DEF ownerOf, Present
  <2>3. ck = s <=> q.caller = ck[1] /\ q.key = ck[2]
    BY <1>3
  <2>4. r \in ownerOf'[ck] <=> ck = s
    BY <1>2, <2>1, <2>3
  <2>5. \A u \in RunId : u # r => (u \in ownerOf'[ck] <=> u \in ownerOf[ck])
    BY <1>2, <2>1, <2>2
  <2>6. r \notin ownerOf[ck]
    BY <1>2, <2>2
  <2>7. ownerOf'[ck] \subseteq RunId /\ ownerOf[ck] \subseteq RunId
    BY <2>1, <2>2
  <2>8. CASE ck = s
    BY <1>5, <2>4, <2>5, <2>7, <2>8
  <2>9. CASE ck # s
    BY <2>4, <2>5, <2>6, <2>7, <2>9
  <2> QED
    BY <2>8, <2>9
<1> QED
  BY <1>2, <1>3, <1>4, <1>5, <1>6
     DEF Lifecycle!Submit, Lifecycle!Move, noticeOf, ownerOf

LEMMA StartStep ==
  ASSUME LifecycleInv, LifecycleInv', NEW r \in RunId, Claim(r)
  PROVE  Lifecycle!Start(r) \/ UNCHANGED Lifecycle!vars
<1>1. TypeOK /\ NoticeByStatus /\ NoticeByStatus'
  BY NoticeThroughStep
<1>2. /\ status[r] \in Active /\ status' = [status EXCEPT ![r] = "running"]
      /\ request' = request
  BY <1>1 DEF Claim, Claimable
<1>3. noticeOf' = noticeOf
  BY <1>1, <1>2 DEF NoticeByStatus, TypeOK
<1>4. ownerOf' = ownerOf
  BY <1>1, <1>2, OwnerFrame DEF Present, TypeOK
<1>5. CASE status[r] = "queued"
  BY <1>2, <1>3, <1>4, <1>5 DEF Lifecycle!Start, Lifecycle!Move, noticeOf, ownerOf
<1>6. CASE status[r] = "running"
  <2>1. status' = status
    BY <1>1, <1>2, <1>6 DEF TypeOK
  <2> QED
    BY <1>3, <1>4, <2>1 DEF Lifecycle!vars, noticeOf, ownerOf
<1> QED
  BY <1>2, <1>5, <1>6

LEMMA FinishStep ==
  ASSUME LifecycleInv, LifecycleInv', NEW r \in RunId, NEW t, NEW o \in Outcome,
         Complete(r, t, o)
  PROVE  Lifecycle!Finish(r, o)
<1>1. TypeOK /\ NoticeByStatus /\ NoticeByStatus'
  BY NoticeThroughStep
<1>2. /\ status[r] = "running" /\ status' = [status EXCEPT ![r] = o]
      /\ request' = request
  BY DEF Complete, HoldsClaim
<1>3. noticeOf' = [noticeOf EXCEPT ![r] = {o}]
  BY <1>1, <1>2 DEF NoticeByStatus, TypeOK
<1>4. ownerOf' = ownerOf
  BY <1>1, <1>2, OwnerFrame DEF Present, TypeOK
<1> QED
  BY <1>2, <1>3, <1>4 DEF Lifecycle!Finish, Lifecycle!Move, noticeOf, ownerOf

LEMMA RequeueStep ==
  ASSUME LifecycleInv, LifecycleInv', NEW r \in RunId, NEW t,
         ScheduleRetry(r, t) \/ ReleaseClaim(r, t)
  PROVE  Lifecycle!Requeue(r)
<1>1. TypeOK /\ NoticeByStatus /\ NoticeByStatus'
  BY NoticeThroughStep
<1>2. /\ status[r] = "running" /\ status' = [status EXCEPT ![r] = "queued"]
      /\ request' = request
  BY DEF ScheduleRetry, ReleaseClaim, Requeue, HoldsClaim
<1>3. noticeOf' = noticeOf
  BY <1>1, <1>2 DEF NoticeByStatus, TypeOK
<1>4. ownerOf' = ownerOf
  BY <1>1, <1>2, OwnerFrame DEF Present, TypeOK
<1> QED
  BY <1>2, <1>3, <1>4 DEF Lifecycle!Requeue, Lifecycle!Move, noticeOf, ownerOf

LEMMA ForgetStep ==
  ASSUME LifecycleInv, LifecycleInv', NEW r \in RunId, DeleteRun(r)
  PROVE  Lifecycle!Forget(r)
<1>1. TypeOK /\ NoticeByStatus /\ NoticeByStatus'
  BY NoticeThroughStep
<1>2. /\ status[r] \in Terminal /\ status' = [status EXCEPT ![r] = "deleted"]
      /\ request' = [request EXCEPT ![r] = NoRequest]
  BY DEF DeleteRun, Deletable
<1>3. noticeOf' = [noticeOf EXCEPT ![r] = {}]
  BY <1>1, <1>2 DEF NoticeByStatus, TypeOK
<1>4. ownerOf' = [s \in Caller \X Key |-> ownerOf[s] \ {r}]
  <2> SUFFICES ASSUME NEW ck \in Caller \X Key
               PROVE  ownerOf'[ck] = ownerOf[ck] \ {r}
    BY DEF ownerOf
  <2>1. ownerOf'[ck] = {u \in RunId : /\ status'[u] \in Active \cup Terminal
                                      /\ request'[u].caller = ck[1]
                                      /\ request'[u].key = ck[2]}
    BY DEF ownerOf, Present
  <2>2. ownerOf[ck] = {u \in RunId : /\ status[u] \in Active \cup Terminal
                                     /\ request[u].caller = ck[1]
                                     /\ request[u].key = ck[2]}
    BY DEF ownerOf, Present
  <2>3. \A u \in RunId : /\ u # r => status'[u] = status[u] /\ request'[u] = request[u]
                         /\ status'[r] = "deleted"
    BY <1>1, <1>2 DEF TypeOK
  <2> QED
    BY <2>1, <2>2, <2>3
<1> QED
  BY <1>2, <1>3, <1>4 DEF Lifecycle!Forget, Lifecycle!Move, Lifecycle!Outcomes,
                          noticeOf, ownerOf

LEMMA LifecycleStep ==
  LifecycleInv /\ LifecycleInv' /\ [Next]_storeVars => [Lifecycle!Next]_(Lifecycle!vars)
<1> SUFFICES ASSUME LifecycleInv, LifecycleInv', [Next]_storeVars
             PROVE  Lifecycle!Next \/ UNCHANGED Lifecycle!vars
  OBVIOUS
<1>1. TypeOK
  BY DEF LifecycleInv, AcceptInv
<1>2. CASE UNCHANGED <<status, request, attempts, events, deliveries>>
  <2>1. noticeOf' = noticeOf /\ ownerOf' = ownerOf
    BY <1>2 DEF noticeOf, ownerOf, Present
  <2> QED
    BY <1>2, <2>1 DEF Lifecycle!vars, noticeOf, ownerOf
<1>3. ASSUME NEW r \in RunId, NEW a \in Api, InsertRun(a, r)
      PROVE  Lifecycle!Next
  BY <1>3, SubmitStep DEF Lifecycle!Next
<1>4. ASSUME NEW r \in RunId, Claim(r)
      PROVE  Lifecycle!Next \/ UNCHANGED Lifecycle!vars
  BY <1>4, StartStep DEF Lifecycle!Next
<1>5. ASSUME NEW r \in RunId, NEW t, NEW o \in Outcome, Complete(r, t, o)
      PROVE  Lifecycle!Next
  BY <1>5, FinishStep DEF Lifecycle!Next, Lifecycle!Outcomes
<1>6. ASSUME NEW r \in RunId, NEW t, ScheduleRetry(r, t) \/ ReleaseClaim(r, t)
      PROVE  Lifecycle!Next
  BY <1>6, RequeueStep DEF Lifecycle!Next
<1>7. ASSUME NEW r \in RunId, DeleteRun(r)
      PROVE  Lifecycle!Next
  BY <1>7, ForgetStep DEF Lifecycle!Next
<1> QED
  BY <1>1, <1>2, <1>3, <1>4, <1>5, <1>6, <1>7, RunSteps

\* Every behaviour of the store is one the lifecycle allows.
THEOREM StoreImplementsLifecycle == Spec => ImplementsLifecycle
<1>1. Init => LifecycleInv
  BY HistoryInit, AcceptInit DEF LifecycleInv
<1>2. Init => Lifecycle!Init
  <2> SUFFICES ASSUME Init PROVE Lifecycle!Init
    OBVIOUS
  <2>1. status = [r \in RunId |-> "absent"] /\ events = [r \in RunId |-> {}]
    BY DEF Init
  <2>2. noticeOf = [r \in RunId |-> {}]
    BY <2>1 DEF noticeOf
  <2>3. ownerOf = [s \in Caller \X Key |-> {}]
    BY <2>1 DEF ownerOf, Present
  <2> QED
    BY <2>1, <2>2, <2>3 DEF Lifecycle!Init, noticeOf, ownerOf
<1> QED
  BY <1>1, <1>2, LifecycleInvStep, LifecycleStep, PTL
     DEF Spec, ImplementsLifecycle, Lifecycle!Spec

-----------------------------------------------------------------------------
(* The inductive invariant *)

\* The bounds within which the store's own specification chooses its tokens.
TokensBounded ==
  \A r \in RunId :
    /\ Len(attempts[r]) <= AttemptBound
    /\ outbox[r].state \in {"claimed", "overdue"} => outbox[r].token \in 1..PublishBound

\* A participant in the middle of something knows what it works on.
QueueTypes ==
  job \in [RunId -> Job] /\ enqueued \in [RunId -> BOOLEAN] /\ faults \in 0..FaultBound
WorkerTypes ==
  /\ worker \in [Worker -> WorkerState]
  /\ closing \in [Worker -> {"no", "draining", "released", "cancelled"}]
  /\ \A w \in Worker : worker[w].phase # "idle" => worker[w].run \in RunId
RelayTypes ==
  /\ relay \in [Dispatcher -> RelayState]
  /\ \A d \in Dispatcher :
       relay[d].phase \in {"enqueuing", "marking"} => relay[d].at \in Claimed
ReconTypes ==
  /\ recon \in [Dispatcher -> ReconState]
  /\ \A d \in Dispatcher :
       recon[d].phase \in {"enqueuing", "acknowledging"} => recon[d].at \in Candidate

\* A worker's claim is still the run's, or its attempt is abandoned, or the
\* run deleted.
Executes(w, r, t) == worker[w].phase = "running" /\ worker[w].run = r /\ worker[w].token = t
Settleable(r, t) ==
  \/ status[r] = "deleted"
  \/ status[r] # "absent" /\ claim[r] = t
  \/ t <= Len(attempts[r]) /\ attempts[r][t] = "abandoned"
ClaimsAccounted ==
  \A w \in Worker : worker[w].phase = "running" =>
    worker[w].token > 0 /\ Settleable(worker[w].run, worker[w].token)

\* No two workers execute the same attempt.
AttemptsApart ==
  \A v, w \in Worker :
    /\ v # w /\ worker[v].phase = "running" /\ worker[w].phase = "running"
    /\ worker[v].run = worker[w].run
    => worker[v].token # worker[w].token

\* Whoever is about to confirm a message, or takes a job for runnable, does so
\* because the job was there.
JobsKnown ==
  /\ \A r \in RunId : job[r].state # "missing" => enqueued[r]
  /\ \A d \in Dispatcher : relay[d].phase = "marking" => enqueued[relay[d].at.run]
  /\ \A d \in Dispatcher : recon[d].phase = "acknowledging" => enqueued[recon[d].at.run]
  /\ \A d \in Dispatcher : \A i \in recon[d].items : i.queue = "runnable" => enqueued[i.run]

\* The retried attempts are on record in the events.
PolicyOnRecord ==
  \A r \in RunId : \A n \in Nat \ {0} : QueuedEvent(n) \in events[r] => n < MaximumAttempts

SystemInv ==
  /\ HistoryInv /\ TokensBounded
  /\ QueueTypes /\ WorkerTypes /\ RelayTypes /\ ReconTypes
  /\ ClaimsAccounted /\ AttemptsApart
  /\ JobsKnown /\ PublishedMeansEnqueued
  /\ PolicyOnRecord

-----------------------------------------------------------------------------
(* The store's part of every step is a step of the store *)

LEMMA ClaimWithinBound ==
  ASSUME HistoryInv, TokensBounded, NEW r \in RunId, NEW t, HoldsClaim(r, t)
  PROVE  t \in 1..AttemptBound /\ t = claim[r] /\ t = Len(attempts[r])
<1>1. RunHistory(r) /\ attempts[r] \in Seq(AttemptStatus)
  BY DEF HistoryInv, TypeOK
<1>2. AttemptIsCurrent(r) /\ t = claim[r]
  BY <1>1 DEF HoldsClaim, RunHistory
<1>3. Len(attempts[r]) \in Nat /\ Len(attempts[r]) <= AttemptBound
  BY <1>1, LenProperties DEF TokensBounded
<1> QED
  BY <1>2, <1>3, BoundAssumption DEF AttemptIsCurrent

\* Which of its operations a participant's step performs.
LEMMA WorkerStorePart ==
  ASSUME SystemInv, NEW w \in Worker, WorkerStep(w)
  PROVE  \/ UNCHANGED storeVars
         \/ /\ worker[w].phase = "taken" /\ worker[w].run \in RunId
            /\ Claim(worker[w].run)
            /\ worker' = [worker EXCEPT ![w].phase = "running",
                                        ![w].token = claim'[worker[w].run]]
         \/ /\ worker[w].phase = "running" /\ worker[w].run \in RunId
            /\ worker[w].token \in 1..AttemptBound
            /\ \/ \E o \in Outcome : Complete(worker[w].run, worker[w].token, o)
               \/ /\ ScheduleRetry(worker[w].run, worker[w].token)
                  /\ RetryAllowed(worker[w].token)
            /\ \E phase \in {"finishing", "failing", "delaying"} : SetWorker(w, phase)
         \/ /\ worker[w].phase = "running" /\ worker[w].run \in RunId
            /\ worker[w].token \in 1..AttemptBound
            /\ ReleaseClaim(worker[w].run, worker[w].token)
            /\ \/ UNCHANGED worker
               \/ \E phase \in {"finishing", "failing"} : SetWorker(w, phase)
<1>0. worker[w].phase # "idle" => worker[w].run \in RunId
  BY DEF SystemInv, WorkerTypes
<1>1. CASE \E r \in RunId : TakeJob(w, r)
  BY <1>1 DEF TakeJob
<1>2. CASE ClaimRun(w)
  BY <1>0, <1>2 DEF ClaimRun
<1>3. CASE Settle(w)
  <2>1. worker[w].phase = "running" /\ worker[w].run \in RunId
    BY <1>0, <1>3 DEF Settle, SettleSuccess, SettleFailure, SettleRetry, SettleAborted
  <2>2. HoldsClaim(worker[w].run, worker[w].token) => worker[w].token \in 1..AttemptBound
    BY <2>1, ClaimWithinBound DEF SystemInv
  <2>3. CASE SettleSuccess(w)
    BY <2>1, <2>2, <2>3 DEF SettleSuccess, Fenced, Then
  <2>4. ASSUME NEW b \in BOOLEAN, SettleFailure(w, b)
        PROVE  \/ UNCHANGED storeVars
               \/ /\ worker[w].token \in 1..AttemptBound
                  /\ Complete(worker[w].run, worker[w].token, "failed")
                  /\ \E phase \in {"finishing", "failing"} : SetWorker(w, phase)
    BY <2>1, <2>2, <2>4 DEF SettleFailure, Fenced, Then
  <2>5. CASE SettleRetry(w)
    BY <2>1, <2>2, <2>5 DEF SettleRetry, Fenced, Then
  <2>6. CASE SettleAborted(w)
    BY <2>1, <2>2, <2>6 DEF SettleAborted, Fenced, Then
  <2> QED
    BY <1>3, <2>1, <2>3, <2>4, <2>5, <2>6 DEF Settle
<1>4. CASE ReleaseActive(w)
  <2>1. CASE worker[w].phase = "running"
    <3>1. HoldsClaim(worker[w].run, worker[w].token) => worker[w].token \in 1..AttemptBound
      BY <1>0, <2>1, ClaimWithinBound DEF SystemInv
    <3> QED
      BY <1>0, <1>4, <2>1, <3>1 DEF ReleaseActive, Fenced
  <2>2. CASE worker[w].phase # "running"
    BY <1>4, <2>2 DEF ReleaseActive
  <2> QED
    BY <2>1, <2>2
<1>5. CASE WorkerError(w) \/ FinishJob(w) \/ Crash(w) \/ StartShutdown(w)
           \/ CancelJobs(w) \/ Exit(w)
  BY <1>5 DEF WorkerError, FinishJob, Crash, StartShutdown, CancelJobs, Exit, Vanish
<1> QED
  BY <1>1, <1>2, <1>3, <1>4, <1>5 DEF WorkerStep

LEMMA DispatcherStorePart ==
  ASSUME SystemInv, NEW d \in Dispatcher,
         RelayStep(d) \/ ReconcileStep(d) \/ DispatcherStops(d)
  PROVE  \/ UNCHANGED storeVars
         \/ \E batch \in SUBSET RunId : ClaimOutbox(batch)
         \/ /\ relay[d].phase \in {"enqueuing", "marking"} /\ relay[d].at \in Claimed
            /\ relay[d].at.token \in 1..PublishBound
            /\ \/ ReleaseMessage(relay[d].at.run, relay[d].at.token)
               \/ /\ relay[d].phase = "marking"
                  /\ MarkPublished(relay[d].at.run, relay[d].at.token)
         \/ /\ recon[d].phase = "acknowledging" /\ recon[d].at \in Candidate
            /\ AcknowledgeOutbox(recon[d].at.run)
<1>0. /\ relay[d].phase \in {"enqueuing", "marking"} =>
           relay[d].at \in Claimed /\ relay[d].at.run \in RunId
      /\ recon[d].phase = "acknowledging" => recon[d].at \in Candidate
  BY DEF SystemInv, RelayTypes, ReconTypes, Claimed
<1>1. ASSUME relay[d].phase \in {"enqueuing", "marking"},
             OwnsMessage(relay[d].at.run, relay[d].at.token)
      PROVE  relay[d].at.token \in 1..PublishBound
  BY <1>0, <1>1 DEF SystemInv, TokensBounded, OwnsMessage
<1>2. CASE \E batch \in SUBSET RunId : RelayClaim(d, batch)
  BY <1>2 DEF RelayClaim
<1>3. CASE RelayMark(d)
  BY <1>0, <1>1, <1>3 DEF RelayMark, MarkPublished
<1>4. CASE RelayFails(d)
  BY <1>0, <1>1, <1>4 DEF RelayFails, ReleaseMessage
<1>5. CASE RelayEnqueue(d) \/ \E m \in relay[d].batch : RelayLook(d, m)
  BY <1>5 DEF RelayEnqueue, RelayLook
<1>6. CASE AcknowledgeItem(d)
  BY <1>0, <1>6 DEF AcknowledgeItem
<1>7. CASE \/ \E mode \in RecoveryModes : SelectCandidates(d, mode)
           \/ InspectJobs(d)
           \/ \E i \in recon[d].items : DeferItem(d, i) \/ RepairItem(d, i)
           \/ EnqueueItem(d) \/ SkipItem(d) \/ DispatcherStops(d)
  BY <1>7 DEF SelectCandidates, InspectJobs, DeferItem, RepairItem, EnqueueItem,
              SkipItem, DispatcherStops
<1> QED
  BY <1>2, <1>3, <1>4, <1>5, <1>6, <1>7 DEF RelayStep, ReconcileStep

LEMMA StorePart == SystemInv /\ [SystemNext]_systemVars => [Next]_storeVars
<1> SUFFICES ASSUME SystemInv, SystemNext PROVE [Next]_storeVars
  BY DEF systemVars
<1>1. CASE StoreStep
  BY <1>1 DEF StoreStep, Next, Environment, Publish
<1>2. CASE QueueStep
  BY <1>2 DEF QueueStep, PromoteDelayed, StallCheck, RemoveFinishedJob, LoseLock,
              FlushQueue, QueueOnly
<1>3. ASSUME NEW w \in Worker, WorkerStep(w) PROVE [Next]_storeVars
  BY <1>3, WorkerStorePart DEF Next, Execute
<1>4. ASSUME NEW d \in Dispatcher, RelayStep(d) \/ ReconcileStep(d) \/ DispatcherStops(d)
      PROVE  [Next]_storeVars
  BY <1>4, DispatcherStorePart DEF Next, Publish, Environment, Claimed, Candidate
<1> QED
  BY <1>1, <1>2, <1>3, <1>4 DEF SystemNext

-----------------------------------------------------------------------------
(* What the store's part of a step keeps *)

LEMMA TokensStep ==
  ASSUME HistoryInv, TokensBounded, [Next]_storeVars
  PROVE  TokensBounded'
<1> SUFFICES ASSUME NEW s \in RunId
             PROVE  /\ Len(attempts'[s]) <= AttemptBound
                    /\ outbox'[s].state \in {"claimed", "overdue"} =>
                         outbox'[s].token \in 1..PublishBound
  BY DEF TokensBounded
<1>1. /\ Len(attempts[s]) <= AttemptBound /\ Len(attempts[s]) \in Nat
      /\ outbox[s].state \in {"claimed", "overdue"} => outbox[s].token \in 1..PublishBound
      /\ outbox[s].token \in Nat /\ outbox[s] \in Message /\ TypeOK
      /\ attempts[s] \in Seq(AttemptStatus)
  BY LenProperties DEF TokensBounded, HistoryInv, TypeOK, Message
<1>2. Len(attempts'[s]) <= AttemptBound
  <2>1. CASE attempts'[s] = attempts[s]
    BY <1>1, <2>1
  <2>2. ASSUME NEW r \in RunId, Claim(r) PROVE Len(attempts'[s]) <= AttemptBound
    <3>1. CASE r = s
      <4> DEFINE ended == IF status[s] = "running" THEN EndAttempt(s, "abandoned")
                                                   ELSE attempts[s]
      <4>1. ended \in Seq(AttemptStatus) /\ Len(ended) = Len(attempts[s])
        BY <1>1, <2>2, <3>1, EndAttemptProperties DEF Claim, AttemptStatus
      <4>2. attempts'[s] = Append(ended, "running")
        BY <1>1, <2>2, <3>1 DEF Claim, TypeOK
      <4>3. Len(attempts'[s]) = Len(attempts[s]) + 1
        BY <4>1, <4>2, AppendProperties DEF AttemptStatus
      <4>4. Len(attempts[s]) < AttemptBound
        BY <2>2, <3>1 DEF Claim
      <4> QED
        BY <1>1, <4>3, <4>4, BoundAssumption
    <3>2. CASE r # s
      BY <1>1, <2>1, <2>2, <3>2 DEF Claim, TypeOK
    <3> QED
      BY <3>1, <3>2
  <2>3. ASSUME NEW r \in RunId, NEW o \in AttemptStatus, AttemptIsCurrent(r),
               attempts' = [attempts EXCEPT ![r] = EndAttempt(r, o)]
        PROVE  Len(attempts'[s]) <= AttemptBound
    <3>1. CASE r = s
      BY <1>1, <2>3, <3>1, EndAttemptProperties DEF TypeOK
    <3>2. CASE r # s
      BY <1>1, <2>1, <2>3, <3>2 DEF TypeOK
    <3> QED
      BY <3>1, <3>2
  <2>4. ASSUME NEW r \in RunId, DeleteRun(r) PROVE Len(attempts'[s]) <= AttemptBound
    <3>1. attempts'[s] = <<>> \/ attempts'[s] = attempts[s]
      BY <1>1, <2>4 DEF DeleteRun, TypeOK
    <3> QED
      BY <1>1, <3>1, EmptySeq, BoundAssumption
  <2>5. ASSUME NEW r \in RunId, NEW t, NEW o \in Outcome, Complete(r, t, o)
        PROVE  Len(attempts'[s]) <= AttemptBound
    BY <2>3, <2>5 DEF Complete, AttemptStatus
  <2>6. ASSUME NEW r \in RunId, NEW t, ScheduleRetry(r, t) \/ ReleaseClaim(r, t)
        PROVE  Len(attempts'[s]) <= AttemptBound
    BY <2>3, <2>6 DEF ScheduleRetry, ReleaseClaim, Requeue, AttemptStatus
  <2>7. ASSUME NEW a \in Api, NEW r \in RunId, InsertRun(a, r)
        PROVE  attempts' = attempts
    BY <2>7 DEF InsertRun
  <2> QED
    BY <1>1, <2>1, <2>2, <2>4, <2>5, <2>6, <2>7, RunSteps
<1>3. outbox'[s].state \in {"claimed", "overdue"} => outbox'[s].token \in 1..PublishBound
  <2>1. CASE outbox'[s] = outbox[s]
    BY <1>1, <2>1
  <2>2. ASSUME NEW batch \in SUBSET RunId, ClaimOutbox(batch)
        PROVE  outbox'[s].state \in {"claimed", "overdue"} =>
                 outbox'[s].token \in 1..PublishBound
    <3>1. CASE s \in batch
      <4>1. outbox'[s].token = outbox[s].token + 1 /\ outbox[s].token < PublishBound
        BY <2>2, <3>1 DEF ClaimOutbox, OutboxClaimable
      <4> QED
        BY <1>1, <4>1, BoundAssumption
    <3>2. CASE s \notin batch
      BY <1>1, <2>2, <3>2 DEF ClaimOutbox
    <3> QED
      BY <3>1, <3>2
  <2>3. ASSUME NEW r \in RunId,
               \/ \E n \in 1..PublishBound : MarkPublished(r, n) \/ ReleaseMessage(r, n)
               \/ AcknowledgeOutbox(r) \/ OutboxLeaseExpires(r)
        PROVE  outbox'[s].state \in {"claimed", "overdue"} =>
                 outbox'[s].token \in 1..PublishBound
    <3>1. CASE r # s
      BY <1>1, <2>1, <2>3, <3>1 DEF MarkPublished, ReleaseMessage, AcknowledgeOutbox,
              OutboxLeaseExpires, SetMessage, TypeOK
    <3>2. CASE r = s
      <4>1. PICK m \in OutboxState : SetMessage(s, m)
        BY <2>3, <3>2 DEF MarkPublished, ReleaseMessage, AcknowledgeOutbox,
              OutboxLeaseExpires, OutboxState
      <4>2. outbox'[s].state = m /\ outbox'[s].token = outbox[s].token
        BY <1>1, <4>1 DEF SetMessage, TypeOK, Message
      <4>3. m \in {"claimed", "overdue"} => outbox[s].state \in {"claimed", "overdue"}
        BY <1>1, <2>3, <3>2, <4>2 DEF MarkPublished, ReleaseMessage, AcknowledgeOutbox,
              OutboxLeaseExpires, SetMessage, TypeOK, Message
      <4> QED
        BY <1>1, <4>2, <4>3
    <3> QED
      BY <3>1, <3>2
  <2>4. ASSUME \/ \E a \in Api, r \in RunId : InsertRun(a, r)
               \/ \E r \in RunId : DeleteRun(r)
        PROVE  outbox'[s] = outbox[s] \/ outbox'[s].state \in {"pending", "none"}
    <3>1. PICK r \in RunId : DeleteRun(r) \/ \E a \in Api : InsertRun(a, r)
      BY <2>4
    <3>2. PICK m \in {[state |-> "pending", token |-> 0], NoMessage} :
            outbox' = [outbox EXCEPT ![r] = m]
      BY <3>1 DEF InsertRun, DeleteRun
    <3>3. outbox'[s] = IF s = r THEN m ELSE outbox[s]
      BY <1>1, <3>2 DEF TypeOK
    <3> QED
      BY <3>3 DEF NoMessage
  <2>5. ASSUME \E r \in RunId : Execute(r)
        PROVE  outbox' = outbox
    BY <2>5 DEF Execute, Claim, Complete, ScheduleRetry, ReleaseClaim, Requeue
  <2>6. ASSUME NEW a \in Api, Accept(a), ~\E r \in RunId : InsertRun(a, r)
        PROVE  outbox' = outbox
    BY <2>6 DEF Accept, BeginAccept, BeginUnlimitedAccept, AnswerKnownKey,
                RejectBacklog, Admit, InsertConflict, AbortAccept
  <2>7. ASSUME \/ \E r \in RunId : Age(r)
               \/ \E e \in Endpoint : ProvisionEndpoint(e) \/ DisableEndpoint(e)
               \/ UNCHANGED storeVars
        PROVE  outbox' = outbox
    BY <2>7 DEF Age, ProvisionEndpoint, DisableEndpoint, SetEndpoint
  <2> QED
    BY <2>1, <2>2, <2>3, <2>4, <2>5, <2>6, <2>7 DEF Next, Publish, Environment
<1> QED
  BY <1>2, <1>3

\* Only a retry adds a queued event with a number.
LEMMA PolicyStep ==
  ASSUME HistoryInv, PolicyOnRecord, [Next]_storeVars,
         \A r \in RunId, t \in Nat : ScheduleRetry(r, t) => t < MaximumAttempts
  PROVE  PolicyOnRecord'
<1> SUFFICES ASSUME NEW s \in RunId, NEW n \in Nat \ {0}, QueuedEvent(n) \in events'[s]
             PROVE  n < MaximumAttempts
  BY DEF PolicyOnRecord
<1>1. TypeOK /\ (QueuedEvent(n) \in events[s] => n < MaximumAttempts)
  BY DEF HistoryInv, PolicyOnRecord
<1>2. CASE events'[s] = events[s]
  BY <1>1, <1>2
<1>3. ASSUME NEW r \in RunId, NEW t \in 1..AttemptBound, ScheduleRetry(r, t)
      PROVE  n < MaximumAttempts
  <2>1. t < MaximumAttempts
    BY <1>3, BoundAssumption
  <2>2. t = Len(attempts[r])
    BY <1>3 DEF ScheduleRetry, Requeue, HoldsClaim, AttemptIsCurrent
  <2>3. events'[s] \subseteq events[s] \cup {QueuedEvent(t)}
    BY <1>1, <1>3, <2>2 DEF ScheduleRetry, RetryEvent, TypeOK
  <2> QED
    BY <1>1, <2>1, <2>3 DEF QueuedEvent
<1>4. ASSUME NEW r \in RunId,
             \/ \E a \in Api : InsertRun(a, r)
             \/ Claim(r)
             \/ \E t \in 1..AttemptBound, o \in Outcome : Complete(r, t, o)
             \/ \E t \in 1..AttemptBound : ReleaseClaim(r, t)
             \/ DeleteRun(r)
      PROVE  QueuedEvent(n) \in events[s]
  <2>1. CASE \E a \in Api : InsertRun(a, r)
    BY <1>1, <2>1 DEF InsertRun, TypeOK, QueuedEvent
  <2>2. CASE Claim(r) \/ \E t \in 1..AttemptBound : ReleaseClaim(r, t)
    BY <2>2 DEF Claim, ReleaseClaim
  <2>3. CASE \E t \in 1..AttemptBound, o \in Outcome : Complete(r, t, o)
    BY <1>1, <2>3 DEF Complete, TypeOK, QueuedEvent, FinalEvent
  <2>4. CASE DeleteRun(r)
    BY <1>1, <2>4 DEF DeleteRun, TypeOK
  <2> QED
    BY <1>4, <2>1, <2>2, <2>3, <2>4
<1> QED
  BY <1>1, <1>2, <1>3, <1>4, RunSteps

LEMMA RetriesFollowPolicy == HistoryInv /\ PolicyOnRecord => RetriesWithinPolicy
<1> SUFFICES ASSUME HistoryInv, PolicyOnRecord, NEW r \in RunId, NEW n \in RetriedAttempts(r)
             PROVE  n < MaximumAttempts
  BY DEF RetriesWithinPolicy
<1>1. RunHistory(r) /\ attempts[r] \in Seq(AttemptStatus)
  BY DEF HistoryInv, TypeOK
<1>2. n \in 1..Len(attempts[r]) /\ Len(attempts[r]) \in Nat
  BY <1>1, LenProperties DEF RetriedAttempts
<1>3. n \in Nat \ {0} /\ attempts[r] # <<>>
  BY <1>2, EmptySeq
<1>4. QueuedEvent(n) \in events[r]
  BY <1>1, <1>3 DEF RunHistory, UnusedIsBlank
<1> QED
  BY <1>3, <1>4 DEF PolicyOnRecord

-----------------------------------------------------------------------------
(* Workers and the claims they hold *)

\* Who still has a claim, or lost it, stays in one of these positions through
\* every step but its own settlement.
LEMMA SettleableStays ==
  ASSUME HistoryInv, [Next]_storeVars, NEW r \in RunId, NEW t \in Nat \ {0},
         Settleable(r, t), ~\E o \in Outcome : Complete(r, t, o), ~ScheduleRetry(r, t)
  PROVE  Settleable(r, t)'
<1>1. TypeOK /\ RunHistory(r) /\ attempts[r] \in Seq(AttemptStatus) /\ Len(attempts[r]) \in Nat
  BY LenProperties DEF HistoryInv, TypeOK
<1>2. CASE status'[r] = status[r] /\ claim'[r] = claim[r] /\ attempts'[r] = attempts[r]
  BY <1>2 DEF Settleable
<1>3. ASSUME NEW a \in Api, InsertRun(a, r) PROVE FALSE
  <2>1. status[r] = "absent" /\ attempts[r] = <<>>
    BY <1>1, <1>3 DEF InsertRun, RunHistory, UnusedIsBlank, Present
  <2>2. t <= 0
    BY <2>1, EmptySeq DEF Settleable
  <2> QED
    BY <2>2
<1>4. CASE DeleteRun(r)
  BY <1>1, <1>4 DEF DeleteRun, Settleable, TypeOK
<1>5. CASE Claim(r)
  <2> DEFINE len == Len(attempts[r])
             ended == IF status[r] = "running" THEN EndAttempt(r, "abandoned")
                                               ELSE attempts[r]
  <2>1. status[r] = "running" => AttemptIsCurrent(r)
    BY <1>5 DEF Claim
  <2>2. /\ ended \in Seq(AttemptStatus) /\ Len(ended) = len
        /\ \A n \in 1..len : ended[n] = IF status[r] = "running" /\ n = claim[r]
                                        THEN "abandoned" ELSE attempts[r][n]
    BY <1>1, <2>1, EndAttemptProperties DEF AttemptStatus
  <2>3. attempts'[r] = Append(ended, "running")
    BY <1>1, <1>5 DEF Claim, TypeOK
  <2>4. Len(attempts'[r]) = len + 1 /\ \A n \in 1..len : attempts'[r][n] = ended[n]
    BY <1>1, <2>2, <2>3, AppendProperties DEF AttemptStatus
  <2>5. status[r] # "deleted"
    BY <1>5 DEF Claim, Claimable
  <2>6. claim[r] = t => status[r] = "running" /\ t \in 1..len
    BY <1>1, <2>1 DEF RunHistory, AttemptIsCurrent
  <2>7. t \in 1..len /\ ended[t] = "abandoned"
    BY <1>1, <2>2, <2>5, <2>6 DEF Settleable
  <2> QED
    BY <1>1, <2>4, <2>7 DEF Settleable
<1>6. ASSUME NEW u \in 1..AttemptBound,
             ReleaseClaim(r, u) \/ ScheduleRetry(r, u) \/ \E o \in Outcome : Complete(r, u, o)
      PROVE  Settleable(r, t)'
  <2>1. /\ AttemptIsCurrent(r) /\ claim[r] = u /\ status[r] = "running"
        /\ \E s \in {"succeeded", "failed", "abandoned"} :
             /\ attempts' = [attempts EXCEPT ![r] = EndAttempt(r, s)]
             /\ u = t => s = "abandoned"
    BY <1>6 DEF ReleaseClaim, ScheduleRetry, Requeue, Complete, HoldsClaim
  <2>2. PICK s \in {"succeeded", "failed", "abandoned"} :
          attempts' = [attempts EXCEPT ![r] = EndAttempt(r, s)] /\ (u = t => s = "abandoned")
    BY <2>1
  <2>3. attempts'[r] = EndAttempt(r, s)
    BY <1>1, <2>2 DEF TypeOK
  <2>4. /\ claim[r] \in 1..Len(attempts[r]) /\ Len(attempts'[r]) = Len(attempts[r])
        /\ \A n \in 1..Len(attempts[r]) :
             attempts'[r][n] = IF n = claim[r] THEN s ELSE attempts[r][n]
    BY <1>1, <2>1, <2>3, EndAttemptProperties DEF AttemptStatus
  <2>5. CASE u = t
    BY <1>1, <2>1, <2>2, <2>4, <2>5 DEF Settleable
  <2>6. CASE u # t
    <3>1. t \in 1..Len(attempts[r]) /\ attempts[r][t] = "abandoned"
      BY <1>1, <2>1, <2>6 DEF Settleable
    <3> QED
      BY <1>1, <2>1, <2>4, <2>6, <3>1 DEF Settleable
  <2> QED
    BY <2>5, <2>6
<1>7. CASE UNCHANGED <<status, request, claim, attempts, events, deliveries>>
  BY <1>2, <1>7
<1>8. ASSUME NEW s \in RunId, s # r, OtherRunsUnchanged(s)
      PROVE  Settleable(r, t)'
  BY <1>2, <1>8 DEF OtherRunsUnchanged
<1>9. ASSUME \/ \E a \in Api : InsertRun(a, r)
             \/ Claim(r)
             \/ \E u \in 1..AttemptBound, o \in Outcome : Complete(r, u, o)
             \/ \E u \in 1..AttemptBound : ScheduleRetry(r, u) \/ ReleaseClaim(r, u)
             \/ DeleteRun(r)
      PROVE  Settleable(r, t)'
  BY <1>3, <1>4, <1>5, <1>6, <1>9
<1> QED
  BY <1>1, <1>7, <1>8, <1>9, RunSteps

\* Everyone but a worker leaves the workers as they are, running runs running,
\* and attempts as they are or deleted.
LEMMA OnlyWorkersSettle ==
  ASSUME SystemInv, [SystemNext]_systemVars, ~\E w \in Worker : WorkerStep(w)
  PROVE  /\ UNCHANGED workerVars
         /\ \A r \in RunId : /\ status[r] = "running" => status'[r] = "running"
                             /\ attempts'[r] = attempts[r] \/ attempts'[r] = <<>>
<1>1. TypeOK
  BY DEF SystemInv, HistoryInv
<1>2. ASSUME StoreStep, NEW r \in RunId
      PROVE  /\ status[r] = "running" => status'[r] = "running"
             /\ attempts'[r] = attempts[r] \/ attempts'[r] = <<>>
  <2>1. ASSUME NEW a \in Api, NEW s \in RunId, InsertRun(a, s)
        PROVE  /\ status[r] = "running" => status'[r] = "running"
               /\ attempts'[r] = attempts[r]
    BY <1>1, <2>1 DEF InsertRun, TypeOK
  <2>2. ASSUME NEW a \in Api, Accept(a), ~\E s \in RunId : InsertRun(a, s)
        PROVE  UNCHANGED tables
    BY <2>2 DEF Accept, BeginAccept, BeginUnlimitedAccept, AnswerKnownKey,
                RejectBacklog, Admit, InsertConflict, AbortAccept
  <2>3. ASSUME NEW s \in RunId, DeleteRun(s)
        PROVE  /\ status[r] = "running" => status'[r] = "running"
               /\ attempts'[r] = attempts[r] \/ attempts'[r] = <<>>
    BY <1>1, <2>3 DEF DeleteRun, Deletable, TypeOK
  <2>4. ASSUME \/ \E s \in RunId : OutboxLeaseExpires(s) \/ Age(s)
               \/ \E e \in Endpoint : ProvisionEndpoint(e) \/ DisableEndpoint(e)
        PROVE  status' = status /\ attempts' = attempts
    BY <2>4 DEF OutboxLeaseExpires, SetMessage, Age, ProvisionEndpoint, DisableEndpoint,
                SetEndpoint
  <2> QED
    BY <1>2, <2>1, <2>2, <2>3, <2>4 DEF StoreStep
<1>3. CASE QueueStep \/ UNCHANGED systemVars
  BY <1>3 DEF QueueStep, PromoteDelayed, StallCheck, RemoveFinishedJob, LoseLock,
              FlushQueue, QueueOnly, systemVars
<1>4. ASSUME NEW d \in Dispatcher, RelayStep(d) \/ ReconcileStep(d) \/ DispatcherStops(d)
      PROVE  UNCHANGED workerVars /\ status' = status /\ attempts' = attempts
  <2>1. status' = status /\ attempts' = attempts
    BY <1>4, DispatcherStorePart DEF ClaimOutbox, ReleaseMessage, MarkPublished,
         AcknowledgeOutbox, SetMessage
  <2>2. UNCHANGED workerVars
    <3>1. CASE RelayStep(d)
      BY <3>1 DEF RelayStep, RelayClaim, RelayLook, RelayEnqueue, RelayMark, RelayFails,
                  RelayOnly
    <3>2. CASE ReconcileStep(d)
      BY <3>2 DEF ReconcileStep, SelectCandidates, InspectJobs, DeferItem, RepairItem,
                  EnqueueItem, AcknowledgeItem, SkipItem, ReconcileOnly
    <3>3. CASE DispatcherStops(d)
      BY <3>3 DEF DispatcherStops
    <3> QED
      BY <1>4, <3>1, <3>2, <3>3
  <2> QED
    BY <2>1, <2>2
<1>5. CASE StoreStep
  BY <1>2, <1>5 DEF StoreStep
<1> QED
  BY <1>3, <1>4, <1>5 DEF SystemNext

\* A worker's step changes no other worker's state, and makes its own running
\* only by a claim.
LEMMA WorkerPart ==
  ASSUME SystemInv, NEW w \in Worker, WorkerStep(w)
  PROVE  /\ WorkerTypes'
         /\ \A v \in Worker : v # w => worker'[v] = worker[v]
         /\ worker'[w].phase = "running" =>
              \/ worker'[w] = worker[w]
              \/ /\ worker[w].phase = "taken" /\ worker'[w].run = worker[w].run
                 /\ Claim(worker[w].run) /\ worker'[w].token = claim'[worker[w].run]
<1>1. WorkerTypes /\ claim' \in [RunId -> Nat]
  <2>1. [Next]_storeVars
    BY StorePart DEF SystemNext
  <2> QED
    BY <2>1, TypeStep DEF SystemInv, HistoryInv, TypeOK
<1>2. worker[w] \in WorkerState
  BY <1>1 DEF WorkerTypes
<1>3. ASSUME NEW new \in WorkerState, new.phase # "idle" => new.run \in RunId,
             worker' = [worker EXCEPT ![w] = new],
             closing' \in [Worker -> {"no", "draining", "released", "cancelled"}]
      PROVE  WorkerTypes' /\ worker'[w] = new /\ \A v \in Worker : v # w => worker'[v] = worker[v]
  BY <1>1, <1>3 DEF WorkerTypes
<1>4. ASSUME NEW r \in RunId, TakeJob(w, r)
      PROVE  WorkerTypes' /\ worker'[w].phase = "taken"
             /\ \A v \in Worker : v # w => worker'[v] = worker[v]
  <2>1. [phase |-> "taken", run |-> r, token |-> 0] \in WorkerState
    BY DEF WorkerState
  <2> QED
    BY <1>1, <1>3, <1>4, <2>1 DEF TakeJob, WorkerTypes
<1>5. ASSUME NEW p \in {"finishing", "failing", "delaying"}, SetWorker(w, p), UNCHANGED closing,
             worker[w].phase # "idle"
      PROVE  WorkerTypes' /\ worker'[w].phase = p
             /\ \A v \in Worker : v # w => worker'[v] = worker[v]
  <2>1. [worker[w] EXCEPT !.phase = p] \in WorkerState
    BY <1>2 DEF WorkerState
  <2>2. [worker[w] EXCEPT !.phase = p].run = worker[w].run /\ [worker[w] EXCEPT !.phase = p].phase = p
    BY <1>2 DEF WorkerState
  <2> QED
    BY <1>1, <1>3, <1>5, <2>1, <2>2 DEF SetWorker, WorkerTypes
<1>6. CASE ClaimRun(w)
  <2>1. CASE \E p \in {"finishing"} : SetWorker(w, p)
    BY <1>5, <1>6, <2>1 DEF ClaimRun
  <2>2. CASE /\ Claim(worker[w].run)
             /\ worker' = [worker EXCEPT ![w].phase = "running",
                                         ![w].token = claim'[worker[w].run]]
    <3> DEFINE new == [worker[w] EXCEPT !.phase = "running", !.token = claim'[worker[w].run]]
    <3>1. worker[w].phase = "taken" /\ worker[w].run \in RunId /\ UNCHANGED closing
      BY <1>1, <1>6 DEF ClaimRun, WorkerTypes
    <3>2. new \in WorkerState /\ new.phase = "running" /\ new.run = worker[w].run
          /\ new.token = claim'[worker[w].run]
      BY <1>1, <1>2, <3>1 DEF WorkerState
    <3>3. worker' = [worker EXCEPT ![w] = new]
      BY <2>2
    <3> HIDE DEF new
    <3> QED
      BY <1>1, <1>3, <2>2, <3>1, <3>2, <3>3 DEF WorkerTypes
  <2> QED
    BY <1>6, <2>1, <2>2 DEF ClaimRun
<1>7. CASE Settle(w) \/ WorkerError(w)
  <2>1. \E p \in {"finishing", "failing", "delaying"} : SetWorker(w, p)
    BY <1>7 DEF Settle, SettleSuccess, SettleFailure, SettleRetry, SettleAborted,
                WorkerError, Then
  <2>2. UNCHANGED closing /\ worker[w].phase # "idle"
    BY <1>7 DEF Settle, SettleSuccess, SettleFailure, SettleRetry, SettleAborted, WorkerError
  <2> QED
    BY <1>5, <2>1, <2>2
<1>8. CASE FinishJob(w) \/ Crash(w) \/ Exit(w)
  <2>1. worker' = [worker EXCEPT ![w] = IdleWorker]
    BY <1>8 DEF FinishJob, Crash, Exit, Vanish
  <2>2. closing' \in [Worker -> {"no", "draining", "released", "cancelled"}]
    BY <1>1, <1>8 DEF FinishJob, Crash, Exit, Vanish, WorkerTypes
  <2>3. IdleWorker \in WorkerState /\ IdleWorker.phase = "idle"
    BY DEF IdleWorker, WorkerState
  <2> QED
    BY <1>3, <2>1, <2>2, <2>3
<1>9. CASE StartShutdown(w) \/ ReleaseActive(w) \/ CancelJobs(w)
  <2>1. UNCHANGED worker
    BY <1>9 DEF StartShutdown, ReleaseActive, CancelJobs
  <2>2. closing' \in [Worker -> {"no", "draining", "released", "cancelled"}]
    BY <1>1, <1>9 DEF StartShutdown, ReleaseActive, CancelJobs, WorkerTypes
  <2> QED
    BY <1>1, <2>1, <2>2 DEF WorkerTypes
<1> QED
  BY <1>4, <1>6, <1>7, <1>8, <1>9 DEF WorkerStep

\* Which run a claim has made somebody's.
LEMMA ClaimGives ==
  ASSUME HistoryInv, [Next]_storeVars, NEW r \in RunId, Claim(r)
  PROVE  /\ status[r] # "deleted" /\ status'[r] = "running"
         /\ claim'[r] = Len(attempts[r]) + 1 /\ claim'[r] \in Nat \ {0}
<1>1. TypeOK /\ Len(attempts[r]) \in Nat
  BY LenProperties DEF HistoryInv, TypeOK
<1> QED
  BY <1>1 DEF Claim, Claimable, TypeOK

\* Who has or lost an attempt of a run that is not deleted, has one that began.
LEMMA SettleableBegan ==
  ASSUME HistoryInv, NEW r \in RunId, NEW t \in Nat \ {0}, Settleable(r, t),
         status[r] # "deleted"
  PROVE  t <= Len(attempts[r])
<1>1. RunHistory(r) /\ TypeOK
  BY DEF HistoryInv
<1>2. claim[r] = t => t = Len(attempts[r])
  BY <1>1 DEF RunHistory, AttemptIsCurrent
<1> QED
  BY <1>2, LenProperties DEF Settleable, HistoryInv, TypeOK

LEMMA HoldersStep ==
  ASSUME SystemInv, [SystemNext]_systemVars
  PROVE  ClaimsAccounted' /\ AttemptsApart'
<1>1. /\ [Next]_storeVars /\ HistoryInv /\ HistoryInv' /\ ClaimsAccounted /\ AttemptsApart
      /\ WorkerTypes
  BY StorePart, HistoryStep DEF SystemInv
<1>2. ASSUME NEW v \in Worker, worker[v].phase = "running"
      PROVE  /\ worker[v].run \in RunId /\ worker[v].token \in Nat \ {0}
             /\ Settleable(worker[v].run, worker[v].token)
  BY <1>1, <1>2 DEF ClaimsAccounted, WorkerTypes, WorkerState
<1>3. CASE ~\E w \in Worker : WorkerStep(w)
  <2>1. worker' = worker
    BY <1>3, OnlyWorkersSettle DEF workerVars
  <2>2. ASSUME NEW r \in RunId, NEW t
        PROVE  (~\E o \in Outcome : Complete(r, t, o)) /\ ~ScheduleRetry(r, t)
    <3>1. status[r] = "running" => status'[r] = "running"
      BY <1>3, OnlyWorkersSettle
    <3> QED
      BY <1>1, <3>1 DEF Complete, ScheduleRetry, Requeue, HoldsClaim, HistoryInv, TypeOK
  <2>3. ASSUME NEW v \in Worker, worker[v].phase = "running"
        PROVE  Settleable(worker[v].run, worker[v].token)'
    <3>1. PICK r \in RunId, t \in Nat \ {0} : r = worker[v].run /\ t = worker[v].token
      BY <1>2, <2>3
    <3>2. Settleable(r, t)'
      BY <1>1, <1>2, <2>2, <2>3, <3>1, SettleableStays
    <3> QED
      BY <2>1, <3>1, <3>2 DEF Settleable
  <2>4. ClaimsAccounted'
    BY <1>1, <2>1, <2>3 DEF ClaimsAccounted
  <2> QED
    BY <1>1, <2>1, <2>4 DEF AttemptsApart
<1>4. ASSUME NEW w \in Worker, WorkerStep(w)
      PROVE  ClaimsAccounted' /\ AttemptsApart'
  <2>1. /\ \A v \in Worker : v # w => worker'[v] = worker[v]
        /\ worker'[w].phase = "running" =>
              \/ worker'[w] = worker[w]
              \/ /\ worker[w].phase = "taken" /\ worker'[w].run = worker[w].run
                 /\ Claim(worker[w].run) /\ worker'[w].token = claim'[worker[w].run]
    BY <1>4, WorkerPart
  <2>2. worker[w].phase # "idle" => worker[w].run \in RunId
    BY <1>1 DEF WorkerTypes
  \* Only the worker itself settles its attempt, and then it executes no more.
  <2>3. ASSUME NEW v \in Worker, worker[v].phase = "running", worker'[v] = worker[v],
               NEW r, NEW t, r = worker[v].run, t = worker[v].token
        PROVE  (~\E o \in Outcome : Complete(r, t, o)) /\ ~ScheduleRetry(r, t)
    <3> SUFFICES ASSUME (\E o \in Outcome : Complete(r, t, o)) \/ ScheduleRetry(r, t)
                 PROVE  FALSE
      OBVIOUS
    <3>1. r \in RunId /\ HoldsClaim(r, t) /\ status[r] = "running" /\ status'[r] # "running"
          /\ claim[r] = t /\ t # 0 /\ attempts[r][t] = "running" /\ attempts'[r][t] # "abandoned"
      <4>1. r \in RunId /\ TypeOK
        BY <1>1, <1>2, <2>3 DEF HistoryInv
      <4>2. HoldsClaim(r, t) /\ AttemptIsCurrent(r) /\ status'[r] # "running"
        BY <4>1 DEF Complete, ScheduleRetry, Requeue, TypeOK
      <4>3. PICK s \in {"succeeded", "failed"} : attempts' = [attempts EXCEPT ![r] = EndAttempt(r, s)]
        BY DEF Complete, ScheduleRetry, Requeue
      <4>4. attempts'[r] = EndAttempt(r, s)
        BY <4>1, <4>3 DEF TypeOK
      <4>5. attempts'[r][claim[r]] = s
        BY <4>1, <4>2, <4>4, EndAttemptProperties DEF AttemptStatus
      <4> QED
        BY <4>1, <4>2, <4>5 DEF HoldsClaim, AttemptIsCurrent
    <3>2. PICK u, n : /\ u \in RunId /\ worker[w].run = u /\ worker[w].token = n
                      /\ \/ worker[w].phase = "taken" /\ Claim(u)
                         \/ /\ worker[w].phase = "running" /\ worker'[w].phase # "running"
                            /\ (\E o \in Outcome : Complete(u, n, o)) \/ ScheduleRetry(u, n)
                         \/ worker[w].phase = "running" /\ ReleaseClaim(u, n)
      <4>1. storeVars' # storeVars
        BY <3>1
      <4>2. ASSUME NEW p \in {"finishing", "failing", "delaying"}, SetWorker(w, p)
            PROVE  worker'[w].phase # "running"
        BY <1>1, <4>2 DEF SetWorker, WorkerTypes, WorkerState
      <4> QED
        BY <1>4, <4>1, <4>2, WorkerStorePart
    <3>3. u = r
      <4> SUFFICES ASSUME u # r PROVE FALSE
        OBVIOUS
      <4>1. status'[r] = status[r]
        BY <1>1, <3>1, <3>2 DEF Claim, Complete, ScheduleRetry, ReleaseClaim, Requeue,
             HistoryInv, TypeOK
      <4> QED
        BY <3>1, <4>1
    <3>4. CASE Claim(u)
      BY <1>1, <3>1, <3>3, <3>4, ClaimGives
    <3>5. CASE ReleaseClaim(u, n)
      <4>1. AttemptIsCurrent(r) /\ attempts' = [attempts EXCEPT ![r] = EndAttempt(r, "abandoned")]
        BY <3>3, <3>5 DEF ReleaseClaim, Requeue
      <4>2. attempts'[r] = EndAttempt(r, "abandoned")
        BY <1>1, <3>1, <4>1 DEF HistoryInv, TypeOK
      <4> QED
        BY <1>1, <3>1, <4>1, <4>2, EndAttemptProperties DEF HistoryInv, AttemptStatus
    <3>6. CASE /\ worker[w].phase = "running" /\ worker'[w].phase # "running"
               /\ (\E o \in Outcome : Complete(u, n, o)) \/ ScheduleRetry(u, n)
      <4>1. n = t
        BY <3>1, <3>3, <3>6 DEF Complete, ScheduleRetry, Requeue, HoldsClaim
      <4>2. v = w
        BY <1>1, <2>3, <3>2, <3>3, <3>6, <4>1 DEF AttemptsApart
      <4> QED
        BY <2>3, <3>6, <4>2
    <3> QED
      BY <3>2, <3>4, <3>5, <3>6
  <2>4. ASSUME NEW v \in Worker, worker[v].phase = "running", worker'[v] = worker[v]
        PROVE  (worker[v].token > 0 /\ Settleable(worker[v].run, worker[v].token))'
    <3>1. PICK r \in RunId, t \in Nat \ {0} : r = worker[v].run /\ t = worker[v].token
      BY <1>2, <2>4
    <3>2. Settleable(r, t)'
      BY <1>1, <1>2, <2>3, <2>4, <3>1, SettleableStays
    <3> QED
      BY <2>4, <3>1, <3>2 DEF Settleable
  <2>5. ASSUME worker'[w].phase = "running", worker'[w] # worker[w]
        PROVE  /\ worker'[w].run = worker[w].run /\ worker[w].run \in RunId
               /\ Claim(worker[w].run)
               /\ worker'[w].token = Len(attempts[worker[w].run]) + 1
               /\ worker'[w].token = claim'[worker[w].run]
               /\ worker'[w].token \in Nat \ {0}
               /\ status[worker[w].run] # "deleted" /\ status'[worker[w].run] = "running"
    BY <1>1, <2>1, <2>2, <2>5, ClaimGives
  <2>6. ClaimsAccounted'
    <3> SUFFICES ASSUME NEW v \in Worker, worker'[v].phase = "running"
                 PROVE  (worker[v].token > 0 /\ Settleable(worker[v].run, worker[v].token))'
      BY DEF ClaimsAccounted
    <3>1. CASE worker'[v] = worker[v]
      BY <2>4, <3>1
    <3>2. CASE worker'[v] # worker[v]
      <4>1. v = w
        BY <2>1, <3>2
      <4> QED
        BY <2>5, <3>2, <4>1 DEF Settleable
    <3> QED
      BY <3>1, <3>2
  <2>7. ASSUME NEW v \in Worker, v # w, worker'[v].phase = "running",
               worker'[w].phase = "running", worker'[v].run = worker'[w].run
        PROVE  worker'[v].token # worker'[w].token
    <3>1. worker'[v] = worker[v]
      BY <2>1, <2>7
    <3>2. CASE worker'[w] = worker[w]
      BY <1>1, <2>7, <3>1, <3>2 DEF AttemptsApart
    <3>3. CASE worker'[w] # worker[w]
      <4>1. PICK r \in RunId, t \in Nat \ {0} : r = worker[v].run /\ t = worker[v].token
        BY <1>2, <2>7, <3>1
      <4>2. r = worker[w].run /\ Settleable(r, t) /\ status[r] # "deleted"
        BY <1>2, <2>5, <2>7, <3>1, <3>3, <4>1
      <4>3. t <= Len(attempts[r]) /\ Len(attempts[r]) \in Nat
        BY <1>1, <4>2, SettleableBegan, LenProperties DEF HistoryInv, TypeOK
      <4>4. worker'[w].token = Len(attempts[r]) + 1
        BY <2>5, <2>7, <3>3, <4>2
      <4> QED
        BY <3>1, <4>1, <4>3, <4>4
    <3> QED
      BY <3>2, <3>3
  <2>8. AttemptsApart'
    <3> SUFFICES ASSUME NEW v \in Worker, NEW u \in Worker, v # u,
                        worker'[v].phase = "running", worker'[u].phase = "running",
                        worker'[v].run = worker'[u].run
                 PROVE  worker'[v].token # worker'[u].token
      BY DEF AttemptsApart
    <3>1. CASE v # w /\ u # w
      BY <1>1, <2>1, <3>1 DEF AttemptsApart
    <3>2. CASE v = w \/ u = w
      BY <2>7, <3>2
    <3> QED
      BY <3>1, <3>2
  <2> QED
    BY <2>6, <2>8
<1> QED
  BY <1>3, <1>4

-----------------------------------------------------------------------------
(* The queue: a job that is there was put there *)

LEMMA FaultsStep ==
  ASSUME SystemInv, [SystemNext]_systemVars
  PROVE  faults' \in 0..FaultBound
<1>1. faults \in 0..FaultBound /\ FaultBound \in Nat
  BY SystemAssumption DEF SystemInv, QueueTypes
<1>2. CASE UNCHANGED faults \/ Fault
  BY <1>1, <1>2 DEF Fault
<1>3. CASE StoreStep \/ QueueStep \/ UNCHANGED systemVars
  BY <1>2, <1>3 DEF StoreStep, QueueStep, PromoteDelayed, StallCheck, RemoveFinishedJob,
       LoseLock, FlushQueue, systemVars
<1>4. ASSUME NEW w \in Worker, WorkerStep(w) PROVE UNCHANGED faults \/ Fault
  <2>1. CASE Settle(w)
    BY <2>1 DEF Settle, SettleSuccess, SettleFailure, SettleRetry, SettleAborted, Then
  <2>2. CASE ~Settle(w)
    BY <1>4, <2>2 DEF WorkerStep, TakeJob, ClaimRun, WorkerError, FinishJob, Crash,
         StartShutdown, ReleaseActive, CancelJobs, Exit
  <2> QED
    BY <2>1, <2>2
<1>5. ASSUME NEW d \in Dispatcher, RelayStep(d) \/ ReconcileStep(d) \/ DispatcherStops(d)
      PROVE  UNCHANGED faults \/ Fault
  BY <1>5 DEF RelayStep, RelayClaim, RelayLook, RelayEnqueue, RelayMark, RelayFails,
       ReconcileStep, SelectCandidates, InspectJobs, DeferItem, RepairItem, EnqueueItem,
       AcknowledgeItem, SkipItem, DispatcherStops
<1> QED
  BY <1>2, <1>3, <1>4, <1>5 DEF SystemNext

\* What the queue's part of a step keeps; whose job was there once, stays so.
QueueKept ==
  /\ job' \in [RunId -> Job] /\ enqueued' \in [RunId -> BOOLEAN]
  /\ \A r \in RunId : job'[r].state # "missing" => enqueued'[r]
  /\ \A r \in RunId : enqueued[r] => enqueued'[r]

LEMMA QueueKeeps ==
  ASSUME SystemInv, [SystemNext]_systemVars
  PROVE  QueueKept
<1>1. /\ job \in [RunId -> Job] /\ enqueued \in [RunId -> BOOLEAN]
      /\ \A r \in RunId : job[r].state # "missing" => enqueued[r]
      /\ MaxStalledCount \in Nat
  BY SystemAssumption DEF SystemInv, QueueTypes, JobsKnown
<1>2. CASE UNCHANGED queueVars
  BY <1>1, <1>2 DEF QueueKept, queueVars
<1>3. ASSUME NEW r \in RunId, NEW new \in Job, job' = [job EXCEPT ![r] = new],
             UNCHANGED enqueued, new.state # "missing" => job[r].state # "missing"
      PROVE  QueueKept
  BY <1>1, <1>3 DEF QueueKept
<1>4. ASSUME NEW r \in RunId, NEW st \in RunnableStates \cup {"completed", "failed"},
             NEW o \in Worker \cup {NoWorker}, SetJob(r, st, o), UNCHANGED enqueued,
             job[r].state # "missing"
      PROVE  QueueKept
  <2>1. [job[r] EXCEPT !.state = st, !.owner = o] \in Job
    BY <1>1 DEF Job
  <2>2. job' = [job EXCEPT ![r] = [job[r] EXCEPT !.state = st, !.owner = o]]
    BY <1>4 DEF SetJob
  <2> QED
    BY <1>3, <1>4, <2>1, <2>2
<1>5. NoJob \in Job /\ NoJob.state = "missing" /\ NewJob \in Job
  BY <1>1 DEF NoJob, NewJob, Job, RunnableStates
<1>6. ASSUME NEW m, m.run \in RunId, Enqueue(m) PROVE QueueKept
  <2>1. job' \in [RunId -> Job] /\ enqueued' \in [RunId -> BOOLEAN]
    BY <1>1, <1>5, <1>6 DEF Enqueue
  <2>2. \A r \in RunId : (r # m.run => job'[r] = job[r]) /\ enqueued'[m.run]
                         /\ (r # m.run => enqueued'[r] = enqueued[r])
    BY <1>1, <1>6 DEF Enqueue
  <2> QED
    BY <1>1, <2>1, <2>2 DEF QueueKept
<1>7. CASE QueueStep
  <2>1. ASSUME NEW r \in RunId, PromoteDelayed(r) PROVE QueueKept
    BY <1>4, <2>1 DEF PromoteDelayed, QueueOnly, RunnableStates
  <2>2. ASSUME NEW r \in RunId, LoseLock(r) PROVE QueueKept
    BY <1>4, <2>2 DEF LoseLock, Locked, QueueOnly, RunnableStates
  <2>3. ASSUME NEW r \in RunId, RemoveFinishedJob(r) PROVE QueueKept
    BY <1>3, <1>5, <2>3 DEF RemoveFinishedJob, QueueOnly
  <2>4. ASSUME NEW r \in RunId, StallCheck(r) PROVE QueueKept
    <3>1. CASE job[r].stalls < MaxStalledCount
      <4>1. job[r].stalls \in 0..MaxStalledCount
        BY <1>1 DEF Job
      <4>2. job[r].stalls + 1 \in 0..MaxStalledCount
        BY <1>1, <3>1, <4>1
      <4>3. [NewJob EXCEPT !.stalls = job[r].stalls + 1] \in Job
        BY <1>5, <4>2 DEF Job
      <4> QED
        BY <1>3, <2>4, <3>1, <4>3 DEF StallCheck, QueueOnly
    <3>2. CASE ~(job[r].stalls < MaxStalledCount)
      BY <1>4, <2>4, <3>2 DEF StallCheck, QueueOnly
    <3> QED
      BY <3>1, <3>2
  <2>5. CASE FlushQueue
    BY <1>1, <1>5, <2>5 DEF FlushQueue, QueueOnly, QueueKept
  <2> QED
    BY <1>7, <2>1, <2>2, <2>3, <2>4, <2>5 DEF QueueStep
<1>8. ASSUME NEW w \in Worker, WorkerStep(w) PROVE QueueKept
  <2>1. ASSUME NEW r \in RunId, TakeJob(w, r) PROVE QueueKept
    BY <1>4, <2>1 DEF TakeJob, RunnableStates
  <2>2. CASE FinishJob(w)
    <3>1. worker[w].run \in RunId
      BY <2>2 DEF FinishJob, SystemInv, WorkerTypes
    <3>2. CASE job' = job
      BY <1>2, <2>2, <3>2 DEF FinishJob, queueVars
    <3>3. CASE job' # job
      <4>1. \E st \in {"completed", "delayed", "failed"} : SetJob(worker[w].run, st, NoWorker)
        BY <2>2, <3>3 DEF FinishJob
      <4>2. job[worker[w].run].state # "missing" /\ UNCHANGED enqueued
        BY <2>2, <3>3 DEF FinishJob
      <4> QED
        BY <1>4, <3>1, <4>1, <4>2 DEF RunnableStates
    <3> QED
      BY <3>2, <3>3
  <2>3. CASE Crash(w) \/ Exit(w)
    <3>1. Vanish(w)
      BY <2>3 DEF Crash, Exit
    <3>2. \A r \in RunId : [job[r] EXCEPT !.owner = NoWorker] \in Job
                           /\ [job[r] EXCEPT !.owner = NoWorker].state = job[r].state
      BY <1>1 DEF Job
    <3>3. job' \in [RunId -> Job] /\ \A r \in RunId : job'[r].state = job[r].state
      BY <1>1, <3>1, <3>2 DEF Vanish
    <3> QED
      BY <1>1, <3>1, <3>3 DEF Vanish, QueueKept
  <2>4. CASE ClaimRun(w) \/ Settle(w) \/ WorkerError(w) \/ StartShutdown(w)
             \/ ReleaseActive(w) \/ CancelJobs(w)
    BY <1>2, <2>4 DEF ClaimRun, Settle, SettleSuccess, SettleFailure, SettleRetry,
         SettleAborted, WorkerError, StartShutdown, ReleaseActive, CancelJobs
  <2> QED
    BY <1>8, <2>1, <2>2, <2>3, <2>4 DEF WorkerStep
<1>9. ASSUME NEW d \in Dispatcher, RelayStep(d) \/ ReconcileStep(d) \/ DispatcherStops(d)
      PROVE  QueueKept
  <2>1. CASE RelayEnqueue(d)
    BY <1>6, <2>1 DEF RelayEnqueue, SystemInv, RelayTypes, Claimed
  <2>2. CASE EnqueueItem(d)
    BY <1>6, <2>2 DEF EnqueueItem, SystemInv, ReconTypes, Candidate
  <2>3. CASE ~RelayEnqueue(d) /\ ~EnqueueItem(d)
    BY <1>2, <1>9, <2>3 DEF RelayStep, RelayClaim, RelayLook, RelayMark, RelayFails,
         ReconcileStep, SelectCandidates, InspectJobs, DeferItem, RepairItem,
         AcknowledgeItem, SkipItem, DispatcherStops
  <2> QED
    BY <2>1, <2>2, <2>3
<1>10. CASE StoreStep \/ UNCHANGED systemVars
  BY <1>2, <1>10 DEF StoreStep, systemVars
<1> QED
  BY <1>7, <1>8, <1>9, <1>10 DEF SystemNext

-----------------------------------------------------------------------------
(* The relays and the reconcilers know of a job before they confirm it *)

RelayKnows ==
  \A d \in Dispatcher : relay[d].phase = "marking" => enqueued[relay[d].at.run]

\* What a relay or a reconciler may become in a step.
SoundRelay(x) ==
  /\ x \in RelayState
  /\ x.phase \in {"enqueuing", "marking"} => x.at \in Claimed
SoundRecon(x) ==
  /\ x \in ReconState
  /\ x.phase \in {"enqueuing", "acknowledging"} => x.at \in Candidate
InspectedKnow(x) == \A i \in x.items : i.queue = "runnable" => enqueued[i.run]
ReconKnows ==
  \A d \in Dispatcher :
    /\ recon[d].phase = "acknowledging" => enqueued[recon[d].at.run]
    /\ InspectedKnow(recon[d])

LEMMA RelayKeeps ==
  ASSUME SystemInv, [SystemNext]_systemVars
  PROVE  RelayTypes' /\ RelayKnows'
<1>1. /\ RelayTypes /\ RelayKnows /\ QueueKept /\ TypeOK'
      /\ \A r \in RunId : enqueued[r] => enqueued'[r]
  BY QueueKeeps, StorePart, TypeStep DEF SystemInv, JobsKnown, RelayKnows, HistoryInv, QueueKept
<1>2. \A d \in Dispatcher : relay[d] \in RelayState /\ SoundRelay(relay[d])
  BY <1>1 DEF RelayTypes, SoundRelay
<1>3. CASE UNCHANGED relay
  BY <1>1, <1>3 DEF RelayTypes, RelayKnows, Claimed
<1>4. ASSUME NEW d \in Dispatcher, NEW new, SoundRelay(new), relay' = [relay EXCEPT ![d] = new],
             new.phase = "marking" => enqueued'[new.at.run]
      PROVE  RelayTypes' /\ RelayKnows'
  <2>1. RelayTypes'
    BY <1>1, <1>4 DEF RelayTypes, SoundRelay
  <2>2. RelayKnows'
    <3> SUFFICES ASSUME NEW e \in Dispatcher, relay'[e].phase = "marking"
                 PROVE  enqueued'[relay'[e].at.run]
      BY DEF RelayKnows
    <3>1. CASE e = d
      BY <1>1, <1>4, <3>1 DEF RelayTypes
    <3>2. CASE e # d
      BY <1>1, <1>4, <3>2 DEF RelayTypes, RelayKnows, Claimed
    <3> QED
      BY <3>1, <3>2
  <2> QED
    BY <2>1, <2>2
<1>5. SoundRelay(IdleRelay) /\ IdleRelay.phase = "idle"
  BY DEF SoundRelay, IdleRelay, RelayState
<1>6. ASSUME NEW d \in Dispatcher, RelayStep(d) PROVE RelayTypes' /\ RelayKnows'
  <2>1. ASSUME NEW batch \in SUBSET RunId, RelayClaim(d, batch) PROVE RelayTypes' /\ RelayKnows'
    <3> DEFINE taken == {[run |-> r, token |-> outbox'[r].token, queue |-> "unknown"] : r \in batch}
               new == [phase |-> "working", at |-> Nowhere, batch |-> taken]
    <3>1. \A r \in batch : outbox'[r].token \in Nat
      BY <1>1 DEF TypeOK, Message
    <3>2. taken \in SUBSET Claimed
      BY <3>1 DEF Claimed, Seen
    <3>3. SoundRelay(new) /\ new.phase = "working"
      BY <3>2 DEF SoundRelay, RelayState
    <3>4. relay' = [relay EXCEPT ![d] = new]
      BY <2>1 DEF RelayClaim
    <3> HIDE DEF new
    <3> QED
      BY <1>4, <3>3, <3>4
  <2>2. ASSUME NEW left \in SUBSET Claimed, NextMessage(d, left) PROVE RelayTypes' /\ RelayKnows'
    <3> DEFINE new == IF left = {} THEN IdleRelay
                      ELSE [phase |-> "working", batch |-> left, at |-> Nowhere]
    <3>1. SoundRelay(new) /\ new.phase \in {"idle", "working"}
      BY <1>5 DEF SoundRelay, RelayState
    <3>2. relay' = [relay EXCEPT ![d] = new]
      BY <2>2 DEF NextMessage
    <3> HIDE DEF new
    <3> QED
      BY <1>4, <3>1, <3>2
  <2>3. relay[d].batch \in SUBSET Claimed
    BY <1>2 DEF RelayState
  <2>4. ASSUME NEW m \in relay[d].batch, RelayLook(d, m) PROVE RelayTypes' /\ RelayKnows'
    <3> DEFINE new == [phase |-> "enqueuing", batch |-> relay[d].batch \ {m},
                       at |-> [m EXCEPT !.queue = QueueState(m.run)]]
    <3>1. m \in Claimed /\ QueueState(m.run) \in Seen
      BY <2>3 DEF QueueState, Seen
    <3>2. [m EXCEPT !.queue = QueueState(m.run)] \in Claimed
      BY <3>1 DEF Claimed
    <3>3. SoundRelay(new) /\ new.phase = "enqueuing"
      BY <2>3, <3>2 DEF SoundRelay, RelayState
    <3>4. relay' = [relay EXCEPT ![d] = new]
      BY <2>4 DEF RelayLook
    <3> HIDE DEF new
    <3> QED
      BY <1>4, <3>3, <3>4
  <2>5. CASE RelayEnqueue(d)
    <3> DEFINE new == [relay[d] EXCEPT !.phase = "marking", !.at = [relay[d].at EXCEPT !.queue = "unknown"]]
    <3>1. relay[d].at \in Claimed /\ relay[d] \in RelayState
      BY <1>2, <2>5 DEF RelayEnqueue, SoundRelay
    <3>2. /\ [relay[d].at EXCEPT !.queue = "unknown"] \in Claimed
          /\ [relay[d].at EXCEPT !.queue = "unknown"].run = relay[d].at.run
      BY <3>1 DEF Claimed, Seen
    <3>3. /\ new \in RelayState /\ new.phase = "marking"
          /\ new.at = [relay[d].at EXCEPT !.queue = "unknown"]
      BY <3>1, <3>2 DEF RelayState
    <3>4. enqueued'[relay[d].at.run]
      BY <3>1, <2>5 DEF RelayEnqueue, Enqueue, Claimed, SystemInv, QueueTypes
    <3>5. relay' = [relay EXCEPT ![d] = new]
      BY <2>5 DEF RelayEnqueue
    <3> HIDE DEF new
    <3>6. SoundRelay(new) /\ enqueued'[new.at.run]
      BY <3>2, <3>3, <3>4 DEF SoundRelay
    <3> QED
      BY <1>4, <3>5, <3>6
  <2>6. CASE RelayMark(d) \/ RelayFails(d)
    BY <2>2, <2>3, <2>6 DEF RelayMark, RelayFails
  <2> QED
    BY <1>6, <2>1, <2>4, <2>5, <2>6 DEF RelayStep
<1>7. ASSUME NEW d \in Dispatcher, ReconcileStep(d) PROVE UNCHANGED relay
  BY <1>7 DEF ReconcileStep, SelectCandidates, InspectJobs, DeferItem, RepairItem,
       EnqueueItem, AcknowledgeItem, SkipItem, ReconcileOnly
<1>8. ASSUME NEW d \in Dispatcher, DispatcherStops(d) PROVE RelayTypes' /\ RelayKnows'
  <2>1. relay' = relay \/ relay' = [relay EXCEPT ![d] = IdleRelay]
    BY <1>8 DEF DispatcherStops
  <2> QED
    BY <1>3, <1>4, <1>5, <2>1
<1>9. ASSUME StoreStep \/ QueueStep \/ (\E w \in Worker : WorkerStep(w)) \/ UNCHANGED systemVars
      PROVE  UNCHANGED relay
  <2>1. CASE \E w \in Worker : WorkerStep(w)
    BY <2>1 DEF WorkerStep, TakeJob, ClaimRun, Settle, SettleSuccess, SettleFailure,
         SettleRetry, SettleAborted, WorkerError, FinishJob, Crash, Exit, Vanish,
         StartShutdown, ReleaseActive, CancelJobs, dispatchVars
  <2>2. CASE StoreStep \/ QueueStep \/ UNCHANGED systemVars
    BY <2>2 DEF StoreStep, QueueStep, PromoteDelayed, StallCheck, RemoveFinishedJob,
         LoseLock, FlushQueue, QueueOnly, dispatchVars, systemVars
  <2> QED
    BY <1>9, <2>1, <2>2
<1> QED
  BY <1>3, <1>6, <1>7, <1>8, <1>9 DEF SystemNext

LEMMA ReconKeeps ==
  ASSUME SystemInv, [SystemNext]_systemVars
  PROVE  ReconTypes' /\ ReconKnows'
<1>1. /\ ReconTypes /\ ReconKnows /\ QueueKept
      /\ \A r \in RunId : enqueued[r] => enqueued'[r]
      /\ \A r \in RunId : job[r].state # "missing" => enqueued[r]
  BY QueueKeeps DEF SystemInv, JobsKnown, ReconKnows, InspectedKnow, QueueKept
<1>2. \A d \in Dispatcher : recon[d] \in ReconState /\ SoundRecon(recon[d])
  BY <1>1 DEF ReconTypes, SoundRecon
<1>3. CASE UNCHANGED recon
  <2>1. \A d \in Dispatcher : \A i \in recon[d].items : i.run \in RunId
    BY <1>2 DEF ReconState, Candidate
  <2> QED
    BY <1>1, <1>3, <2>1 DEF ReconTypes, ReconKnows, InspectedKnow, Candidate
<1>4. ASSUME NEW d \in Dispatcher, NEW new, SoundRecon(new), recon' = [recon EXCEPT ![d] = new],
             new.phase = "acknowledging" => enqueued'[new.at.run],
             \A i \in new.items : i.queue = "runnable" => enqueued'[i.run]
      PROVE  ReconTypes' /\ ReconKnows'
  <2>1. ReconTypes'
    BY <1>1, <1>4 DEF ReconTypes, SoundRecon
  <2>2. ReconKnows'
    <3> SUFFICES ASSUME NEW e \in Dispatcher
                 PROVE  /\ recon'[e].phase = "acknowledging" => enqueued'[recon'[e].at.run]
                        /\ \A i \in recon'[e].items : i.queue = "runnable" => enqueued'[i.run]
      BY DEF ReconKnows, InspectedKnow
    <3>1. CASE e = d
      BY <1>1, <1>4, <3>1 DEF ReconTypes
    <3>2. CASE e # d
      <4>1. recon'[e] = recon[e] /\ \A i \in recon[e].items : i.run \in RunId
        BY <1>1, <1>2, <1>4, <3>2 DEF ReconTypes, ReconState, Candidate
      <4> QED
        BY <1>1, <4>1 DEF ReconTypes, ReconKnows, InspectedKnow, Candidate
    <3> QED
      BY <3>1, <3>2
  <2> QED
    BY <2>1, <2>2
<1>5. SoundRecon(IdleRecon) /\ IdleRecon.phase = "idle" /\ IdleRecon.items = {}
  BY DEF SoundRecon, IdleRecon, ReconState
<1>6. ASSUME NEW d \in Dispatcher
      PROVE  /\ recon[d].items \in SUBSET Candidate
             /\ \A i \in recon[d].items : i.queue = "runnable" => enqueued[i.run] /\ enqueued'[i.run]
  BY <1>1, <1>2 DEF ReconState, Candidate, ReconKnows, InspectedKnow
<1>7. ASSUME NEW d \in Dispatcher, NEW left \in SUBSET recon[d].items, NextItem(d, left)
      PROVE  ReconTypes' /\ ReconKnows'
  <2> DEFINE new == IF left = {} THEN IdleRecon
                    ELSE [phase |-> "repairing", items |-> left, at |-> Nowhere]
  <2>1. SoundRecon(new) /\ new.phase \in {"idle", "repairing"} /\ new.items = left
    BY <1>5, <1>6 DEF SoundRecon, ReconState
  <2>2. recon' = [recon EXCEPT ![d] = new]
    BY <1>7 DEF NextItem
  <2> HIDE DEF new
  <2> QED
    BY <1>4, <1>6, <2>1, <2>2
<1>8. ASSUME NEW d \in Dispatcher, NEW left \in SUBSET recon[d].items, NEW i \in Candidate,
             enqueued'[i.run], ThenAcknowledge(d, i, left)
      PROVE  ReconTypes' /\ ReconKnows'
  <2>1. CASE i.pendingOutbox
    <3> DEFINE new == [phase |-> "acknowledging", items |-> left,
                       at |-> [i EXCEPT !.queue = "unknown"]]
    <3>1. [i EXCEPT !.queue = "unknown"] \in Candidate /\ [i EXCEPT !.queue = "unknown"].run = i.run
      BY DEF Candidate, Seen
    <3>2. SoundRecon(new) /\ new.items = left /\ new.at.run = i.run
      BY <1>6, <3>1 DEF SoundRecon, ReconState
    <3>3. recon' = [recon EXCEPT ![d] = new]
      BY <1>8, <2>1 DEF ThenAcknowledge
    <3> HIDE DEF new
    <3> QED
      BY <1>4, <1>6, <1>8, <3>2, <3>3
  <2>2. CASE ~i.pendingOutbox
    BY <1>7, <1>8, <2>2 DEF ThenAcknowledge
  <2> QED
    BY <2>1, <2>2
<1>9. ASSUME NEW r PROVE QueueState(r) \in Seen
  BY DEF QueueState, Seen
<1>10. ASSUME NEW d \in Dispatcher, ReconcileStep(d) PROVE ReconTypes' /\ ReconKnows'
  <2>1. ASSUME NEW mode, SelectCandidates(d, mode) PROVE ReconTypes' /\ ReconKnows'
    <3> DEFINE found == {r \in Backlog : mode = "all" \/ Stale(r)}
               items == {CandidateOf(r) : r \in found}
               new == [phase |-> "inspecting", at |-> Nowhere, items |-> items]
    <3>1. \A r \in RunId : CandidateOf(r) \in Candidate /\ CandidateOf(r).queue = "unknown"
      BY DEF CandidateOf, Candidate, Seen
    <3>2. items \in SUBSET Candidate /\ \A i \in items : i.queue = "unknown"
      BY <3>1 DEF Backlog
    <3>3. SoundRecon(new) /\ new.phase = "inspecting" /\ new.items = items
      BY <3>2 DEF SoundRecon, ReconState
    <3>4. recon' = [recon EXCEPT ![d] = new]
      BY <2>1 DEF SelectCandidates
    <3> HIDE DEF new, items
    <3> QED
      BY <1>4, <3>2, <3>3, <3>4
  <2>2. CASE InspectJobs(d)
    <3> DEFINE items == {[i EXCEPT !.queue = QueueState(i.run)] : i \in recon[d].items}
               new == [recon[d] EXCEPT !.phase = "repairing", !.items = items]
    <3>1. \A i \in recon[d].items :
            /\ [i EXCEPT !.queue = QueueState(i.run)] \in Candidate
            /\ [i EXCEPT !.queue = QueueState(i.run)].queue = QueueState(i.run)
            /\ [i EXCEPT !.queue = QueueState(i.run)].run = i.run /\ i.run \in RunId
      BY <1>6, <1>9 DEF Candidate
    <3>2. \A r \in RunId : QueueState(r) = "runnable" => enqueued'[r]
      BY <1>1 DEF QueueState, Runnable, RunnableStates
    <3>3. items \in SUBSET Candidate /\ \A i \in items : i.queue = "runnable" => enqueued'[i.run]
      <4> SUFFICES ASSUME NEW x \in items
                   PROVE  x \in Candidate /\ (x.queue = "runnable" => enqueued'[x.run])
        OBVIOUS
      <4>1. PICK i \in recon[d].items : x = [i EXCEPT !.queue = QueueState(i.run)]
        OBVIOUS
      <4>2. x \in Candidate /\ x.queue = QueueState(i.run) /\ x.run = i.run /\ i.run \in RunId
        BY <3>1, <4>1
      <4> QED
        BY <3>2, <4>2
    <3>4. SoundRecon(new) /\ new.phase = "repairing" /\ new.items = items
      BY <1>2, <3>3 DEF SoundRecon, ReconState
    <3>5. recon' = [recon EXCEPT ![d] = new]
      BY <2>2 DEF InspectJobs
    <3> HIDE DEF new, items
    <3> QED
      BY <1>4, <3>3, <3>4, <3>5
  <2>3. ASSUME NEW i \in recon[d].items, DeferItem(d, i) PROVE ReconTypes' /\ ReconKnows'
    BY <1>7, <2>3 DEF DeferItem
  <2>4. ASSUME NEW i \in recon[d].items, RepairItem(d, i) PROVE ReconTypes' /\ ReconKnows'
    <3>1. CASE i.queue = "runnable"
      BY <1>6, <1>8, <2>4, <3>1 DEF RepairItem
    <3>2. CASE i.queue # "runnable"
      <4> DEFINE new == [phase |-> "enqueuing", items |-> recon[d].items \ {i},
                         at |-> [i EXCEPT !.queue = QueueState(i.run)]]
      <4>1. [i EXCEPT !.queue = QueueState(i.run)] \in Candidate
        BY <1>6, <1>9 DEF Candidate
      <4>2. SoundRecon(new) /\ new.phase = "enqueuing" /\ new.items = recon[d].items \ {i}
        BY <1>6, <4>1 DEF SoundRecon, ReconState
      <4>3. recon' = [recon EXCEPT ![d] = new]
        BY <2>4, <3>2 DEF RepairItem
      <4> HIDE DEF new
      <4> QED
        BY <1>4, <1>6, <4>2, <4>3
    <3> QED
      BY <3>1, <3>2
  <2>5. CASE EnqueueItem(d)
    <3>1. recon[d].at \in Candidate
      BY <1>2, <2>5 DEF EnqueueItem, SoundRecon
    <3>2. enqueued'[recon[d].at.run]
      BY <2>5, <3>1 DEF EnqueueItem, Enqueue, Candidate, SystemInv, QueueTypes
    <3> QED
      BY <1>8, <2>5, <3>1, <3>2 DEF EnqueueItem
  <2>6. CASE AcknowledgeItem(d) \/ SkipItem(d)
    BY <1>7, <2>6 DEF AcknowledgeItem, SkipItem
  <2> QED
    BY <1>10, <2>1, <2>2, <2>3, <2>4, <2>5, <2>6 DEF ReconcileStep
<1>11. ASSUME NEW d \in Dispatcher, RelayStep(d) PROVE UNCHANGED recon
  BY <1>11 DEF RelayStep, RelayClaim, RelayLook, RelayEnqueue, RelayMark, RelayFails, RelayOnly
<1>12. ASSUME NEW d \in Dispatcher, DispatcherStops(d) PROVE ReconTypes' /\ ReconKnows'
  <2>1. recon' = recon \/ recon' = [recon EXCEPT ![d] = IdleRecon]
    BY <1>12 DEF DispatcherStops
  <2> QED
    BY <1>3, <1>4, <1>5, <2>1
<1>13. ASSUME StoreStep \/ QueueStep \/ (\E w \in Worker : WorkerStep(w)) \/ UNCHANGED systemVars
       PROVE  UNCHANGED recon
  <2>1. CASE \E w \in Worker : WorkerStep(w)
    BY <2>1 DEF WorkerStep, TakeJob, ClaimRun, Settle, SettleSuccess, SettleFailure,
         SettleRetry, SettleAborted, WorkerError, FinishJob, Crash, Exit, Vanish,
         StartShutdown, ReleaseActive, CancelJobs, dispatchVars
  <2>2. CASE StoreStep \/ QueueStep \/ UNCHANGED systemVars
    BY <2>2 DEF StoreStep, QueueStep, PromoteDelayed, StallCheck, RemoveFinishedJob,
         LoseLock, FlushQueue, QueueOnly, dispatchVars, systemVars
  <2> QED
    BY <1>13, <2>1, <2>2
<1> QED
  BY <1>3, <1>10, <1>11, <1>12, <1>13 DEF SystemNext

LEMMA ConfirmedStep ==
  ASSUME SystemInv, [SystemNext]_systemVars
  PROVE  PublishedMeansEnqueued'
<1>1. /\ TypeOK /\ PublishedMeansEnqueued /\ JobsKnown
      /\ \A r \in RunId : enqueued[r] => enqueued'[r]
  BY QueueKeeps DEF SystemInv, HistoryInv, QueueKept
<1> SUFFICES ASSUME NEW r \in RunId, outbox'[r].state = "published"
             PROVE  outbox[r].state = "published" \/ enqueued[r]
  BY <1>1 DEF PublishedMeansEnqueued
<1>2. outbox[r] \in Message
  BY <1>1 DEF TypeOK
<1>3. ASSUME NEW s \in RunId, NEW m \in OutboxState, SetMessage(s, m)
      PROVE  /\ s # r => outbox'[r] = outbox[r]
             /\ s = r => m = "published"
  BY <1>1, <1>2, <1>3 DEF SetMessage, TypeOK, Message
<1>4. ASSUME NEW s \in RunId, ReleaseMessage(s, outbox[s].token) \/ OutboxLeaseExpires(s)
      PROVE  outbox[r].state = "published"
  BY <1>3, <1>4 DEF ReleaseMessage, OutboxLeaseExpires, OutboxState
<1>5. CASE UNCHANGED storeVars
  BY <1>5
<1>6. ASSUME NEW w \in Worker, WorkerStep(w) PROVE outbox' = outbox
  BY <1>6, WorkerStorePart DEF Claim, Complete, ScheduleRetry, ReleaseClaim, Requeue
<1>7. ASSUME NEW d \in Dispatcher, RelayStep(d) \/ ReconcileStep(d) \/ DispatcherStops(d)
      PROVE  outbox[r].state = "published" \/ enqueued[r]
  <2>1. ASSUME NEW batch \in SUBSET RunId, ClaimOutbox(batch)
        PROVE  outbox[r].state = "published"
    BY <1>1, <2>1 DEF ClaimOutbox, TypeOK
  <2>2. ASSUME relay[d].at \in Claimed, ReleaseMessage(relay[d].at.run, relay[d].at.token)
        PROVE  outbox[r].state = "published"
    <3>1. relay[d].at.run \in RunId /\ relay[d].at.token = outbox[relay[d].at.run].token
      BY <2>2 DEF Claimed, ReleaseMessage, OwnsMessage
    <3> QED
      BY <1>4, <2>2, <3>1
  <2>3. ASSUME relay[d].phase = "marking", relay[d].at \in Claimed,
               MarkPublished(relay[d].at.run, relay[d].at.token)
        PROVE  outbox[r].state = "published" \/ enqueued[r]
    <3>1. relay[d].at.run \in RunId /\ enqueued[relay[d].at.run]
      BY <1>1, <2>3 DEF Claimed, JobsKnown
    <3> QED
      BY <1>3, <2>3, <3>1 DEF MarkPublished, OutboxState
  <2>4. ASSUME recon[d].phase = "acknowledging", recon[d].at \in Candidate,
               AcknowledgeOutbox(recon[d].at.run)
        PROVE  outbox[r].state = "published" \/ enqueued[r]
    <3>1. recon[d].at.run \in RunId /\ enqueued[recon[d].at.run]
      BY <1>1, <2>4 DEF Candidate, JobsKnown
    <3> QED
      BY <1>3, <2>4, <3>1 DEF AcknowledgeOutbox, OutboxState
  <2> QED
    BY <1>5, <1>7, <2>1, <2>2, <2>3, <2>4, DispatcherStorePart
<1>8. CASE StoreStep
  <2>1. ASSUME NEW a \in Api, NEW s \in RunId, InsertRun(a, s)
        PROVE  outbox[r].state = "published"
    BY <1>1, <2>1 DEF InsertRun, TypeOK
  <2>2. ASSUME NEW a \in Api, Accept(a), ~\E s \in RunId : InsertRun(a, s)
        PROVE  outbox' = outbox
    BY <2>2 DEF Accept, BeginAccept, BeginUnlimitedAccept, AnswerKnownKey,
                RejectBacklog, Admit, InsertConflict, AbortAccept
  <2>3. ASSUME NEW s \in RunId, DeleteRun(s)
        PROVE  outbox[r].state = "published"
    BY <1>1, <2>3 DEF DeleteRun, NoMessage, TypeOK
  <2>4. ASSUME \/ \E s \in RunId : Age(s)
               \/ \E e \in Endpoint : ProvisionEndpoint(e) \/ DisableEndpoint(e)
        PROVE  outbox' = outbox
    BY <2>4 DEF Age, ProvisionEndpoint, DisableEndpoint, SetEndpoint
  <2> QED
    BY <1>4, <1>8, <2>1, <2>2, <2>3, <2>4 DEF StoreStep
<1>9. CASE QueueStep \/ UNCHANGED systemVars
  BY <1>5, <1>9 DEF QueueStep, PromoteDelayed, StallCheck, RemoveFinishedJob, LoseLock,
       FlushQueue, QueueOnly, systemVars
<1> QED
  BY <1>6, <1>7, <1>8, <1>9 DEF SystemNext

-----------------------------------------------------------------------------
(* The invariant is inductive *)

LEMMA SystemInvInit == SystemInit => SystemInv
<1> SUFFICES ASSUME SystemInit PROVE SystemInv
  OBVIOUS
<1>1. Init /\ HistoryInv
  BY HistoryInit DEF SystemInit
<1>2. Len(<<>>) = 0 /\ MaxStalledCount \in Nat /\ FaultBound \in Nat
  BY EmptySeq, SystemAssumption
<1>3. TokensBounded /\ PublishedMeansEnqueued /\ PolicyOnRecord
  BY <1>1, <1>2, BoundAssumption DEF Init, TokensBounded, NoMessage, PublishedMeansEnqueued,
       PolicyOnRecord
<1>4. QueueTypes
  BY <1>2 DEF SystemInit, QueueTypes, NoJob, Job
<1>5. WorkerTypes /\ ClaimsAccounted /\ AttemptsApart
  BY DEF SystemInit, WorkerTypes, WorkerState, IdleWorker, ClaimsAccounted, AttemptsApart
<1>6. RelayTypes
  BY DEF SystemInit, RelayTypes, RelayState, IdleRelay
<1>7. ReconTypes
  BY DEF SystemInit, ReconTypes, ReconState, IdleRecon
<1>8. JobsKnown
  BY DEF SystemInit, JobsKnown, NoJob, IdleRelay, IdleRecon
<1> QED
  BY <1>1, <1>3, <1>4, <1>5, <1>6, <1>7, <1>8 DEF SystemInv

LEMMA SystemInvStep == SystemInv /\ [SystemNext]_systemVars => SystemInv'
<1> SUFFICES ASSUME SystemInv, [SystemNext]_systemVars PROVE SystemInv'
  OBVIOUS
<1>1. [Next]_storeVars /\ HistoryInv /\ TokensBounded /\ PolicyOnRecord
  BY StorePart DEF SystemInv
<1>2. HistoryInv' /\ TokensBounded'
  BY <1>1, HistoryStep, TokensStep
<1>3. PolicyOnRecord'
  <2>1. ASSUME NEW r \in RunId, NEW t \in Nat, ScheduleRetry(r, t)
        PROVE  t < MaximumAttempts
    <3>1. status[r] = "running" /\ status'[r] = "queued" /\ claim[r] = t
          /\ events'[r] # events[r]
      BY <1>1, <2>1 DEF ScheduleRetry, Requeue, HoldsClaim, HistoryInv, TypeOK
    <3>2. PICK w \in Worker : WorkerStep(w)
      BY <3>1, OnlyWorkersSettle
    <3>3. PICK u, n :
            /\ u \in RunId /\ u = worker[w].run /\ n = worker[w].token
            /\ \/ Claim(u) \/ ReleaseClaim(u, n) \/ \E o \in Outcome : Complete(u, n, o)
               \/ ScheduleRetry(u, n) /\ RetryAllowed(n)
      BY <3>1, <3>2, WorkerStorePart
    <3>4. u = r
      <4> SUFFICES ASSUME u # r PROVE FALSE
        OBVIOUS
      <4> QED
        BY <1>1, <3>1, <3>3 DEF Claim, Complete, ScheduleRetry, ReleaseClaim, Requeue,
             HistoryInv, TypeOK
    <3>5. ScheduleRetry(r, n) /\ RetryAllowed(n)
      BY <1>1, <3>1, <3>3, <3>4 DEF Claim, ReleaseClaim, Complete, HistoryInv, TypeOK
    <3> QED
      BY <3>1, <3>5 DEF ScheduleRetry, Requeue, HoldsClaim, RetryAllowed
  <2> QED
    BY <1>1, <2>1, PolicyStep
<1>4. QueueTypes'
  BY FaultsStep, QueueKeeps DEF QueueKept, QueueTypes
<1>5. WorkerTypes'
  <2>1. CASE \E w \in Worker : WorkerStep(w)
    BY <2>1, WorkerPart
  <2>2. CASE ~\E w \in Worker : WorkerStep(w)
    BY <2>2, OnlyWorkersSettle DEF workerVars, SystemInv, WorkerTypes
  <2> QED
    BY <2>1, <2>2
<1>6. JobsKnown'
  BY QueueKeeps, RelayKeeps, ReconKeeps DEF QueueKept, RelayKnows, ReconKnows, InspectedKnow,
       JobsKnown
<1> QED
  BY <1>2, <1>3, <1>4, <1>5, <1>6, HoldersStep, RelayKeeps, ReconKeeps, ConfirmedStep
     DEF SystemInv

-----------------------------------------------------------------------------
(* What follows *)

LEMMA SystemInvImplies == SystemInv => SystemConsistent
<1> SUFFICES ASSUME SystemInv PROVE SystemConsistent
  OBVIOUS
<1>1. SystemTypeOK
  BY DEF SystemInv, HistoryInv, SystemTypeOK, QueueTypes, WorkerTypes, RelayTypes, ReconTypes
<1>2. OvertakenIsAbandoned
  BY DEF SystemInv, ClaimsAccounted, Settleable, OvertakenIsAbandoned
<1>3. RetriesWithinPolicy
  BY RetriesFollowPolicy DEF SystemInv
<1> QED
  BY <1>1, <1>2, <1>3 DEF SystemInv, SystemConsistent

\* The queue, the workers and the two loops, at every moment: a worker that
\* lost its run is on record as having lost it, no confirmed message lacks its
\* job, and retries stay within the policy (worker.ts, dispatcher.ts,
\* recovery/index.ts around store/postgres.ts).
THEOREM SystemStaysConsistent == SystemSpec => []SystemConsistent
<1> QED
  BY SystemInvInit, SystemInvStep, SystemInvImplies, PTL DEF SystemSpec

\* Whatever queue, workers, relays and reconcilers do, crashing anywhere, the
\* store sees only what its own specification allows: everything proved of the
\* store holds in the system.
THEOREM SystemUsesStore == SystemSpec => Spec
<1>1. SystemInit => Init
  BY DEF SystemInit
<1> QED
  BY <1>1, SystemInvInit, SystemInvStep, StorePart, PTL DEF SystemSpec, Spec

\* In particular, in the system too an idempotency key owns one run, what a
\* caller was answered stays true, backlogs stay within their limits and
\* deliveries follow outcomes.
THEOREM SystemKeepsPromises ==
  SystemSpec => [](OneRunPerKey /\ PromiseKept /\ BacklogBounded /\ DeliveriesFollowOutcome)
<1> QED
  BY SystemUsesStore, KeyOwnsOneRun, AcceptCorrect, BacklogStaysBounded, DeliveriesCorrect, PTL

\* So the whole system implements the lifecycle its callers were promised.
THEOREM SystemImplementsLifecycle == SystemSpec => ImplementsLifecycle
<1> QED
  BY SystemUsesStore, StoreImplementsLifecycle

\* An attempt is recorded as succeeded or failed only by the worker that
\* executed it, which then executes it no more (the claim token in
\* store/postgres.ts complete and scheduleRetry).
THEOREM OnlyOwnAttemptIsSettled == SystemSpec => OnlyOwnAttempt
<1>1. ASSUME SystemInv, [SystemNext]_systemVars, NEW r \in RunId, NEW n \in 1..Len(attempts[r]),
             attempts[r][n] = "running", n <= Len(attempts'[r]),
             attempts'[r][n] \in {"succeeded", "failed"}
      PROVE  \E w \in Worker : /\ worker[w] = [phase |-> "running", run |-> r, token |-> n]
                               /\ worker'[w].phase # "running"
  <2>1. TypeOK /\ RunHistory(r) /\ attempts[r] \in Seq(AttemptStatus) /\ Len(attempts[r]) \in Nat
    BY <1>1, LenProperties DEF SystemInv, HistoryInv, TypeOK
  <2>2. n = claim[r] /\ AttemptIsCurrent(r)
    BY <1>1, <2>1 DEF RunHistory
  <2>3. attempts'[r] # attempts[r] /\ attempts'[r] # <<>>
    BY <1>1, EmptySeq
  <2>4. PICK w \in Worker : WorkerStep(w)
    BY <1>1, <2>3, OnlyWorkersSettle
  <2>5. WorkerTypes
    BY <1>1 DEF SystemInv
  <2>6. ASSUME NEW p \in {"finishing", "failing", "delaying"}, SetWorker(w, p)
        PROVE  worker'[w].phase # "running"
    BY <2>5, <2>6 DEF SetWorker, WorkerTypes, WorkerState
  <2>7. PICK u, t :
          /\ u \in RunId /\ u = worker[w].run /\ t = worker[w].token
          /\ \/ Claim(u)
             \/ ReleaseClaim(u, t)
             \/ /\ worker[w].phase = "running" /\ worker'[w].phase # "running"
                /\ (\E o \in Outcome : Complete(u, t, o)) \/ ScheduleRetry(u, t)
    BY <1>1, <2>3, <2>4, <2>6, WorkerStorePart
  <2>8. u = r
    BY <2>1, <2>3, <2>7 DEF Claim, Complete, ScheduleRetry, ReleaseClaim, Requeue, TypeOK
  <2>9. CASE ReleaseClaim(u, t)
    <3>1. attempts'[r] = EndAttempt(r, "abandoned")
      BY <2>1, <2>8, <2>9 DEF ReleaseClaim, Requeue, TypeOK
    <3>2. attempts'[r][n] = "abandoned"
      BY <1>1, <2>1, <2>2, <3>1, EndAttemptProperties DEF AttemptStatus
    <3> QED
      BY <1>1, <3>2
  <2>10. CASE Claim(u)
    <3>1. attempts' = [attempts EXCEPT ![r] = Append(EndAttempt(r, "abandoned"), "running")]
      BY <2>1, <2>2, <2>8, <2>10 DEF Claim, RunHistory, AttemptIsCurrent
    <3>2. EndAttempt(r, "abandoned") \in Seq(AttemptStatus)
          /\ Len(EndAttempt(r, "abandoned")) = Len(attempts[r])
          /\ EndAttempt(r, "abandoned")[n] = "abandoned"
      BY <1>1, <2>1, <2>2, EndAttemptProperties DEF AttemptStatus
    <3>3. attempts'[r] = Append(EndAttempt(r, "abandoned"), "running")
      BY <2>1, <3>1 DEF TypeOK
    <3>4. attempts'[r][n] = "abandoned"
      BY <1>1, <3>2, <3>3, AppendProperties DEF AttemptStatus
    <3> QED
      BY <1>1, <3>4
  <2>11. CASE /\ worker[w].phase = "running" /\ worker'[w].phase # "running"
              /\ (\E o \in Outcome : Complete(u, t, o)) \/ ScheduleRetry(u, t)
    <3>1. t = n
      BY <2>2, <2>8, <2>11 DEF Complete, ScheduleRetry, Requeue, HoldsClaim
    <3>2. worker[w] = [phase |-> "running", run |-> r, token |-> n]
      BY <2>5, <2>7, <2>8, <2>11, <3>1 DEF WorkerTypes, WorkerState
    <3> QED
      BY <2>11, <3>2
  <2> QED
    BY <2>7, <2>9, <2>10, <2>11
<1>2. SystemInv /\ [SystemNext]_systemVars =>
        [\A r \in RunId : \A n \in 1..Len(attempts[r]) :
           attempts[r][n] = "running" /\ n <= Len(attempts'[r])
             /\ attempts'[r][n] \in {"succeeded", "failed"}
           => \E w \in Worker :
                /\ worker[w] = [phase |-> "running", run |-> r, token |-> n]
                /\ worker'[w].phase # "running"]_systemVars
  BY <1>1
<1> QED
  BY <1>2, SystemInvInit, SystemInvStep, PTL DEF SystemSpec, OnlyOwnAttempt
=============================================================================
