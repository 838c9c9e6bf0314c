------------------------ MODULE AgentTurnSystemProofs ------------------------
(***************************************************************************)
(* What holds of the agent workers and the tool ledger for any number of   *)
(* turns, attempts and calls and any limits: a process that costs money    *)
(* runs at most once for a call, the conversation's budget is kept, and    *)
(* turns, attempts and ledger tell one story.                              *)
(*                                                                         *)
(* Every step is a step of the conversation store or writes one row of the *)
(* ledger.  The store's invariant is kept by both; what is added says what *)
(* a row knows of the process that was invoked for it, and that at most    *)
(* one attempt is between invoking a priced process and recording its      *)
(* result.                                                                 *)
(*                                                                         *)
(* After it, what callers see: a reader of a conversation's pages, and the *)
(* service over its in-memory adapters; then all scenes together.          *)
(***************************************************************************)
EXTENDS MCAgentTurnSystem, AgentConversationStoreProofs, WellFoundedInduction

-----------------------------------------------------------------------------
(* The inductive invariant *)

Gone(t) == turn[t].status = "deleted"

\* OutcomeIsLastAttempts, with what turns that are not over have behind them.
Told(t) ==
  LET last == Len(attempts[t]) IN
  /\ \A i \in 1..last : i < last => attempts[t][i] = "abandoned"
  /\ turn[t].status = "absent" => last = 0
  /\ turn[t].status = "queued" => \A i \in 1..last : attempts[t][i] = "abandoned"
  /\ turn[t].status = "succeeded" => last > 0 /\ attempts[t][last] = "succeeded"
  /\ turn[t].status = "failed" =>
       \/ last > 0 /\ attempts[t][last] = "failed"
       \/ ~Live(turn[t].conversation) /\ turn[t].error = "INTERNAL_ERROR"

WorkRow ==
  [phase : {"none", "thinking", "prepared", "calling", "recording", "done"},
   ordinal : {0} \cup Ordinal, call : ToolCall \cup {None},
   result : Result \cup {None}, sawCommit : BOOLEAN, aborted : BOOLEAN]

LedgerTypes ==
  /\ work \in [TurnId -> [Attempt -> WorkRow]]
  /\ starts \in [TurnId -> [Ordinal -> 0..AttemptBound]]
  /\ reported \in [TurnId -> [Ordinal -> Result \cup {None}]]
  /\ faults \in 0..FaultBound

\* A row, how often its priced process was invoked, and what it last answered.
RowOK(row, gone, count, answer) ==
  /\ (row.token # 0) <=> (row.status = "executing")
  /\ row.afterCommit => row.status \in {"failed", "uncertain"}
  /\ row.status = "absent" => row = NoInvocation
  /\ gone => row = NoInvocation
  /\ count <= 1
  /\ ~gone /\ count > 0 => row.effect = "priced" /\ row.status \notin {"absent", "prepared"}
  /\ count > 0 /\ row.effect = "priced" =>
       /\ row.status = "failed" /\ ~row.afterCommit => answer = "failed"
       /\ row.status = "succeeded" => answer = "succeeded"

\* An attempt in the middle of a call, and that call's row.
InCall == {"prepared", "calling", "recording"}
Charging(w) == w.phase \in {"calling", "recording"} /\ w.call.effect = "priced"
CallOK(w, row, gone, count, answer) ==
  /\ w.call \in ToolCall
  /\ gone \/ (row.status # "absent" /\ row.effect = w.call.effect)
  /\ Charging(w) =>
       /\ count = 1
       /\ w.phase = "calling" => gone \/ row.status \in {"executing", "uncertain"}
       /\ w.phase = "recording" => answer = w.result /\ w.result \in Result

RowsOK == \A t \in TurnId, n \in Ordinal :
            RowOK(invocation[t][n], Gone(t), starts[t][n], reported[t][n])
AbsentTurns == \A t \in TurnId : turn[t].status = "absent" =>
                 \A n \in Ordinal : invocation[t][n].status = "absent"
CallsOK ==
  \A t \in TurnId, a \in Attempt : work[t][a].phase \in InCall =>
    LET n == work[t][a].ordinal IN
    /\ n \in Ordinal
    /\ CallOK(work[t][a], invocation[t][n], Gone(t), starts[t][n], reported[t][n])

\* One attempt at most is to record the result of a priced call.
OneCharges ==
  \A t \in TurnId : \A a, b \in Attempt :
    Charging(work[t][a]) /\ Charging(work[t][b])
      /\ work[t][a].ordinal = work[t][b].ordinal => a = b

\* The priced calls a conversation's budget has been used for.
PricedRows(c) ==
  {p \in TurnsOf(c) \X Ordinal :
     invocation[p[1]][p[2]].status # "absent" /\ invocation[p[1]][p[2]].effect = "priced"}
BudgetKept ==
  \A c \in ConversationId :
    IsFiniteSet(PricedRows(c)) /\ Cardinality(PricedRows(c)) <= PricedPerConversation

LedgerInv == LedgerTypes /\ RowsOK /\ AbsentTurns /\ CallsOK /\ OneCharges /\ BudgetKept
SystemInv == StoreInv /\ (\A t \in TurnId : Told(t)) /\ LedgerInv

USE DEF conversationVars, turnVars, tables, storeVars

-----------------------------------------------------------------------------
(* What a step of the store does to a turn, its attempts and its rows      *)

Kept(t) == turn'[t] = turn[t] /\ attempts'[t] = attempts[t] /\ invocation'[t] = invocation[t]

FencedOn(t) ==
  /\ turn[t].status \in InUse
  /\ turn'[t] = IF Pending(t) THEN FailedByFence(t) ELSE turn[t]
  /\ attempts'[t] = AbandonRunning(attempts[t])
  /\ invocation'[t] = [n \in Ordinal |-> FencedInvocation(invocation[t][n])]
  /\ ~Live(turn[t].conversation)'

PurgedOn(t) ==
  /\ turn'[t] = [NoTurn EXCEPT !.status = "deleted"] /\ attempts'[t] = <<>>
  /\ invocation'[t] = [n \in Ordinal |-> NoInvocation]

InsertedOn(t) ==
  /\ turn[t].status = "absent" /\ turn'[t].status = "queued"
  /\ attempts'[t] = attempts[t] /\ invocation'[t] = invocation[t]

StartedOn(t) ==
  /\ turn[t].status \in PendingStatus /\ turn'[t].status = "running"
  /\ turn'[t].conversation = turn[t].conversation
  /\ attempts'[t] = Append(WithoutClaim(t), "running") /\ invocation'[t] = invocation[t]

EndedOn(t) ==
  \E st \in {"queued"} \cup TerminalStatus :
    /\ turn[t].status = "running" /\ turn'[t].status = st
    /\ turn'[t].conversation = turn[t].conversation
    /\ attempts'[t] = [attempts[t] EXCEPT ![turn[t].claim] =
                         IF st = "queued" THEN "abandoned" ELSE st]
    /\ invocation'[t] = invocation[t]

StepOn(t) ==
  Kept(t) \/ FencedOn(t) \/ PurgedOn(t) \/ InsertedOn(t) \/ StartedOn(t) \/ EndedOn(t)

LEMMA FenceOn ==
  ASSUME TableInv, NEW c \in ConversationId, Live(c), NEW st \in FencedStatus, Fence(c, st)
  PROVE  \A t \in TurnId : StepOn(t)
<1> SUFFICES ASSUME NEW t \in TurnId PROVE StepOn(t)
  OBVIOUS
<1>1. /\ turn'[t] = IF t \in TurnsOf(c) /\ Pending(t) THEN FailedByFence(t) ELSE turn[t]
      /\ conversation'[c].status = st
  BY FenceEffect
<1>2. TableTypes /\ TurnsHaveHomes /\ turn[t] \in TurnRow
  BY DEF TableInv, TableTypes
<1>3. CASE t \in TurnsOf(c)
  <2>1. turn[t].conversation = c /\ turn[t].status \in InUse
    BY <1>2, <1>3, NoneAssumption DEF TurnsOf, TurnsHaveHomes, TurnRow, InUse
  <2>2. ~Live(turn[t].conversation)'
    <3>1. turn'[t].conversation = c
      BY <1>1, <1>2, <2>1 DEF FailedByFence, TurnRow
    <3> QED
      BY <1>1, <3>1 DEF Live, LiveStatus, FencedStatus
  <2>3. attempts'[t] = AbandonRunning(attempts[t])
    BY <1>3 DEF Fence
  <2>4. invocation'[t] = [n \in Ordinal |-> FencedInvocation(invocation[t][n])]
    BY <1>3 DEF Fence
  <2> QED
    BY <1>1, <1>3, <2>1, <2>2, <2>3, <2>4 DEF StepOn, FencedOn
<1>4. CASE t \notin TurnsOf(c)
  BY <1>1, <1>4 DEF Fence, StepOn, Kept
<1> QED
  BY <1>3, <1>4

LEMMA PurgeOn ==
  ASSUME NEW c, Purge(c)
  PROVE  \A t \in TurnId : StepOn(t)
<1> SUFFICES ASSUME NEW t \in TurnId PROVE StepOn(t)
  OBVIOUS
<1>1. CASE t \in TurnsOf(c)
  BY <1>1 DEF Purge, StepOn, PurgedOn
<1>2. CASE t \notin TurnsOf(c)
  BY <1>2 DEF Purge, StepOn, Kept
<1> QED
  BY <1>1, <1>2

LEMMA InsertOn ==
  ASSUME TableInv, NEW s, NEW u \in TurnId, NEW c, NEW n, InsertTurn(s, u, c, n)
  PROVE  \A t \in TurnId : StepOn(t)
<1> SUFFICES ASSUME NEW t \in TurnId PROVE StepOn(t)
  OBVIOUS
<1>1. turn \in [TurnId -> TurnRow]
  BY DEF TableInv, TableTypes
<1>2. CASE t = u
  BY <1>1, <1>2 DEF InsertTurn, NoTurn, StepOn, InsertedOn
<1>3. CASE t # u
  BY <1>1, <1>3 DEF InsertTurn, StepOn, Kept
<1> QED
  BY <1>2, <1>3

LEMMA AttemptOn ==
  ASSUME TableInv, NEW u \in TurnId, NEW token,
         \/ StartAttempt(u) \/ GiveBack(u, token)
         \/ \E st \in TerminalStatus : \E error : Finish(u, token, st, error)
  PROVE  \A t \in TurnId : StepOn(t)
<1> SUFFICES ASSUME NEW t \in TurnId PROVE StepOn(t)
  OBVIOUS
<1>1. turn \in [TurnId -> TurnRow] /\ attempts \in [TurnId -> Seq(AttemptStatus)]
      /\ turn[u] \in TurnRow
  BY DEF TableInv, TableTypes
<1>2. CASE t # u
  BY <1>1, <1>2 DEF StartAttempt, GiveBack, Finish, SetAttempt, StepOn, Kept
<1>3. CASE t = u /\ StartAttempt(u)
  <2>1. turn'[t].status = "running" /\ turn'[t].conversation = turn[t].conversation
        /\ turn[t].status \in PendingStatus
    BY <1>1, <1>3 DEF StartAttempt, Claimable, PendingStatus, TurnRow
  <2>2. attempts'[t] = Append(WithoutClaim(t), "running") /\ invocation'[t] = invocation[t]
    BY <1>1, <1>3 DEF StartAttempt
  <2> QED
    BY <2>1, <2>2 DEF StepOn, StartedOn
<1>4. CASE t = u /\ GiveBack(u, token)
  <2>1. turn'[t].status = "queued" /\ turn'[t].conversation = turn[t].conversation
        /\ turn[t].status = "running" /\ turn[t].claim = token
    BY <1>1, <1>4 DEF GiveBack, HoldsClaim, TurnRow
  <2>2. attempts'[t] = [attempts[t] EXCEPT ![token] = "abandoned"]
        /\ invocation'[t] = invocation[t]
    BY <1>1, <1>4 DEF GiveBack, SetAttempt
  <2> QED
    BY <2>1, <2>2 DEF StepOn, EndedOn
<1>5. ASSUME t = u, NEW st \in TerminalStatus, NEW error, Finish(u, token, st, error)
      PROVE  StepOn(t)
  <2>1. turn'[t].status = st /\ turn'[t].conversation = turn[t].conversation
        /\ turn[t].status = "running" /\ turn[t].claim = token
    BY <1>1, <1>5 DEF Finish, HoldsClaim, TurnRow
  <2>2. attempts'[t] = [attempts[t] EXCEPT ![token] = st] /\ invocation'[t] = invocation[t]
        /\ st # "queued"
    BY <1>1, <1>5 DEF Finish, SetAttempt, TerminalStatus
  <2> QED
    BY <2>1, <2>2 DEF StepOn, EndedOn
<1> QED
  BY <1>2, <1>3, <1>4, <1>5

LEMMA StoreOn ==
  ASSUME StoreInv, [Next]_storeVars
  PROVE  \A t \in TurnId : StepOn(t)
<1> DEFINE Goal == \A t \in TurnId : StepOn(t)
<1>1. TableInv /\ TableTypes /\ TurnsHaveHomes /\ OperationsLead /\ SessionTypes
  BY DEF StoreInv, TableInv, SessionInv
<1>2. ASSUME NEW c \in ConversationId, ExpireIfDue(c) PROVE Goal
  BY <1>1, <1>2, FenceOn DEF ExpireIfDue, FencedStatus
<1>3. ASSUME UNCHANGED <<turn, attempts, invocation>> PROVE Goal
  BY <1>3 DEF StepOn, Kept
<1>4. CASE \E s \in Session : AnswerKnownKey(s)
  <2>1. PICK s \in Session : AnswerKnownKey(s)
    BY <1>4
  <2> DEFINE known == operation[session[s].request.key]
  <2>2. session[s].phase # "idle" /\ known # NoOperation
        /\ (UNCHANGED tables \/ ExpireIfDue(turn[known.turn].conversation))
    BY <2>1 DEF AnswerKnownKey
  <2>3. session[s].request.key \in Key
    BY <1>1, <2>2, SessionTyped DEF KeyOf
  <2>4. turn[known.turn].conversation \in ConversationId
    <3>1. known.turn \in TurnId /\ turn[known.turn].status \in PendingStatus \cup TerminalStatus
      BY <1>1, <2>2, <2>3 DEF TableTypes, OperationsLead
    <3> QED
      BY <1>1, <3>1 DEF TurnsHaveHomes
  <2> QED
    BY <1>2, <1>3, <2>2, <2>4
<1>5. CASE \E s \in Session : LockConversation(s)
  <2>1. PICK s \in Session : LockConversation(s)
    BY <1>5
  <2>2. session[s].phase # "idle" /\ RowOf(s) # None
        /\ (UNCHANGED tables \/ ExpireIfDue(RowOf(s)))
    BY <2>1 DEF LockConversation, RowOf
  <2>3. RowOf(s) \in ConversationId
    BY <1>1, <2>2, SessionTyped
  <2> QED
    BY <1>2, <1>3, <2>2, <2>3
<1>6. CASE \E s \in Session, t \in TurnId :
             ContinueConversation(s, t) \/ \E c \in ConversationId : OpenConversation(s, c, t)
  <2>1. PICK s \in Session, t \in TurnId :
          ContinueConversation(s, t) \/ \E c \in ConversationId : OpenConversation(s, c, t)
    BY <1>6
  <2>2. \E c, n : InsertTurn(s, t, c, n)
    BY <2>1 DEF ContinueConversation, OpenConversation
  <2> QED
    BY <1>1, <2>2, InsertOn
<1>7. CASE \E c \in ConversationId : Read(c) \/ Delete(c) \/ CleanUp(c)
  <2>1. PICK c \in ConversationId : Read(c) \/ Delete(c) \/ CleanUp(c)
    BY <1>7
  <2>2. CASE Live(c) /\ Fence(c, "deleting")
    BY <1>1, <2>2, FenceOn DEF FencedStatus
  <2>3. CASE Purge(c)
    BY <2>3, PurgeOn
  <2> QED
    BY <1>2, <2>1, <2>2, <2>3 DEF Read, Delete, CleanUp
<1>8. ASSUME NEW t \in TurnId, NEW token,
             \/ WithTurn(t, StartAttempt(t)) \/ WithTurn(t, GiveBack(t, token))
             \/ \E st \in TerminalStatus : \E error : WithTurn(t, Finish(t, token, st, error))
      PROVE  Goal
  <2>1. turn[t].conversation \in ConversationId
    BY <1>1, <1>8 DEF WithTurn, TableTypes, TurnRow
  <2>2. \/ ExpireIfDue(turn[t].conversation)
        \/ StartAttempt(t) \/ GiveBack(t, token)
        \/ \E st \in TerminalStatus : \E error : Finish(t, token, st, error)
    BY <1>8 DEF WithTurn
  <2> QED
    BY <1>1, <1>2, <2>1, <2>2, AttemptOn
<1>9. CASE WorkerCall
  <2>1. PICK t \in TurnId :
          \/ Claim(t)
          \/ \E token \in 1..AttemptBound :
               \/ ReleaseClaim(t, token)
               \/ \E st \in TerminalStatus : \E error : CompleteClaim(t, token, st, error)
    BY <1>9 DEF WorkerCall, TerminalStatus
  <2> QED
    BY <1>8, <2>1 DEF Claim, ReleaseClaim, CompleteClaim
<1>10. CASE \/ \E s \in Session : Admit(s) \/ \E q \in Request : Start(s, q)
            \/ Passing \/ UNCHANGED storeVars
  BY <1>3, <1>10 DEF Admit, Start, Passing, DeadlinePasses, LeaseEnds
<1> QED
  BY <1>4, <1>5, <1>6, <1>7, <1>9, <1>10 DEF Next, ApiStep

LEMMA FencedForGood ==
  ASSUME StoreInv, [Next]_storeVars, NEW c \in ConversationId,
         conversation[c].status \in FencedStatus
  PROVE  ~Live(c)'
<1>1. conversation'[c].status \in FencedStatus \cup {"deleted"}
  BY StepIsOwn DEF Own
<1> QED
  BY <1>1 DEF Live, LiveStatus, FencedStatus

\* The last attempt of a turn tells its outcome.
LEMMA ToldStep ==
  ASSUME StoreInv, \A t \in TurnId : Told(t), [Next]_storeVars, NEW t \in TurnId
  PROVE  Told(t)'
<1> DEFINE seq == attempts[t]  last == Len(seq)
<1>1. /\ turn[t] \in TurnRow /\ seq \in Seq(AttemptStatus) /\ Fits(turn[t], seq)
      /\ TurnsHaveHomes
  BY DEF StoreInv, TableInv, TableTypes, AttemptsFit
<1>2. last \in Nat /\ \A i \in 1..last : seq[i] \in AttemptStatus
  BY <1>1, LenProperties
<1>3. StepOn(t) /\ Told(t)
  BY StoreOn
<1>4. /\ \A i \in 1..last : i < last => seq[i] = "abandoned"
      /\ turn[t].status = "absent" => last = 0
      /\ turn[t].status = "queued" => \A i \in 1..last : seq[i] = "abandoned"
      /\ turn[t].status = "succeeded" => last > 0 /\ seq[last] = "succeeded"
      /\ turn[t].status = "failed" =>
           \/ last > 0 /\ seq[last] = "failed"
           \/ ~Live(turn[t].conversation) /\ turn[t].error = "INTERNAL_ERROR"
  BY <1>3 DEF Told
<1> HIDE DEF last, seq
<1>5. CASE Kept(t)
  <2>1. turn'[t] = turn[t] /\ attempts'[t] = seq
    BY <1>5 DEF Kept, seq
  <2>2. turn[t].status = "failed" /\ ~Live(turn[t].conversation) => ~Live(turn[t].conversation)'
    <3> SUFFICES ASSUME turn[t].status = "failed", ~Live(turn[t].conversation)
                 PROVE  ~Live(turn[t].conversation)'
      OBVIOUS
    <3>1. PICK c \in ConversationId : c = turn[t].conversation
      BY <1>1 DEF TurnsHaveHomes, TerminalStatus
    <3>2. conversation[c].status \in FencedStatus
      BY <1>1, <3>1 DEF TurnsHaveHomes, TerminalStatus, Live
    <3>3. ~Live(c)'
      BY <3>2, FencedForGood
    <3>4. turn'[t].conversation = c
      BY <2>1, <3>1
    <3> QED
      BY <3>1, <3>3, <3>4 DEF Live
  <2> QED
    BY <1>4, <2>1, <2>2 DEF Told, last, Live
<1>6. CASE FencedOn(t)
  <2>1. /\ attempts'[t] \in Seq(AttemptStatus) /\ Len(attempts'[t]) = last
        /\ \A i \in 1..last : attempts'[t][i] =
             IF seq[i] = "running" THEN "abandoned" ELSE seq[i]
    BY <1>1, <1>6, AbandonKeeps DEF FencedOn, seq, last
  <2>2. CASE Pending(t)
    <3>1. turn'[t].status = "failed" /\ turn'[t].error = "INTERNAL_ERROR"
          /\ turn'[t].conversation = turn[t].conversation
      BY <1>1, <1>6, <2>2 DEF FencedOn, FailedByFence, TurnRow
    <3>2. ~Live(turn[t].conversation)'
      BY <1>6, <3>1 DEF FencedOn, Live
    <3> QED
      BY <1>2, <1>4, <2>1, <3>1, <3>2 DEF Told
  <2>3. CASE ~Pending(t)
    <3>1. turn'[t] = turn[t] /\ turn[t].status \in TerminalStatus
      BY <1>6, <2>3 DEF FencedOn, InUse, Pending
    <3>2. ~Live(turn[t].conversation)'
      BY <1>6, <3>1 DEF FencedOn, Live
    <3>3. last > 0 => last \in 1..last
      BY <1>2
    <3> QED
      BY <1>2, <1>4, <2>1, <3>1, <3>2, <3>3 DEF Told, TerminalStatus
  <2> QED
    BY <2>2, <2>3
<1>7. CASE PurgedOn(t)
  <2>1. turn'[t].status = "deleted" /\ Len(attempts'[t]) = 0
    BY <1>7 DEF PurgedOn, NoTurn
  <2> QED
    BY <2>1 DEF Told
<1>8. CASE InsertedOn(t)
  <2>1. turn'[t].status = "queued" /\ attempts'[t] = seq /\ last = 0
    BY <1>4, <1>8 DEF InsertedOn, seq
  <2> QED
    BY <2>1 DEF Told, last
<1>9. CASE StartedOn(t)
  <2> DEFINE before == WithoutClaim(t)
  <2>1. before \in Seq(AttemptStatus) /\ Len(before) = last
        /\ \A i \in 1..last : before[i] = "abandoned"
    <3>1. CASE turn[t].status = "running"
      <4>1. turn[t].claim \in 1..last /\ turn[t].claim = last
            /\ before = [seq EXCEPT ![turn[t].claim] = "abandoned"]
        BY <1>1, <1>2, <3>1 DEF WithoutClaim, Fits, seq, last
      <4>2. "abandoned" \in AttemptStatus
        BY DEF AttemptStatus
      <4> HIDE DEF before
      <4>3. before \in Seq(AttemptStatus) /\ Len(before) = Len(seq)
            /\ \A i \in 1..Len(seq) : before[i] = IF i = turn[t].claim THEN "abandoned" ELSE seq[i]
        BY <1>1, <4>1, <4>2, RewriteAttempt DEF last
      <4>4. \A i \in 1..last : i # last => i < last
        BY <1>2
      <4> QED
        BY <1>4, <4>1, <4>3, <4>4 DEF last
    <3>2. CASE turn[t].status # "running"
      <4>1. turn[t].status = "queued" /\ before = seq
        BY <1>9, <3>2 DEF StartedOn, PendingStatus, WithoutClaim, seq
      <4> QED
        BY <1>1, <1>4, <4>1 DEF last
    <3> QED
      BY <3>1, <3>2
  <2>2. turn'[t].status = "running" /\ attempts'[t] = Append(before, "running")
    BY <1>9 DEF StartedOn
  <2> HIDE DEF before
  <2>3. Len(attempts'[t]) = last + 1 /\ \A i \in 1..last : attempts'[t][i] = "abandoned"
    <3>1. "running" \in AttemptStatus
      BY DEF AttemptStatus
    <3> QED
      BY <2>1, <2>2, <3>1, AppendProperties
  <2>4. \A i \in 1..(last + 1) : i < last + 1 => i \in 1..last
    BY <1>2
  <2> QED
    BY <2>2, <2>3, <2>4 DEF Told
<1>10. CASE EndedOn(t)
  <2>1. PICK st \in {"queued"} \cup TerminalStatus :
          /\ turn[t].status = "running" /\ turn'[t].status = st
          /\ attempts'[t] = [attempts[t] EXCEPT ![turn[t].claim] =
                               IF st = "queued" THEN "abandoned" ELSE st]
    BY <1>10 DEF EndedOn
  <2>2. turn[t].claim = last /\ last > 0 /\ last \in 1..last
    BY <1>1, <1>2, <2>1 DEF Fits, last, seq
  <2>3. PICK now \in AttemptStatus : now = IF st = "queued" THEN "abandoned" ELSE st
    BY DEF AttemptStatus, TerminalStatus
  <2>4. attempts'[t] = [seq EXCEPT ![last] = now]
    BY <2>1, <2>2, <2>3 DEF seq
  <2>5. Len(attempts'[t]) = last
        /\ \A i \in 1..last : attempts'[t][i] = IF i = last THEN now ELSE seq[i]
    BY <1>1, <2>2, <2>4, RewriteAttempt DEF last
  <2>6. /\ \A i \in 1..last : i < last => i # last
        /\ \A i \in 1..last : i # last => i < last
    BY <1>2
  <2> QED
    BY <1>4, <2>1, <2>2, <2>3, <2>5, <2>6 DEF Told, TerminalStatus
<1> QED
  BY <1>3, <1>5, <1>6, <1>7, <1>8, <1>9, <1>10 DEF StepOn

-----------------------------------------------------------------------------
(* The ledger and the steps of the store                                   *)

LEMMA FencedRow ==
  ASSUME NEW row \in InvocationRow
  PROVE  /\ FencedInvocation(row).effect = row.effect
         /\ FencedInvocation(row).status = "absent" <=> row.status = "absent"
         /\ row.status \in {"executing", "uncertain"} /\ row.effect = "priced" =>
              FencedInvocation(row).status \in {"executing", "uncertain"}
         /\ \A count \in Nat : \A answer : RowOK(row, FALSE, count, answer) =>
              RowOK(FencedInvocation(row), FALSE, count, answer)
<1> DEFINE r == FencedInvocation(row)
<1>1. CASE row.status \notin {"prepared", "executing"}
  BY <1>1 DEF FencedInvocation
<1>2. CASE row.status \in {"prepared", "executing"}
  <2>1. PICK st, paid : paid = MaybeCharged(row)
                           /\ st = (IF MaybeCharged(row) THEN "uncertain" ELSE "failed")
    OBVIOUS
  <2>2. r = [row EXCEPT !.status = st, !.token = 0, !.afterCommit = paid]
    BY <1>2, <2>1 DEF FencedInvocation
  <2>3. r.status = st /\ r.token = 0 /\ r.afterCommit = paid /\ r.effect = row.effect
    BY <2>2 DEF InvocationRow
  <2> HIDE DEF r
  <2>4. /\ row.status = "executing" /\ row.effect = "priced" => st = "uncertain" /\ paid
        /\ ~(row.status = "executing" /\ row.effect = "priced") => st = "failed" /\ ~paid
    BY <2>1 DEF MaybeCharged
  <2>5. \A count \in Nat : \A answer : RowOK(row, FALSE, count, answer) =>
          RowOK(r, FALSE, count, answer)
    BY <1>2, <2>3, <2>4 DEF RowOK
  <2> QED
    BY <1>2, <2>3, <2>4, <2>5 DEF r
<1> QED
  BY <1>1, <1>2

\* To the ledger, a step of the store leaves a turn's rows, fences or drops them.
RowsOn(t) ==
  \/ (Gone(t)' <=> Gone(t)) /\ invocation'[t] = invocation[t]
  \/ /\ ~Gone(t) /\ ~Gone(t)'
     /\ invocation'[t] = [n \in Ordinal |-> FencedInvocation(invocation[t][n])]
  \/ Gone(t)' /\ invocation'[t] = [n \in Ordinal |-> NoInvocation]

LEMMA RowsMove ==
  ASSUME StoreInv, [Next]_storeVars, NEW t \in TurnId
  PROVE  /\ RowsOn(t)
         /\ turn'[t].status = "absent" => turn[t].status = "absent" /\ invocation'[t] = invocation[t]
         /\ turn'[t].conversation \in ConversationId =>
              \/ turn'[t].conversation = turn[t].conversation
              \/ turn[t].status = "absent" /\ invocation'[t] = invocation[t]
<1>1. StepOn(t) /\ turn[t] \in TurnRow
  BY StoreOn DEF StoreInv, TableInv, TableTypes
<1>2. CASE Kept(t)
  BY <1>2 DEF Kept, RowsOn, Gone
<1>3. CASE FencedOn(t)
  <2>1. turn'[t].status \in InUse /\ turn'[t].conversation = turn[t].conversation
    BY <1>1, <1>3 DEF FencedOn, FailedByFence, TurnRow, InUse, TerminalStatus
  <2> QED
    BY <1>3, <2>1 DEF FencedOn, RowsOn, Gone, InUse, PendingStatus, TerminalStatus
<1>4. CASE PurgedOn(t)
  BY <1>4, NoneAssumption DEF PurgedOn, RowsOn, Gone, NoTurn
<1>5. CASE InsertedOn(t)
  BY <1>5 DEF InsertedOn, RowsOn, Gone
<1>6. CASE StartedOn(t)
  BY <1>6 DEF StartedOn, RowsOn, Gone, PendingStatus
<1>7. CASE EndedOn(t)
  BY <1>7 DEF EndedOn, RowsOn, Gone, TerminalStatus
<1> QED
  BY <1>1, <1>2, <1>3, <1>4, <1>5, <1>6, <1>7 DEF StepOn

\* No attempt gets into a call.
QuietWork(t, a) ==
  \/ work'[t][a].phase \notin InCall
  \/ /\ work'[t][a].phase = work[t][a].phase /\ work'[t][a].ordinal = work[t][a].ordinal
     /\ work'[t][a].call = work[t][a].call /\ work'[t][a].result = work[t][a].result

LEMMA BudgetSmaller ==
  ASSUME BudgetKept, \A c \in ConversationId : PricedRows(c)' \subseteq PricedRows(c)
  PROVE  BudgetKept'
<1> SUFFICES ASSUME NEW c \in ConversationId
             PROVE  IsFiniteSet(PricedRows(c)') /\ Cardinality(PricedRows(c)') <= PricedPerConversation
  BY DEF BudgetKept
<1>1. IsFiniteSet(PricedRows(c)) /\ Cardinality(PricedRows(c)) <= PricedPerConversation
      /\ PricedRows(c)' \subseteq PricedRows(c)
  BY DEF BudgetKept
<1>2. IsFiniteSet(PricedRows(c)') /\ Cardinality(PricedRows(c)') <= Cardinality(PricedRows(c))
      /\ Cardinality(PricedRows(c)') \in Nat /\ Cardinality(PricedRows(c)) \in Nat
  BY <1>1, FS_Subset, FS_CardinalityType
<1> QED
  BY <1>1, <1>2, ToolAssumption

LEMMA StoreKeepsLedger ==
  ASSUME StoreInv, LedgerInv, [Next]_storeVars, UNCHANGED <<starts, reported>>,
         work' \in [TurnId -> [Attempt -> WorkRow]], faults' \in 0..FaultBound,
         \A t \in TurnId, a \in Attempt : QuietWork(t, a)
  PROVE  LedgerInv'
<1>1. \A t \in TurnId, n \in Ordinal :
        /\ invocation[t][n] \in InvocationRow /\ starts[t][n] \in Nat
        /\ RowOK(invocation[t][n], Gone(t), starts[t][n], reported[t][n])
  BY LimitAssumption DEF StoreInv, TableInv, TableTypes, LedgerInv, LedgerTypes, RowsOK
<1>2. LedgerTypes'
  BY DEF LedgerInv, LedgerTypes
<1>3. RowsOK'
  <2> SUFFICES ASSUME NEW t \in TurnId, NEW n \in Ordinal
               PROVE  RowOK(invocation'[t][n], Gone(t)', starts[t][n], reported[t][n])
    BY DEF RowsOK
  <2>1. RowsOn(t)
    BY RowsMove
  <2>2. CASE (Gone(t)' <=> Gone(t)) /\ invocation'[t] = invocation[t]
    BY <1>1, <2>2 DEF RowOK
  <2>3. CASE /\ ~Gone(t) /\ ~Gone(t)'
             /\ invocation'[t] = [m \in Ordinal |-> FencedInvocation(invocation[t][m])]
    <3>1. RowOK(invocation[t][n], FALSE, starts[t][n], reported[t][n])
      BY <1>1, <2>3 DEF RowOK
    <3>2. RowOK(FencedInvocation(invocation[t][n]), FALSE, starts[t][n], reported[t][n])
      BY <1>1, <3>1, FencedRow
    <3> QED
      BY <2>3, <3>2 DEF RowOK
  <2>4. CASE Gone(t)' /\ invocation'[t] = [m \in Ordinal |-> NoInvocation]
    <3>1. invocation'[t][n] = NoInvocation /\ starts[t][n] <= 1
      BY <1>1, <2>4 DEF RowOK
    <3> QED
      BY <2>4, <3>1 DEF RowOK, NoInvocation
  <2> QED
    BY <2>1, <2>2, <2>3, <2>4 DEF RowsOn
<1>4. AbsentTurns'
  BY RowsMove DEF LedgerInv, AbsentTurns
<1>5. CallsOK'
  <2> SUFFICES ASSUME NEW t \in TurnId, NEW a \in Attempt, work'[t][a].phase \in InCall
               PROVE  LET n == work'[t][a].ordinal IN
                      /\ n \in Ordinal
                      /\ CallOK(work'[t][a], invocation'[t][n], Gone(t)', starts[t][n],
                                reported[t][n])
    BY DEF CallsOK
  <2>1. /\ work'[t][a].phase = work[t][a].phase /\ work'[t][a].ordinal = work[t][a].ordinal
        /\ work'[t][a].call = work[t][a].call /\ work'[t][a].result = work[t][a].result
    BY DEF QuietWork
  <2>2. PICK n \in Ordinal : n = work[t][a].ordinal
    BY <2>1 DEF LedgerInv, CallsOK
  <2>3. CallOK(work[t][a], invocation[t][n], Gone(t), starts[t][n], reported[t][n])
    BY <2>1, <2>2 DEF LedgerInv, CallsOK
  <2>4. \/ Gone(t)'
        \/ /\ ~Gone(t)
           /\ invocation'[t][n].effect = invocation[t][n].effect
           /\ invocation'[t][n].status = "absent" <=> invocation[t][n].status = "absent"
           /\ invocation[t][n].status \in {"executing", "uncertain"}
                /\ invocation[t][n].effect = "priced" =>
                  invocation'[t][n].status \in {"executing", "uncertain"}
    <3>1. RowsOn(t)
      BY RowsMove
    <3>2. CASE (Gone(t)' <=> Gone(t)) /\ invocation'[t] = invocation[t]
      BY <3>2
    <3>3. CASE /\ ~Gone(t) /\ ~Gone(t)'
               /\ invocation'[t] = [m \in Ordinal |-> FencedInvocation(invocation[t][m])]
      <4>1. PICK row \in InvocationRow : row = invocation[t][n]
        BY <1>1
      <4>2. invocation'[t][n] = FencedInvocation(row)
        BY <3>3, <4>1
      <4>3. /\ FencedInvocation(row).effect = row.effect
            /\ FencedInvocation(row).status = "absent" <=> row.status = "absent"
            /\ row.status \in {"executing", "uncertain"} /\ row.effect = "priced" =>
                 FencedInvocation(row).status \in {"executing", "uncertain"}
        BY FencedRow
      <4> QED
        BY <3>3, <4>1, <4>2, <4>3
    <3> QED
      BY <3>1, <3>2, <3>3 DEF RowsOn
  <2>5. CallOK(work'[t][a], invocation'[t][n], Gone(t)', starts[t][n], reported[t][n])
    <3>1. CASE Gone(t)'
      BY <2>1, <2>3, <3>1 DEF CallOK, Charging
    <3>2. CASE ~Gone(t)'
      <4>1. /\ ~Gone(t) /\ invocation'[t][n].effect = invocation[t][n].effect
            /\ invocation'[t][n].status = "absent" <=> invocation[t][n].status = "absent"
            /\ invocation[t][n].status \in {"executing", "uncertain"}
                 /\ invocation[t][n].effect = "priced" =>
                   invocation'[t][n].status \in {"executing", "uncertain"}
        BY <2>4, <3>2
      <4> QED
        BY <2>1, <2>3, <4>1 DEF CallOK, Charging
    <3> QED
      BY <3>1, <3>2
  <2> QED
    BY <2>1, <2>2, <2>5
<1>6. OneCharges'
  BY DEF LedgerInv, OneCharges, QuietWork, Charging, InCall
<1>7. BudgetKept'
  <2>1. ASSUME NEW c \in ConversationId PROVE PricedRows(c)' \subseteq PricedRows(c)
    <3> SUFFICES ASSUME NEW t \in TurnId, NEW n \in Ordinal, turn'[t].conversation = c,
                        invocation'[t][n].status # "absent", invocation'[t][n].effect = "priced"
                 PROVE  /\ turn[t].conversation = c /\ invocation[t][n].status # "absent"
                        /\ invocation[t][n].effect = "priced"
      BY DEF PricedRows, TurnsOf
    <3>1. invocation[t][n].status # "absent" /\ invocation[t][n].effect = "priced"
      <4>1. RowsOn(t) /\ invocation[t][n] \in InvocationRow
        BY <1>1, RowsMove
      <4>2. CASE invocation'[t] = invocation[t]
        BY <4>2
      <4>3. CASE invocation'[t] = [m \in Ordinal |-> FencedInvocation(invocation[t][m])]
        <5>1. PICK row \in InvocationRow : row = invocation[t][n]
          BY <4>1
        <5>2. invocation'[t][n] = FencedInvocation(row)
          BY <4>3, <5>1
        <5>3. /\ FencedInvocation(row).effect = row.effect
              /\ FencedInvocation(row).status = "absent" <=> row.status = "absent"
          BY FencedRow
        <5> QED
          BY <5>1, <5>2, <5>3
      <4>4. CASE invocation'[t] = [m \in Ordinal |-> NoInvocation]
        BY <4>4 DEF NoInvocation
      <4> QED
        BY <4>1, <4>2, <4>3, <4>4 DEF RowsOn
    <3>2. \/ turn'[t].conversation = turn[t].conversation
          \/ turn[t].status = "absent"
      BY RowsMove
    <3> QED
      BY <3>1, <3>2 DEF LedgerInv, AbsentTurns
  <2> QED
    BY <2>1, BudgetSmaller DEF LedgerInv
<1> QED
  BY <1>2, <1>3, <1>4, <1>5, <1>6, <1>7 DEF LedgerInv

-----------------------------------------------------------------------------
(* Writing one row of the ledger                                           *)

LEMMA LedgerKeepsStore ==
  ASSUME StoreInv, LedgerOnly, invocation' \in [TurnId -> [Ordinal -> InvocationRow]]
  PROVE  StoreInv'
<1>1. UNCHANGED <<conversation, due, turn, leaseOver, attempts, operation, outbox, session>>
  BY DEF LedgerOnly
<1>2. TableInv'
  <2>1. TableTypes' /\ TurnsHaveHomes'
    BY <1>1 DEF StoreInv, TableInv, TableTypes, TurnsHaveHomes
  <2>2. OneActive' /\ LastExists'
    BY <1>1 DEF StoreInv, TableInv, OneActive, LastExists, IsLast, TurnsOf, Pending
  <2>3. \A t \in TurnId : AttemptsFit(t)'
    BY <1>1 DEF StoreInv, TableInv, AttemptsFit
  <2>4. OperationsLead'
    BY <1>1 DEF StoreInv, TableInv, OperationsLead
  <2> QED
    BY <2>1, <2>2, <2>3, <2>4 DEF TableInv
<1>3. SessionTypes'
  BY <1>1 DEF StoreInv, SessionInv, SessionTypes
<1>4. /\ Backlog' = Backlog /\ \A o \in Owner : CallerBacklog(o)' = CallerBacklog(o)
      /\ \A d : TurnsOf(d)' = TurnsOf(d)
  BY <1>1 DEF Backlog, CallerBacklog, Pending, Live, TurnsOf
<1>5. SessionInv' /\ BacklogFinite'
  BY <1>1, <1>3, <1>4, SessionsKeep
<1> QED
  BY <1>2, <1>5 DEF StoreInv

LEMMA ToldSame ==
  ASSUME NEW t \in TurnId, Told(t), UNCHANGED <<conversation, turn, attempts>>
  PROVE  Told(t)'
BY DEF Told, Live

\* A function of turns that changes in one place.
Writes(new, old, I, t, i, x) ==
  \A u \in TurnId, j \in I : new[u][j] = IF u = t /\ j = i THEN x ELSE old[u][j]

LEMMA RowTyped ==
  ASSUME StoreInv, NEW t \in TurnId, NEW n \in Ordinal, NEW r \in InvocationRow, SetRow(t, n, r)
  PROVE  /\ invocation' \in [TurnId -> [Ordinal -> InvocationRow]]
         /\ Writes(invocation', invocation, Ordinal, t, n, r)
<1>1. invocation \in [TurnId -> [Ordinal -> InvocationRow]]
  BY DEF StoreInv, TableInv, TableTypes
<1> QED
  BY <1>1 DEF SetRow, Writes

LEMMA WorkTyped ==
  ASSUME LedgerTypes, NEW t \in TurnId, NEW a \in Attempt, NEW w \in WorkRow, Become(t, a, w)
  PROVE  work' \in [TurnId -> [Attempt -> WorkRow]] /\ Writes(work', work, Attempt, t, a, w)
BY DEF LedgerTypes, Become, Writes

LEMMA CountTyped ==
  ASSUME LedgerTypes, NEW t \in TurnId, NEW n \in Ordinal, NEW x \in 0..AttemptBound,
         starts' = [starts EXCEPT ![t][n] = x]
  PROVE  /\ starts' \in [TurnId -> [Ordinal -> 0..AttemptBound]]
         /\ Writes(starts', starts, Ordinal, t, n, x)
<1>1. starts \in [TurnId -> [Ordinal -> 0..AttemptBound]]
  BY DEF LedgerTypes
<1> HIDE DEF LedgerTypes
<1> QED
  BY <1>1 DEF Writes

LEMMA WriteSame ==
  ASSUME NEW I, NEW old, NEW t \in TurnId, NEW i \in I
  PROVE  Writes(old, old, I, t, i, old[t][i])
BY DEF Writes

LEMMA BudgetSame ==
  ASSUME BudgetKept, turn' = turn, NEW t \in TurnId, NEW n \in Ordinal, NEW r,
         Writes(invocation', invocation, Ordinal, t, n, r),
         r.status # "absent" /\ r.effect = "priced" =>
           invocation[t][n].status # "absent" /\ invocation[t][n].effect = "priced"
  PROVE  BudgetKept'
<1>1. ASSUME NEW c \in ConversationId PROVE PricedRows(c)' \subseteq PricedRows(c)
  BY DEF PricedRows, TurnsOf, Writes
<1> QED
  BY <1>1, BudgetSmaller

\* A step on one call: attempt a becomes w, the call's row r; what the other
\* attempts of the turn know of that row must remain true.
Moves(t, a, n, w, r, count, answer) ==
  /\ Writes(work', work, Attempt, t, a, w)
  /\ Writes(invocation', invocation, Ordinal, t, n, r)
  /\ Writes(starts', starts, Ordinal, t, n, count)
  /\ Writes(reported', reported, Ordinal, t, n, answer)
  /\ RowOK(r, Gone(t), count, answer)
  /\ turn[t].status = "absent" => r.status = "absent"
  /\ w.phase \in InCall => w.ordinal = n /\ CallOK(w, r, Gone(t), count, answer)
  /\ \A b \in Attempt \ {a} :
       work[t][b].phase \in InCall /\ work[t][b].ordinal = n =>
         /\ CallOK(work[t][b], r, Gone(t), count, answer)
         /\ ~(Charging(work[t][b]) /\ Charging(w))

LEMMA CallMoves ==
  ASSUME LedgerInv, turn' = turn, LedgerTypes', BudgetKept',
         NEW t \in TurnId, NEW a \in Attempt, NEW n \in Ordinal,
         NEW w, NEW r, NEW count, NEW answer, Moves(t, a, n, w, r, count, answer)
  PROVE  LedgerInv'
<1> USE DEF Moves
<1>1. \A u \in TurnId : Gone(u)' = Gone(u)
  BY DEF Gone
<1>2. RowsOK'
  <2> SUFFICES ASSUME NEW u \in TurnId, NEW m \in Ordinal
               PROVE  RowOK(invocation'[u][m], Gone(u), starts'[u][m], reported'[u][m])
    BY <1>1 DEF RowsOK
  <2>1. CASE u = t /\ m = n
    <3>1. invocation'[u][m] = r /\ starts'[u][m] = count /\ reported'[u][m] = answer
      BY <2>1 DEF Writes
    <3> QED
      BY <2>1, <3>1
  <2>2. CASE ~(u = t /\ m = n)
    <3>1. /\ invocation'[u][m] = invocation[u][m] /\ starts'[u][m] = starts[u][m]
          /\ reported'[u][m] = reported[u][m]
      BY <2>2 DEF Writes
    <3> QED
      BY <3>1 DEF LedgerInv, RowsOK
  <2> QED
    BY <2>1, <2>2
<1>3. AbsentTurns'
  BY DEF LedgerInv, AbsentTurns, Writes
<1>4. CallsOK'
  <2> SUFFICES ASSUME NEW u \in TurnId, NEW b \in Attempt, work'[u][b].phase \in InCall
               PROVE  LET m == work'[u][b].ordinal IN
                      /\ m \in Ordinal
                      /\ CallOK(work'[u][b], invocation'[u][m], Gone(u), starts'[u][m],
                                reported'[u][m])
    BY <1>1 DEF CallsOK
  <2>1. CASE u = t /\ b = a
    <3>1. work'[u][b] = w /\ w.phase \in InCall /\ w.ordinal = n
      BY <2>1 DEF Writes
    <3>2. invocation'[t][n] = r /\ starts'[t][n] = count /\ reported'[t][n] = answer
      BY DEF Writes
    <3> QED
      BY <2>1, <3>1, <3>2
  <2>2. CASE ~(u = t /\ b = a)
    <3>1. work'[u][b] = work[u][b]
      BY <2>2 DEF Writes
    <3>2. PICK m \in Ordinal : m = work[u][b].ordinal
      BY <3>1 DEF LedgerInv, CallsOK
    <3>3. CallOK(work[u][b], invocation[u][m], Gone(u), starts[u][m], reported[u][m])
      BY <3>1, <3>2 DEF LedgerInv, CallsOK
    <3>4. CASE u = t /\ m = n
      <4>1. invocation'[t][n] = r /\ starts'[t][n] = count /\ reported'[t][n] = answer
        BY DEF Writes
      <4>2. CallOK(work[t][b], r, Gone(t), count, answer)
        BY <2>2, <3>1, <3>2, <3>4
      <4> QED
        BY <3>1, <3>2, <3>4, <4>1, <4>2
    <3>5. CASE ~(u = t /\ m = n)
      <4>1. /\ invocation'[u][m] = invocation[u][m] /\ starts'[u][m] = starts[u][m]
            /\ reported'[u][m] = reported[u][m]
        BY <3>5 DEF Writes
      <4> QED
        BY <3>1, <3>2, <3>3, <4>1
    <3> QED
      BY <3>4, <3>5
  <2> QED
    BY <2>1, <2>2
<1>5. OneCharges'
  <2> SUFFICES ASSUME NEW u \in TurnId, NEW p \in Attempt, NEW q \in Attempt,
                      Charging(work'[u][p]), Charging(work'[u][q]),
                      work'[u][p].ordinal = work'[u][q].ordinal
               PROVE  p = q
    BY DEF OneCharges, Charging
  <2>1. ASSUME NEW b \in Attempt \ {a}, u = t,
               Charging(work'[t][b]), work'[t][b].ordinal = w.ordinal, Charging(w)
        PROVE  FALSE
    <3>1. work'[t][b] = work[t][b]
      BY <2>1 DEF Writes
    <3>2. w.ordinal = n /\ work[t][b].phase \in InCall
      BY <2>1, <3>1 DEF Charging, InCall
    <3> QED
      BY <2>1, <3>1, <3>2
  <2>2. CASE u = t /\ p = a /\ q # a
    <3>1. work'[t][p] = w
      BY <2>2 DEF Writes
    <3> QED
      BY <2>1, <2>2, <3>1
  <2>3. CASE u = t /\ q = a /\ p # a
    <3>1. work'[t][q] = w
      BY <2>3 DEF Writes
    <3> QED
      BY <2>1, <2>3, <3>1
  <2>4. CASE u # t \/ (p # a /\ q # a)
    <3>1. work'[u][p] = work[u][p] /\ work'[u][q] = work[u][q]
      BY <2>4 DEF Writes
    <3> QED
      BY <3>1 DEF LedgerInv, OneCharges
  <2> QED
    BY <2>2, <2>3, <2>4
<1> QED
  BY <1>2, <1>3, <1>4, <1>5 DEF LedgerInv

-----------------------------------------------------------------------------
(* The steps of a worker                                                   *)

LEMMA QuietBecome ==
  ASSUME LedgerTypes, NEW t \in TurnId, NEW a \in Attempt, NEW w \in WorkRow, Become(t, a, w),
         \/ w.phase \notin InCall
         \/ /\ w.phase = work[t][a].phase /\ w.ordinal = work[t][a].ordinal
            /\ w.call = work[t][a].call /\ w.result = work[t][a].result
  PROVE  /\ work' \in [TurnId -> [Attempt -> WorkRow]]
         /\ \A u \in TurnId, b \in Attempt : QuietWork(u, b)
<1>1. work' \in [TurnId -> [Attempt -> WorkRow]] /\ Writes(work', work, Attempt, t, a, w)
  BY WorkTyped
<1> QED
  BY <1>1 DEF Writes, QuietWork

LEMMA EndedIs == [NoWork EXCEPT !.phase = "done"] \in WorkRow
                 /\ [NoWork EXCEPT !.phase = "thinking"] \in WorkRow
                 /\ [NoWork EXCEPT !.phase = "done"].phase \notin InCall
                 /\ [NoWork EXCEPT !.phase = "thinking"].phase \notin InCall
BY DEF NoWork, WorkRow, InCall

LEMMA ReturnIs ==
  ASSUME LedgerTypes, NEW t \in TurnId, NEW a \in Attempt, NEW n \in Ordinal,
         NEW saw \in BOOLEAN, Return(t, a, n, saw)
  PROVE  \E w \in WorkRow : w.phase = "thinking" /\ Become(t, a, w)
<1>1. PICK old \in WorkRow : old = work[t][a]
  BY DEF LedgerTypes
<1>2. PICK both \in BOOLEAN : both = (old.sawCommit \/ saw)
  OBVIOUS
<1> DEFINE w == [old EXCEPT !.phase = "thinking", !.ordinal = n, !.call = None,
                            !.result = None, !.sawCommit = both]
<1>3. w \in WorkRow /\ w.phase = "thinking"
  BY DEF WorkRow
<1>4. Become(t, a, w)
  BY <1>1, <1>2 DEF Return
<1> QED
  BY <1>3, <1>4

\* A step of the store, or none, during which no attempt gets into a call.
LEMMA StoreStep ==
  ASSUME SystemInv, [Next]_storeVars, UNCHANGED <<starts, reported>>, faults' \in 0..FaultBound,
         work' \in [TurnId -> [Attempt -> WorkRow]],
         \A t \in TurnId, a \in Attempt : QuietWork(t, a)
  PROVE  SystemInv'
<1>1. StoreInv /\ LedgerInv /\ \A t \in TurnId : Told(t)
  BY DEF SystemInv
<1>2. StoreInv' /\ (\A t \in TurnId : Told(t)')
  BY <1>1, InvNext, ToldStep
<1>3. LedgerInv'
  BY <1>1, StoreKeepsLedger
<1> QED
  BY <1>2, <1>3 DEF SystemInv

LEMMA KeptReturn ==
  ASSUME SystemInv, KeepLedger, UNCHANGED <<starts, reported>>, faults' \in 0..FaultBound,
         NEW t \in TurnId, NEW a \in Attempt, NEW n \in Ordinal, NEW saw \in BOOLEAN,
         Return(t, a, n, saw)
  PROVE  SystemInv'
<1>1. LedgerTypes
  BY DEF SystemInv, LedgerInv
<1>2. PICK w \in WorkRow : w.phase = "thinking" /\ Become(t, a, w)
  BY <1>1, ReturnIs
<1>3. w.phase \notin InCall
  BY <1>2 DEF InCall
<1>4. work' \in [TurnId -> [Attempt -> WorkRow]] /\ \A u \in TurnId, b \in Attempt : QuietWork(u, b)
  BY <1>1, <1>2, <1>3, QuietBecome
<1> QED
  BY <1>4, StoreStep DEF KeepLedger

\* A row is written and its call is over.
LEMMA RowReturn ==
  ASSUME SystemInv, LedgerOnly, UNCHANGED <<starts, reported>>, faults' \in 0..FaultBound,
         NEW t \in TurnId, NEW a \in Attempt, NEW n \in Ordinal, NEW saw \in BOOLEAN,
         Return(t, a, n, saw), NEW r \in InvocationRow, SetRow(t, n, r),
         ~Gone(t), invocation[t][n].status # "absent", r.effect = invocation[t][n].effect,
         r.status \in {"succeeded", "failed", "uncertain"},
         RowOK(r, FALSE, starts[t][n], reported[t][n]),
         \/ r.status = "uncertain"
         \/ \A b \in Attempt \ {a} : ~(Charging(work[t][b]) /\ work[t][b].ordinal = n)
  PROVE  SystemInv'
<1>1. StoreInv /\ LedgerInv /\ LedgerTypes /\ BudgetKept /\ \A u \in TurnId : Told(u)
  BY DEF SystemInv, LedgerInv
<1>3. UNCHANGED <<conversation, turn, attempts>>
  BY DEF LedgerOnly
<1>4. PICK w \in WorkRow : w.phase = "thinking" /\ Become(t, a, w)
  BY <1>1, ReturnIs
<1>5. work' \in [TurnId -> [Attempt -> WorkRow]] /\ Writes(work', work, Attempt, t, a, w)
  BY <1>1, <1>4, WorkTyped
<1>6. /\ invocation' \in [TurnId -> [Ordinal -> InvocationRow]]
      /\ Writes(invocation', invocation, Ordinal, t, n, r)
  BY <1>1, RowTyped
<1>7. Writes(starts', starts, Ordinal, t, n, starts[t][n])
      /\ Writes(reported', reported, Ordinal, t, n, reported[t][n])
  BY WriteSame
<1>8. LedgerTypes'
  BY <1>1, <1>5 DEF LedgerTypes
<1>9. BudgetKept'
  BY <1>1, <1>3, <1>6, BudgetSame
<1>10. turn[t].status # "absent"
  BY <1>1 DEF LedgerInv, AbsentTurns
<1>11. w.phase \notin InCall /\ ~Charging(w)
  BY <1>4 DEF InCall, Charging
<1>12. ASSUME NEW b \in Attempt \ {a}, work[t][b].phase \in InCall, work[t][b].ordinal = n
       PROVE  CallOK(work[t][b], r, Gone(t), starts[t][n], reported[t][n])
  <2>1. CallOK(work[t][b], invocation[t][n], Gone(t), starts[t][n], reported[t][n])
    BY <1>1, <1>12 DEF LedgerInv, CallsOK
  <2> QED
    BY <1>12, <2>1 DEF CallOK
<1>13. LedgerInv'
  <2>1. Moves(t, a, n, w, r, starts[t][n], reported[t][n])
    <3>1. RowOK(r, Gone(t), starts[t][n], reported[t][n])
      BY DEF RowOK
    <3> QED
      BY <1>5, <1>6, <1>7, <1>10, <1>11, <1>12, <3>1 DEF Moves
  <2> QED
    BY <1>1, <1>3, <1>8, <1>9, <2>1, CallMoves
<1>14. StoreInv'
  BY <1>1, <1>6, LedgerKeepsStore
<1>15. \A u \in TurnId : Told(u)'
  BY <1>1, <1>3, ToldSame
<1> QED
  BY <1>13, <1>14, <1>15 DEF SystemInv

\* A call whose charge is in doubt is written off as uncertain.
LEMMA DoubtReturn ==
  ASSUME SystemInv, LedgerOnly, UNCHANGED <<starts, reported, faults>>,
         NEW t \in TurnId, NEW a \in Attempt, NEW n \in Ordinal,
         MaybeCharged(invocation[t][n]), Return(t, a, n, TRUE),
         SetRow(t, n, Uncertain(invocation[t][n]))
  PROVE  SystemInv'
<1>1. LedgerInv /\ LedgerTypes /\ invocation[t][n] \in InvocationRow
  BY DEF SystemInv, LedgerInv, StoreInv, TableInv, TableTypes
<1>2. PICK row \in InvocationRow : row = invocation[t][n]
  BY <1>1
<1> DEFINE r == Uncertain(row)
<1>3. 0 \in 0..AttemptBound
  BY LimitAssumption
<1>4. r \in InvocationRow /\ r.status = "uncertain" /\ r.token = 0 /\ r.afterCommit = TRUE
      /\ r.effect = row.effect
  BY <1>3 DEF Uncertain, InvocationRow, InvocationStatus
<1> HIDE DEF r
<1>5. RowOK(row, Gone(t), starts[t][n], reported[t][n])
  BY <1>1, <1>2 DEF LedgerInv, RowsOK
<1>6. row.status = "executing" /\ row.effect = "priced"
  BY <1>2 DEF MaybeCharged
<1>7. ~Gone(t)
  BY <1>5, <1>6 DEF RowOK, NoInvocation
<1>8. RowOK(r, FALSE, starts[t][n], reported[t][n])
  BY <1>4, <1>5, <1>6, <1>7 DEF RowOK
<1>9. SetRow(t, n, r) /\ faults' \in 0..FaultBound
  BY <1>1, <1>2 DEF r, LedgerTypes
<1> QED
  BY <1>2, <1>4, <1>6, <1>7, <1>8, <1>9, RowReturn

\* What is known of a turn's rows when one of its attempts is about to act.
LEMMA RowsKnown ==
  ASSUME SystemInv, NEW t \in TurnId, NEW n \in Ordinal
  PROVE  /\ invocation[t][n] \in InvocationRow /\ turn[t] \in TurnRow
         /\ starts[t][n] \in 0..AttemptBound
         /\ RowOK(invocation[t][n], Gone(t), starts[t][n], reported[t][n])
         /\ invocation[t][n].status # "absent" => ~Gone(t) /\ turn[t].status # "absent"
<1>1. /\ invocation[t][n] \in InvocationRow /\ turn[t] \in TurnRow
      /\ starts[t][n] \in 0..AttemptBound
      /\ RowOK(invocation[t][n], Gone(t), starts[t][n], reported[t][n])
  BY DEF SystemInv, StoreInv, TableInv, TableTypes, LedgerInv, LedgerTypes, RowsOK
<1>2. invocation[t][n].status # "absent" => ~Gone(t)
  BY <1>1 DEF RowOK, NoInvocation
<1> QED
  BY <1>1, <1>2 DEF SystemInv, LedgerInv, AbsentTurns

LEMMA CallKnown ==
  ASSUME SystemInv, NEW t \in TurnId, NEW a \in Attempt, work[t][a].phase \in InCall
  PROVE  \E n \in Ordinal :
           /\ n = work[t][a].ordinal
           /\ CallOK(work[t][a], invocation[t][n], Gone(t), starts[t][n], reported[t][n])
BY DEF SystemInv, LedgerInv, CallsOK

PreparedWork(t, a, n, call) ==
  Become(t, a, [work[t][a] EXCEPT !.phase = "prepared", !.ordinal = n, !.call = call])
PreparedRow(t, n, call) ==
  SetRow(t, n, [NoInvocation EXCEPT !.status = "prepared", !.effect = call.effect,
                                    !.input = call.input])

LEMMA PreparedWorkIs ==
  ASSUME LedgerTypes, NEW t \in TurnId, NEW a \in Attempt, NEW call \in ToolCall,
         NEW n \in Ordinal, PreparedWork(t, a, n, call)
  PROVE  \E w \in WorkRow : /\ Become(t, a, w)
                            /\ w.phase = "prepared" /\ w.ordinal = n /\ w.call = call
<1>1. PICK old \in WorkRow : old = work[t][a]
  BY DEF LedgerTypes
<1> DEFINE w == [old EXCEPT !.phase = "prepared", !.ordinal = n, !.call = call]
<1>2. w \in WorkRow /\ w.phase = "prepared" /\ w.ordinal = n /\ w.call = call
  BY DEF WorkRow
<1>3. Become(t, a, w)
  BY <1>1 DEF PreparedWork
<1> QED
  BY <1>2, <1>3

LEMMA PreparedRowIs ==
  ASSUME NEW t \in TurnId, NEW n \in Ordinal, NEW call \in ToolCall, PreparedRow(t, n, call)
  PROVE  \E r \in InvocationRow :
           /\ SetRow(t, n, r)
           /\ r.status = "prepared" /\ r.effect = call.effect /\ r.token = 0
           /\ r.afterCommit = FALSE
<1>1. PICK effect \in SideEffect, input \in Input : effect = call.effect /\ input = call.input
  BY ToolAssumption
<1>2. PICK old \in InvocationRow : old = NoInvocation
  BY RowTypes
<1>3. old.token = 0 /\ old.afterCommit = FALSE
  BY <1>2 DEF NoInvocation
<1> DEFINE r == [old EXCEPT !.status = "prepared", !.effect = effect, !.input = input]
<1>4. r \in InvocationRow
  BY DEF InvocationRow, InvocationStatus
<1>5. r.status = "prepared" /\ r.effect = effect /\ r.token = 0 /\ r.afterCommit = FALSE
  BY <1>3 DEF InvocationRow
<1>6. SetRow(t, n, r)
  BY <1>1, <1>2 DEF PreparedRow
<1> QED
  BY <1>1, <1>4, <1>5, <1>6

\* prepareInvocation writes a row: nobody can be in that call yet.
LEMMA PrepareNew ==
  ASSUME SystemInv, NEW t \in TurnId, NEW a \in Attempt, NEW call \in ToolCall, NEW n \in Ordinal,
         turn[t].conversation # None, invocation[t][n].status = "absent", WithinBudget(t, call),
         PreparedRow(t, n, call), LedgerOnly, UNCHANGED <<starts, reported, faults>>,
         PreparedWork(t, a, n, call)
  PROVE  SystemInv'
<1>1. StoreInv /\ LedgerInv /\ LedgerTypes /\ BudgetKept /\ \A u \in TurnId : Told(u)
  BY DEF SystemInv, LedgerInv
<1>2. UNCHANGED <<conversation, turn, attempts>>
  BY DEF LedgerOnly
<1>3. PICK r \in InvocationRow :
        /\ SetRow(t, n, r)
        /\ r.status = "prepared" /\ r.effect = call.effect /\ r.token = 0 /\ r.afterCommit = FALSE
  BY PreparedRowIs
<1>4. PICK w \in WorkRow :
        Become(t, a, w) /\ w.phase = "prepared" /\ w.ordinal = n /\ w.call = call
  BY <1>1, PreparedWorkIs
<1>7. work' \in [TurnId -> [Attempt -> WorkRow]] /\ Writes(work', work, Attempt, t, a, w)
  BY <1>1, <1>4, WorkTyped
<1>8. /\ invocation' \in [TurnId -> [Ordinal -> InvocationRow]]
      /\ Writes(invocation', invocation, Ordinal, t, n, r)
  BY <1>1, <1>3, RowTyped
<1>9. Writes(starts', starts, Ordinal, t, n, starts[t][n])
      /\ Writes(reported', reported, Ordinal, t, n, reported[t][n])
  BY WriteSame
<1>10. turn[t].status \notin {"absent", "deleted"} /\ turn[t].conversation \in ConversationId
  BY <1>1 DEF StoreInv, TableInv, TurnsHaveHomes, TableTypes, TurnRow
<1>11. starts[t][n] = 0 /\ ~Gone(t)
  <2>1. starts[t][n] \in Nat /\ RowOK(invocation[t][n], Gone(t), starts[t][n], reported[t][n])
    BY RowsKnown, LimitAssumption
  <2> QED
    BY <1>10, <2>1 DEF RowOK, Gone
<1>12. ASSUME NEW b \in Attempt, work[t][b].phase \in InCall, work[t][b].ordinal = n
       PROVE  FALSE
  <2>1. CallOK(work[t][b], invocation[t][n], Gone(t), starts[t][n], reported[t][n])
    BY <1>1, <1>12 DEF LedgerInv, CallsOK
  <2> QED
    BY <1>11, <2>1 DEF CallOK
<1>13. RowOK(r, Gone(t), starts[t][n], reported[t][n])
  BY <1>3, <1>11 DEF RowOK
<1>14. CallOK(w, r, Gone(t), starts[t][n], reported[t][n])
  BY <1>3, <1>4 DEF CallOK, Charging
<1>15. BudgetKept'
  <2> SUFFICES ASSUME NEW c \in ConversationId
               PROVE  IsFiniteSet(PricedRows(c)') /\ Cardinality(PricedRows(c)') <= PricedPerConversation
    BY DEF BudgetKept
  <2>1. IsFiniteSet(PricedRows(c)) /\ Cardinality(PricedRows(c)) <= PricedPerConversation
    BY <1>1 DEF BudgetKept
  <2>2. CASE c # turn[t].conversation \/ call.effect # "priced"
    <3>1. ASSUME NEW p \in PricedRows(c)' PROVE p \in PricedRows(c)
      <4>1. PICK u \in TurnId, m \in Ordinal :
              /\ p = <<u, m>> /\ turn[u].conversation = c
              /\ invocation'[u][m].status # "absent" /\ invocation'[u][m].effect = "priced"
        BY <1>2, <3>1 DEF PricedRows, TurnsOf
      <4>2. ~(u = t /\ m = n)
        BY <1>3, <1>8, <2>2, <4>1 DEF Writes
      <4>3. invocation'[u][m] = invocation[u][m]
        BY <1>8, <4>2 DEF Writes
      <4> QED
        BY <4>1, <4>3 DEF PricedRows, TurnsOf
    <3>2. IsFiniteSet(PricedRows(c)') /\ Cardinality(PricedRows(c)') <= Cardinality(PricedRows(c))
          /\ Cardinality(PricedRows(c)') \in Nat /\ Cardinality(PricedRows(c)) \in Nat
      BY <2>1, <3>1, FS_Subset, FS_CardinalityType
    <3> QED
      BY <2>1, <3>2, ToolAssumption
  <2>3. CASE c = turn[t].conversation /\ call.effect = "priced"
    <3> DEFINE more == PricedRows(c) \cup {<<t, n>>}
    <3>1. PricedRows(c)' \subseteq more
      BY <1>2, <1>8 DEF PricedRows, TurnsOf, Writes
    <3>2. Cardinality(PricedRows(c)) < PricedPerConversation
      <4>1. {p \in TurnsOf(turn[t].conversation) \X Ordinal : p[2] \in CountedPriced(p[1])}
              = PricedRows(c)
        BY <2>3 DEF PricedRows, CountedPriced, Counted
      <4> QED
        BY <2>3, <4>1 DEF WithinBudget, ConversationPriced
    <3>3. <<t, n>> \notin PricedRows(c)
      BY DEF PricedRows
    <3>4. IsFiniteSet(more) /\ Cardinality(more) = Cardinality(PricedRows(c)) + 1
      BY <2>1, <3>3, FS_AddElement
    <3> HIDE DEF more
    <3>5. IsFiniteSet(PricedRows(c)') /\ Cardinality(PricedRows(c)') <= Cardinality(more)
          /\ Cardinality(PricedRows(c)') \in Nat /\ Cardinality(PricedRows(c)) \in Nat
      BY <2>1, <3>1, <3>4, FS_Subset, FS_CardinalityType
    <3> QED
      BY <3>2, <3>4, <3>5, ToolAssumption
  <2> QED
    BY <2>2, <2>3
<1>16. LedgerInv'
  <2>1. LedgerTypes'
    BY <1>1, <1>7 DEF LedgerTypes
  <2>2. Moves(t, a, n, w, r, starts[t][n], reported[t][n])
    BY <1>4, <1>7, <1>8, <1>9, <1>10, <1>12, <1>13, <1>14 DEF Moves
  <2> QED
    BY <1>1, <1>2, <1>15, <2>1, <2>2, CallMoves
<1>17. StoreInv' /\ \A u \in TurnId : Told(u)'
  BY <1>1, <1>2, <1>8, LedgerKeepsStore, ToldSame
<1> QED
  BY <1>16, <1>17 DEF SystemInv

\* prepareInvocation finds a row that may be executed.
LEMMA PrepareKnown ==
  ASSUME SystemInv, NEW t \in TurnId, NEW a \in Attempt, NEW call \in ToolCall, NEW n \in Ordinal,
         invocation[t][n].status # "absent", invocation[t][n].effect = call.effect,
         KeepLedger, UNCHANGED <<starts, reported, faults>>, PreparedWork(t, a, n, call)
  PROVE  SystemInv'
<1>1. StoreInv /\ LedgerInv /\ LedgerTypes /\ BudgetKept /\ \A u \in TurnId : Told(u)
  BY DEF SystemInv, LedgerInv
<1>2. UNCHANGED <<conversation, turn, attempts, invocation>> /\ [Next]_storeVars
  BY DEF KeepLedger
<1>4. PICK w \in WorkRow :
        Become(t, a, w) /\ w.phase = "prepared" /\ w.ordinal = n /\ w.call = call
  BY <1>1, PreparedWorkIs
<1>5. work' \in [TurnId -> [Attempt -> WorkRow]] /\ Writes(work', work, Attempt, t, a, w)
  BY <1>1, <1>4, WorkTyped
<1>6. /\ Writes(invocation', invocation, Ordinal, t, n, invocation[t][n])
      /\ Writes(starts', starts, Ordinal, t, n, starts[t][n])
      /\ Writes(reported', reported, Ordinal, t, n, reported[t][n])
  BY <1>2, WriteSame
<1>7. /\ RowOK(invocation[t][n], Gone(t), starts[t][n], reported[t][n])
      /\ turn[t].status # "absent"
  BY RowsKnown
<1>8. CallOK(w, invocation[t][n], Gone(t), starts[t][n], reported[t][n]) /\ ~Charging(w)
  BY <1>4 DEF CallOK, Charging
<1>9. \A b \in Attempt : work[t][b].phase \in InCall /\ work[t][b].ordinal = n =>
        CallOK(work[t][b], invocation[t][n], Gone(t), starts[t][n], reported[t][n])
  BY <1>1 DEF LedgerInv, CallsOK
<1>10. LedgerInv'
  <2>1. LedgerTypes'
    BY <1>1, <1>5 DEF LedgerTypes
  <2>2. Moves(t, a, n, w, invocation[t][n], starts[t][n], reported[t][n])
    BY <1>4, <1>5, <1>6, <1>7, <1>8, <1>9 DEF Moves
  <2>3. BudgetKept'
    BY <1>1, <1>2, <1>6, BudgetSame
  <2> QED
    BY <1>1, <1>2, <2>1, <2>2, <2>3, CallMoves
<1>11. StoreInv' /\ \A u \in TurnId : Told(u)'
  BY <1>1, <1>2, InvNext, ToldSame
<1> QED
  BY <1>10, <1>11 DEF SystemInv

LEMMA PrepareStep ==
  ASSUME SystemInv, NEW t \in TurnId, NEW a \in Attempt, NEW call \in ToolCall,
         PrepareCall(t, a, call)
  PROVE  SystemInv'
<1>1. PICK n \in Ordinal : n = work[t][a].ordinal + 1
  BY DEF PrepareCall
<1>2. PICK row \in InvocationRow : row = invocation[t][n]
  BY RowsKnown
<1>3. UNCHANGED <<starts, reported, faults>> /\ faults' \in 0..FaultBound
  BY DEF PrepareCall, SystemInv, LedgerInv, LedgerTypes
<1> DEFINE same == [effect |-> row.effect, input |-> row.input] = call
<1>4. \/ Return(t, a, n, FALSE) /\ KeepLedger
      \/ /\ turn[t].conversation # None /\ row.status = "absent" /\ WithinBudget(t, call)
         /\ PreparedRow(t, n, call) /\ LedgerOnly /\ PreparedWork(t, a, n, call)
      \/ row.status # "absent" /\ same /\ KeepLedger /\ PreparedWork(t, a, n, call)
      \/ MaybeCharged(row) /\ SetRow(t, n, Uncertain(row)) /\ LedgerOnly /\ Return(t, a, n, TRUE)
      \/ KeepLedger /\ Return(t, a, n, PricedCommit(row))
  BY <1>1, <1>2 DEF PrepareCall, PreparedRow, PreparedWork
<1>5. CASE Return(t, a, n, FALSE) /\ KeepLedger
  BY <1>3, <1>5, KeptReturn
<1>6. CASE /\ turn[t].conversation # None /\ row.status = "absent" /\ WithinBudget(t, call)
           /\ PreparedRow(t, n, call) /\ LedgerOnly /\ PreparedWork(t, a, n, call)
  BY <1>2, <1>3, <1>6, PrepareNew
<1>7. CASE row.status # "absent" /\ same /\ KeepLedger /\ PreparedWork(t, a, n, call)
  <2>1. row.effect = call.effect
    BY <1>7
  <2> QED
    BY <1>2, <1>3, <1>7, <2>1, PrepareKnown
<1>8. CASE MaybeCharged(row) /\ SetRow(t, n, Uncertain(row)) /\ LedgerOnly /\ Return(t, a, n, TRUE)
  BY <1>2, <1>3, <1>8, DoubtReturn
<1>9. CASE KeepLedger /\ Return(t, a, n, PricedCommit(row))
  <2>1. PricedCommit(row) \in BOOLEAN
    BY DEF PricedCommit
  <2> QED
    BY <1>3, <1>9, <2>1, KeptReturn
<1> QED
  BY <1>4, <1>5, <1>6, <1>7, <1>8, <1>9

\* startInvocation lets the call run: a priced one for the first time, and
\* nobody else is to record a result for it.
LEMMA RunStep ==
  ASSUME SystemInv, NEW t \in TurnId, NEW a \in Attempt, NEW n \in Ordinal,
         n = work[t][a].ordinal, work[t][a].phase = "prepared", MayExecute(invocation[t][n]),
         SetRow(t, n, [invocation[t][n] EXCEPT !.status = "executing", !.token = a]),
         LedgerOnly, Become(t, a, [work[t][a] EXCEPT !.phase = "calling"]),
         starts' = IF invocation[t][n].effect = "priced" THEN [starts EXCEPT ![t][n] = @ + 1]
                                                         ELSE starts,
         UNCHANGED <<reported, faults>>
  PROVE  SystemInv'
<1>1. StoreInv /\ LedgerInv /\ LedgerTypes /\ BudgetKept /\ \A u \in TurnId : Told(u)
  BY DEF SystemInv, LedgerInv
<1>2. UNCHANGED <<conversation, turn, attempts>>
  BY DEF LedgerOnly
<1>3. PICK row \in InvocationRow : row = invocation[t][n]
  BY RowsKnown
<1>4. row.status \in {"prepared", "executing"} /\ (row.effect = "priced" => row.status = "prepared")
  BY <1>3 DEF MayExecute, InvocationRow, SideEffect
<1>5. /\ RowOK(row, Gone(t), starts[t][n], reported[t][n]) /\ ~Gone(t)
      /\ turn[t].status # "absent" /\ starts[t][n] \in Nat
  BY <1>3, <1>4, RowsKnown, LimitAssumption
<1>6. starts[t][n] = 0 /\ row.afterCommit = FALSE
  <2>1. ~(starts[t][n] > 0)
    BY <1>4, <1>5 DEF RowOK
  <2>2. row.afterCommit \in BOOLEAN
    BY DEF InvocationRow
  <2> QED
    BY <1>4, <1>5, <2>1, <2>2 DEF RowOK
<1> DEFINE r == [row EXCEPT !.status = "executing", !.token = a]
<1>7. r \in InvocationRow /\ r.status = "executing" /\ r.token = a /\ r.effect = row.effect
      /\ r.afterCommit = row.afterCommit
  <2>1. a \in 0..AttemptBound
    BY LimitAssumption DEF Attempt
  <2> QED
    BY <2>1 DEF InvocationRow, InvocationStatus
<1>8. SetRow(t, n, r)
  BY <1>3
<1> HIDE DEF r
<1>9. PICK old \in WorkRow : old = work[t][a]
  BY <1>1 DEF LedgerTypes
<1> DEFINE w == [old EXCEPT !.phase = "calling"]
<1>10. w \in WorkRow /\ w.phase = "calling" /\ w.ordinal = old.ordinal /\ w.call = old.call
  BY DEF WorkRow
<1>11. Become(t, a, w)
  BY <1>9
<1> HIDE DEF w
<1>12. work' \in [TurnId -> [Attempt -> WorkRow]] /\ Writes(work', work, Attempt, t, a, w)
  BY <1>1, <1>10, <1>11, WorkTyped
<1>13. /\ invocation' \in [TurnId -> [Ordinal -> InvocationRow]]
       /\ Writes(invocation', invocation, Ordinal, t, n, r)
  BY <1>1, <1>7, <1>8, RowTyped
<1> DEFINE count == IF row.effect = "priced" THEN 1 ELSE 0
<1>14. /\ starts' \in [TurnId -> [Ordinal -> 0..AttemptBound]]
       /\ Writes(starts', starts, Ordinal, t, n, count)
  <2>1. starts \in [TurnId -> [Ordinal -> 0..AttemptBound]] /\ 1 \in 0..AttemptBound
    BY <1>1, LimitAssumption DEF LedgerTypes, Attempt
  <2>2. CASE row.effect = "priced"
    <3>1. PICK once \in 0..AttemptBound : once = 1
      BY <2>1
    <3>2. once = starts[t][n] + 1 /\ once = count
      BY <1>6, <2>2, <3>1
    <3>3. starts' = [starts EXCEPT ![t][n] = once]
      BY <1>3, <2>2, <3>2
    <3> QED
      BY <1>1, <3>2, <3>3, CountTyped
  <2>3. CASE row.effect # "priced"
    BY <1>3, <1>6, <2>1, <2>3 DEF Writes
  <2> QED
    BY <2>2, <2>3
<1>15. Writes(reported', reported, Ordinal, t, n, reported[t][n])
  BY WriteSame
<1>16. RowOK(r, Gone(t), count, reported[t][n])
  <2>1. a # 0
    BY DEF Attempt
  <2> QED
    BY <1>5, <1>6, <1>7, <2>1 DEF RowOK
<1>17. CallOK(old, row, Gone(t), starts[t][n], reported[t][n])
  <2>1. PICK m \in Ordinal :
          /\ m = work[t][a].ordinal
          /\ CallOK(work[t][a], invocation[t][m], Gone(t), starts[t][m], reported[t][m])
    BY CallKnown DEF InCall
  <2>2. m = n
    BY <2>1
  <2> QED
    BY <1>3, <1>9, <2>1, <2>2
<1>18. CallOK(w, r, Gone(t), count, reported[t][n])
  BY <1>4, <1>5, <1>7, <1>10, <1>17 DEF CallOK, Charging
<1>19. ASSUME NEW b \in Attempt, work[t][b].phase \in InCall, work[t][b].ordinal = n
       PROVE  CallOK(work[t][b], r, Gone(t), count, reported[t][n]) /\ ~Charging(work[t][b])
  <2>1. CallOK(work[t][b], row, Gone(t), starts[t][n], reported[t][n])
    BY <1>3, <1>19, CallKnown
  <2>2. ~Charging(work[t][b])
    BY <1>6, <2>1 DEF CallOK
  <2> QED
    BY <1>4, <1>7, <2>1, <2>2 DEF CallOK
<1>20. LedgerInv'
  <2>1. LedgerTypes'
    BY <1>1, <1>12, <1>14 DEF LedgerTypes
  <2>2. w.ordinal = n
    BY <1>9, <1>10
  <2>3. Moves(t, a, n, w, r, count, reported[t][n])
    BY <1>5, <1>12, <1>13, <1>14, <1>15, <1>16, <1>18, <1>19, <2>2 DEF Moves
  <2>4. BudgetKept'
    BY <1>1, <1>2, <1>3, <1>4, <1>7, <1>13, BudgetSame
  <2> HIDE DEF count
  <2> QED
    BY <1>1, <1>2, <2>1, <2>3, <2>4, CallMoves
<1>21. StoreInv' /\ \A u \in TurnId : Told(u)'
  BY <1>1, <1>2, <1>13, LedgerKeepsStore, ToldSame
<1> QED
  BY <1>20, <1>21 DEF SystemInv

LEMMA StartCallStep ==
  ASSUME SystemInv, NEW t \in TurnId, NEW a \in Attempt, StartCall(t, a)
  PROVE  SystemInv'
<1>1. work[t][a].phase = "prepared"
  BY DEF StartCall, At
<1>2. PICK n \in Ordinal : n = work[t][a].ordinal
  BY <1>1, CallKnown DEF InCall
<1>3. UNCHANGED <<reported, faults>> /\ faults' \in 0..FaultBound
  BY DEF StartCall, SystemInv, LedgerInv, LedgerTypes
<1>4. CASE MayExecute(invocation[t][n])
  <2>1. /\ SetRow(t, n, [invocation[t][n] EXCEPT !.status = "executing", !.token = a])
        /\ LedgerOnly /\ Become(t, a, [work[t][a] EXCEPT !.phase = "calling"])
        /\ starts' = IF invocation[t][n].effect = "priced" THEN [starts EXCEPT ![t][n] = @ + 1]
                                                           ELSE starts
    BY <1>2, <1>4 DEF StartCall
  <2> QED
    BY <1>1, <1>2, <1>3, <1>4, <2>1, RunStep
<1>5. CASE /\ MaybeCharged(invocation[t][n]) /\ SetRow(t, n, Uncertain(invocation[t][n]))
           /\ LedgerOnly /\ Return(t, a, n, TRUE) /\ UNCHANGED starts
  BY <1>3, <1>5, DoubtReturn
<1>6. CASE KeepLedger /\ Return(t, a, n, PricedCommit(invocation[t][n])) /\ UNCHANGED starts
  <2>1. PricedCommit(invocation[t][n]) \in BOOLEAN
    BY DEF PricedCommit
  <2> QED
    BY <1>3, <1>6, <2>1, KeptReturn
<1> QED
  BY <1>2, <1>4, <1>5, <1>6 DEF StartCall

\* What a priced process answered is remembered with the one call it was for.
LEMMA MakeCallStep ==
  ASSUME SystemInv, NEW t \in TurnId, NEW a \in Attempt, NEW result \in Result,
         MakeCall(t, a, result)
  PROVE  SystemInv'
<1>1. StoreInv /\ LedgerInv /\ LedgerTypes /\ BudgetKept /\ \A u \in TurnId : Told(u)
  BY DEF SystemInv, LedgerInv
<1>2. work[t][a].phase = "calling" /\ KeepLedger /\ UNCHANGED <<starts, faults>>
  BY DEF MakeCall, At
<1>3. UNCHANGED <<conversation, turn, attempts, invocation>> /\ [Next]_storeVars
  BY <1>2 DEF KeepLedger
<1>4. PICK n \in Ordinal :
        /\ n = work[t][a].ordinal
        /\ CallOK(work[t][a], invocation[t][n], Gone(t), starts[t][n], reported[t][n])
  BY <1>2, CallKnown DEF InCall
<1>5. PICK old \in WorkRow : old = work[t][a]
  BY <1>1 DEF LedgerTypes
<1> DEFINE w == [old EXCEPT !.phase = "recording", !.result = result]
<1>6. w \in WorkRow /\ w.phase = "recording" /\ w.ordinal = n /\ w.call = old.call
      /\ w.result = result
  BY <1>4, <1>5 DEF WorkRow
<1>7. Become(t, a, w)
  BY <1>5 DEF MakeCall
<1> HIDE DEF w
<1>8. work' \in [TurnId -> [Attempt -> WorkRow]] /\ Writes(work', work, Attempt, t, a, w)
  BY <1>1, <1>6, <1>7, WorkTyped
<1>9. PICK answer \in Result \cup {None} :
        answer = IF old.call.effect = "priced" THEN result ELSE reported[t][n]
  BY <1>1 DEF LedgerTypes
<1>10. /\ reported' \in [TurnId -> [Ordinal -> Result \cup {None}]]
       /\ Writes(reported', reported, Ordinal, t, n, answer)
  <2>1. reported \in [TurnId -> [Ordinal -> Result \cup {None}]]
    BY <1>1 DEF LedgerTypes
  <2>2. reported' = IF old.call.effect = "priced" THEN [reported EXCEPT ![t][n] = result]
                                                  ELSE reported
    BY <1>4, <1>5 DEF MakeCall
  <2>3. CASE old.call.effect = "priced"
    BY <1>9, <2>1, <2>2, <2>3 DEF Writes
  <2>4. CASE old.call.effect # "priced"
    BY <1>9, <2>1, <2>2, <2>4 DEF Writes
  <2> QED
    BY <2>3, <2>4
<1>11. /\ Writes(invocation', invocation, Ordinal, t, n, invocation[t][n])
       /\ Writes(starts', starts, Ordinal, t, n, starts[t][n])
  BY <1>2, <1>3, WriteSame
<1>12. /\ RowOK(invocation[t][n], Gone(t), starts[t][n], reported[t][n])
       /\ turn[t].status = "absent" => invocation[t][n].status = "absent"
  BY RowsKnown
<1> DEFINE Goal == Moves(t, a, n, w, invocation[t][n], starts[t][n], answer)
<1>13. ASSUME old.call.effect = "priced" PROVE Goal
  <2>1. Charging(work[t][a]) /\ answer = result
    BY <1>2, <1>5, <1>9, <1>13 DEF Charging
  <2>2. starts[t][n] = 1
        /\ (Gone(t) \/ (/\ invocation[t][n].status \in {"executing", "uncertain"}
                        /\ invocation[t][n].effect = work[t][a].call.effect))
    BY <1>2, <1>4, <2>1 DEF CallOK
  <2>3. RowOK(invocation[t][n], Gone(t), starts[t][n], answer)
    <3>1. CASE Gone(t)
      BY <1>12, <3>1 DEF RowOK, NoInvocation
    <3>2. CASE ~Gone(t)
      BY <1>12, <2>2, <3>2 DEF RowOK
    <3> QED
      BY <3>1, <3>2
  <2>4. CallOK(w, invocation[t][n], Gone(t), starts[t][n], answer)
    BY <1>4, <1>5, <1>6, <2>1, <2>2 DEF CallOK
  <2>5. ASSUME NEW b \in Attempt \ {a}, work[t][b].phase \in InCall, work[t][b].ordinal = n
        PROVE  /\ CallOK(work[t][b], invocation[t][n], Gone(t), starts[t][n], answer)
               /\ ~Charging(work[t][b])
    <3>1. ~Charging(work[t][b])
      BY <1>1, <1>4, <2>1, <2>5 DEF LedgerInv, OneCharges
    <3>2. CallOK(work[t][b], invocation[t][n], Gone(t), starts[t][n], reported[t][n])
      BY <1>1, <2>5 DEF LedgerInv, CallsOK
    <3> QED
      BY <3>1, <3>2 DEF CallOK
  <2> QED
    BY <1>6, <1>8, <1>10, <1>11, <1>12, <2>3, <2>4, <2>5 DEF Moves
<1>14. ASSUME old.call.effect # "priced" PROVE Goal
  <2>1. answer = reported[t][n] /\ ~Charging(w)
    BY <1>6, <1>9, <1>14 DEF Charging
  <2>2. CallOK(w, invocation[t][n], Gone(t), starts[t][n], answer)
    BY <1>4, <1>5, <1>6, <2>1 DEF CallOK
  <2>3. ASSUME NEW b \in Attempt \ {a}, work[t][b].phase \in InCall, work[t][b].ordinal = n
        PROVE  CallOK(work[t][b], invocation[t][n], Gone(t), starts[t][n], answer)
    BY <1>1, <2>1, <2>3 DEF LedgerInv, CallsOK
  <2> QED
    BY <1>6, <1>8, <1>10, <1>11, <1>12, <2>1, <2>2, <2>3 DEF Moves
<1>15. Goal
  BY <1>13, <1>14
<1>16. LedgerInv'
  <2>1. LedgerTypes'
    BY <1>1, <1>2, <1>8, <1>10 DEF LedgerTypes
  <2>2. BudgetKept'
    BY <1>1, <1>3, <1>11, BudgetSame
  <2> QED
    BY <1>1, <1>3, <1>15, <2>1, <2>2, CallMoves
<1>17. StoreInv' /\ \A u \in TurnId : Told(u)'
  BY <1>1, <1>3, InvNext, ToldSame
<1> QED
  BY <1>16, <1>17 DEF SystemInv

LEMMA RecordedRow ==
  ASSUME NEW row \in InvocationRow, NEW result
  PROVE  \E r \in InvocationRow :
           /\ r = Recorded(row, result) /\ r.token = 0 /\ r.effect = row.effect
           /\ r.status \in {"succeeded", "failed", "uncertain"}
           /\ r.afterCommit => r.status \in {"failed", "uncertain"}
           /\ row.effect = "priced" =>
                /\ r.status = "succeeded" => result = "succeeded"
                /\ r.status = "failed" /\ ~r.afterCommit =>
                     result \notin {"succeeded", "throws", "afterCommit"}
<1>1. PICK st : st = CASE result = "succeeded" -> "succeeded"
                       [] result = "throws" /\ row.effect = "priced" -> "uncertain"
                       [] OTHER -> "failed"
  OBVIOUS
<1>2. PICK committed \in BOOLEAN :
        committed = (result = "afterCommit" \/ (result = "throws" /\ row.effect = "priced"))
  OBVIOUS
<1>3. /\ st \in {"succeeded", "failed", "uncertain"}
      /\ committed => st \in {"failed", "uncertain"}
      /\ st = "succeeded" => result = "succeeded"
      /\ row.effect = "priced" /\ st = "failed" /\ ~committed =>
           result \notin {"succeeded", "throws", "afterCommit"}
  BY <1>1, <1>2
<1> DEFINE r == [row EXCEPT !.token = 0, !.status = st, !.afterCommit = committed]
<1>4. r = Recorded(row, result)
  BY <1>1, <1>2 DEF Recorded
<1>5. 0 \in 0..AttemptBound
  BY LimitAssumption
<1>6. r \in InvocationRow
  BY <1>3, <1>5 DEF InvocationRow, InvocationStatus
<1>7. r.token = 0 /\ r.status = st /\ r.afterCommit = committed /\ r.effect = row.effect
  BY DEF InvocationRow
<1> QED
  BY <1>3, <1>4, <1>6, <1>7

\* finishInvocation writes what the one priced process answered.
LEMMA RecordStep ==
  ASSUME SystemInv, NEW t \in TurnId, NEW a \in Attempt, NEW n \in Ordinal,
         n = work[t][a].ordinal, work[t][a].phase = "recording",
         invocation[t][n].status = "executing",
         SetRow(t, n, Recorded(invocation[t][n], work[t][a].result)), LedgerOnly,
         NEW saw \in BOOLEAN, Return(t, a, n, saw),
         UNCHANGED <<starts, reported>>, faults' \in 0..FaultBound
  PROVE  SystemInv'
<1>1. PICK row \in InvocationRow : row = invocation[t][n]
  BY RowsKnown
<1>2. PICK w \in WorkRow : w = work[t][a]
  BY DEF SystemInv, LedgerInv, LedgerTypes
<1>3. RowOK(row, Gone(t), starts[t][n], reported[t][n]) /\ ~Gone(t)
  BY <1>1, RowsKnown
<1>4. CallOK(w, row, Gone(t), starts[t][n], reported[t][n])
  <2>1. PICK m \in Ordinal :
          /\ m = work[t][a].ordinal
          /\ CallOK(work[t][a], invocation[t][m], Gone(t), starts[t][m], reported[t][m])
    BY CallKnown DEF InCall
  <2>2. m = n
    BY <2>1
  <2> QED
    BY <1>1, <1>2, <2>1, <2>2
<1>5. row.effect = w.call.effect /\ (row.effect = "priced" <=> Charging(w))
  BY <1>2, <1>3, <1>4 DEF CallOK, Charging
<1>6. PICK r \in InvocationRow :
        /\ r = Recorded(row, w.result) /\ r.token = 0 /\ r.effect = row.effect
        /\ r.status \in {"succeeded", "failed", "uncertain"}
        /\ r.afterCommit => r.status \in {"failed", "uncertain"}
        /\ row.effect = "priced" =>
             /\ r.status = "succeeded" => w.result = "succeeded"
             /\ r.status = "failed" /\ ~r.afterCommit =>
                  w.result \notin {"succeeded", "throws", "afterCommit"}
  BY RecordedRow
<1>7. RowOK(r, FALSE, starts[t][n], reported[t][n])
  <2>1. row.effect = "priced" => reported[t][n] = w.result /\ w.result \in Result
    BY <1>2, <1>4, <1>5 DEF CallOK
  <2>2. row.effect = "priced" =>
          /\ r.status = "failed" /\ ~r.afterCommit => reported[t][n] = "failed"
          /\ r.status = "succeeded" => reported[t][n] = "succeeded"
    BY <1>6, <2>1 DEF Result
  <2> QED
    BY <1>1, <1>3, <1>6, <2>2 DEF RowOK
<1>8. \A b \in Attempt \ {a} : ~(Charging(work[t][b]) /\ work[t][b].ordinal = n)
  <2> SUFFICES ASSUME NEW b \in Attempt \ {a}, Charging(work[t][b]), work[t][b].ordinal = n
               PROVE  FALSE
    OBVIOUS
  <2>1. CallOK(work[t][b], row, Gone(t), starts[t][n], reported[t][n])
    <3>1. PICK m \in Ordinal :
            /\ m = work[t][b].ordinal
            /\ CallOK(work[t][b], invocation[t][m], Gone(t), starts[t][m], reported[t][m])
      BY CallKnown DEF InCall, Charging
    <3>2. m = n
      BY <3>1
    <3> QED
      BY <1>1, <3>1, <3>2
  <2>2. row.effect = "priced"
    BY <1>3, <2>1 DEF CallOK, Charging
  <2> QED
    BY <1>2, <1>5, <2>2 DEF SystemInv, LedgerInv, OneCharges
<1>9. SetRow(t, n, r) /\ invocation[t][n].status # "absent" /\ r.effect = invocation[t][n].effect
  BY <1>1, <1>2, <1>6
<1> QED
  BY <1>3, <1>6, <1>7, <1>8, <1>9, RowReturn

LEMMA RecordCallStep ==
  ASSUME SystemInv, NEW t \in TurnId, NEW a \in Attempt, RecordCall(t, a) \/ CallFails(t, a)
  PROVE  SystemInv'
<1>1. work[t][a].phase \in InCall
  BY DEF RecordCall, CallFails, At, InCall
<1>2. PICK n \in Ordinal : n = work[t][a].ordinal
  BY <1>1, CallKnown
<1>3. UNCHANGED <<starts, reported>> /\ faults' \in 0..FaultBound
  <2>1. faults \in 0..FaultBound /\ FaultBound \in Nat
    BY ToolAssumption DEF SystemInv, LedgerInv, LedgerTypes
  <2> QED
    BY <2>1 DEF RecordCall, CallFails, Fault
<1>4. \E saw \in BOOLEAN :
        /\ Return(t, a, n, saw)
        /\ \/ KeepLedger
           \/ /\ work[t][a].phase = "recording" /\ invocation[t][n].status = "executing"
              /\ SetRow(t, n, Recorded(invocation[t][n], work[t][a].result)) /\ LedgerOnly
  <2>1. CASE CallFails(t, a)
    BY <1>2, <2>1 DEF CallFails
  <2>2. CASE RecordCall(t, a)
    <3> DEFINE final == Recorded(invocation[t][n], work[t][a].result)
    <3>1. CASE invocation[t][n].status = "executing" /\ invocation[t][n].token = a
      <4>1. PricedCommit(final) \in BOOLEAN
        BY DEF PricedCommit
      <4>2. /\ Return(t, a, n, PricedCommit(final)) /\ SetRow(t, n, final) /\ LedgerOnly
            /\ work[t][a].phase = "recording"
        BY <1>2, <2>2, <3>1 DEF RecordCall, At
      <4> QED
        BY <3>1, <4>1, <4>2
    <3>2. CASE ~(invocation[t][n].status = "executing" /\ invocation[t][n].token = a)
      <4> DEFINE saw == IF Terminal(invocation[t][n]) THEN PricedCommit(invocation[t][n])
                        ELSE work[t][a].call.effect = "priced"
      <4>1. saw \in BOOLEAN
        BY DEF PricedCommit
      <4>2. Return(t, a, n, saw) /\ KeepLedger
        BY <1>2, <2>2, <3>2 DEF RecordCall
      <4> QED
        BY <4>1, <4>2
    <3> QED
      BY <3>1, <3>2
  <2> QED
    BY <2>1, <2>2
<1>5. PICK saw \in BOOLEAN :
        /\ Return(t, a, n, saw)
        /\ \/ KeepLedger
           \/ /\ work[t][a].phase = "recording" /\ invocation[t][n].status = "executing"
              /\ SetRow(t, n, Recorded(invocation[t][n], work[t][a].result)) /\ LedgerOnly
  BY <1>4
<1>6. CASE KeepLedger
  BY <1>3, <1>5, <1>6, KeptReturn
<1>7. CASE /\ work[t][a].phase = "recording" /\ invocation[t][n].status = "executing"
           /\ SetRow(t, n, Recorded(invocation[t][n], work[t][a].result)) /\ LedgerOnly
  BY <1>2, <1>3, <1>5, <1>7, RecordStep
<1> QED
  BY <1>5, <1>6, <1>7

\* The claim of a turn, and what ends or interrupts an attempt.
LEMMA AttemptStep ==
  ASSUME SystemInv, NEW t \in TurnId, NEW a \in Attempt,
         \/ \E status \in TerminalStatus : Answer(t, a, status)
         \/ GiveUp(t, a) \/ Shutdown(t, a) \/ Crash(t, a)
  PROVE  SystemInv'
<1>1. LedgerTypes /\ UNCHANGED <<starts, reported>>
  BY DEF SystemInv, LedgerInv, Answer, GiveUp, Shutdown, Crash
<1>2. faults' \in 0..FaultBound
  <2>1. faults \in 0..FaultBound /\ FaultBound \in Nat
    BY <1>1, ToolAssumption DEF LedgerTypes
  <2> QED
    BY <2>1 DEF Answer, GiveUp, Shutdown, Crash, Fault
<1>3. a \in 1..AttemptBound
  BY DEF Attempt
<1>4. [Next]_storeVars
  <2>1. ASSUME NEW status \in TerminalStatus, Answer(t, a, status) PROVE [Next]_storeVars
    <3>1. CASE UNCHANGED storeVars
      BY <3>1
    <3>2. CASE status = "failed" /\ CompleteClaim(t, a, "failed", ErrorOf(work[t][a]))
      <4>1. ErrorOf(work[t][a]) \in {"OTHER", "DEPENDENCY_FAILURE_AFTER_COMMIT"}
        BY DEF ErrorOf
      <4>2. WorkerCall
        BY <1>3, <3>2, <4>1 DEF WorkerCall
      <4> QED
        BY <4>2 DEF Next
    <3>3. CASE status = "succeeded" /\ CompleteClaim(t, a, "succeeded", None)
      <4>1. WorkerCall
        BY <1>3, <3>3 DEF WorkerCall
      <4> QED
        BY <4>1 DEF Next
    <3> QED
      BY <2>1, <3>1, <3>2, <3>3 DEF Answer, TerminalStatus
  <2>2. CASE ReleaseClaim(t, a)
    <3>1. WorkerCall
      BY <1>3, <2>2 DEF WorkerCall
    <3> QED
      BY <3>1 DEF Next
  <2> QED
    BY <2>1, <2>2 DEF GiveUp, Shutdown, Crash
<1>5. work' \in [TurnId -> [Attempt -> WorkRow]] /\ \A u \in TurnId, b \in Attempt : QuietWork(u, b)
  <2>1. CASE Ended(t, a)
    BY <1>1, <2>1, EndedIs, QuietBecome DEF Ended
  <2>2. CASE Become(t, a, [work[t][a] EXCEPT !.aborted = TRUE])
    <3>1. PICK old \in WorkRow : old = work[t][a]
      BY <1>1 DEF LedgerTypes
    <3> DEFINE w == [old EXCEPT !.aborted = TRUE]
    <3>2. w \in WorkRow /\ w.phase = old.phase /\ w.ordinal = old.ordinal /\ w.call = old.call
          /\ w.result = old.result
      BY DEF WorkRow
    <3>3. Become(t, a, w)
      BY <2>2, <3>1
    <3> HIDE DEF w
    <3> QED
      BY <1>1, <3>1, <3>2, <3>3, QuietBecome
  <2> QED
    BY <2>1, <2>2 DEF Answer, GiveUp, Shutdown, Crash
<1> QED
  BY <1>1, <1>2, <1>4, <1>5, StoreStep

LEMMA TakeStep ==
  ASSUME SystemInv, NEW t \in TurnId, TakeTurn(t)
  PROVE  SystemInv'
<1>1. StoreInv /\ LedgerTypes /\ Claim(t) /\ UNCHANGED <<starts, reported, faults>>
  BY DEF SystemInv, LedgerInv, TakeTurn
<1>2. [Next]_storeVars
  BY <1>1 DEF Next, WorkerCall
<1>3. StoreInv'
  BY <1>1, <1>2, InvNext
<1>4. work' \in [TurnId -> [Attempt -> WorkRow]] /\ \A u \in TurnId, b \in Attempt : QuietWork(u, b)
  <2>1. CASE turn'[t].status = "running"
    <3>1. turn'[t].claim \in Attempt
      <4>1. turn'[t] \in TurnRow /\ Fits(turn'[t], attempts'[t]) /\ attempts'[t] \in Seq(AttemptStatus)
        BY <1>3 DEF StoreInv, TableInv, TableTypes, AttemptsFit
      <4>2. turn'[t].claim \in 0..AttemptBound /\ turn'[t].claim > 0
        BY <2>1, <4>1, LenProperties DEF Fits, TurnRow
      <4> QED
        BY <4>2, LimitAssumption DEF Attempt
    <3>2. Become(t, turn'[t].claim, [NoWork EXCEPT !.phase = "thinking"])
      BY <2>1 DEF TakeTurn
    <3>3. PICK b \in Attempt : Become(t, b, [NoWork EXCEPT !.phase = "thinking"])
      BY <3>1, <3>2
    <3> QED
      BY <1>1, <3>3, EndedIs, QuietBecome
  <2>2. CASE turn'[t].status # "running"
    <3>1. work' = work
      BY <2>2 DEF TakeTurn
    <3> QED
      BY <1>1, <3>1 DEF LedgerTypes, QuietWork
  <2> QED
    BY <2>1, <2>2
<1>5. faults' \in 0..FaultBound
  BY <1>1 DEF LedgerTypes
<1> QED
  BY <1>1, <1>2, <1>4, <1>5, StoreStep

\* Every reachable state satisfies the invariant.
LEMMA SystemInvInit == SystemInit => SystemInv
<1> SUFFICES ASSUME SystemInit PROVE SystemInv
  OBVIOUS
<1>1. Init
  BY DEF SystemInit
<1>2. StoreInv
  BY <1>1, InvInit
<1>3. ASSUME NEW t \in TurnId PROVE Told(t)
  <2>1. turn[t].status = "absent" /\ Len(attempts[t]) = 0
    BY <1>1 DEF Init, NoTurn
  <2> QED
    BY <2>1 DEF Told
<1>4. \A t \in TurnId, a \in Attempt : work[t][a] = NoWork
  BY DEF SystemInit
<1>5. LedgerTypes
  <2>1. NoWork \in WorkRow
    BY DEF NoWork, WorkRow
  <2> QED
    BY <2>1, LimitAssumption, ToolAssumption DEF SystemInit, LedgerTypes
<1>6. RowsOK
  BY <1>1 DEF SystemInit, Init, RowsOK, RowOK, NoInvocation
<1>7. AbsentTurns
  BY <1>1 DEF Init, AbsentTurns, NoInvocation
<1>8. CallsOK /\ OneCharges
  BY <1>4 DEF CallsOK, OneCharges, InCall, Charging, NoWork
<1>9. BudgetKept
  <2> SUFFICES ASSUME NEW c \in ConversationId
               PROVE  IsFiniteSet(PricedRows(c)) /\ Cardinality(PricedRows(c)) <= PricedPerConversation
    BY DEF BudgetKept
  <2>1. TurnsOf(c) = {}
    BY <1>1, NoneAssumption DEF Init, TurnsOf, NoTurn
  <2>2. PricedRows(c) = {}
    BY <2>1 DEF PricedRows
  <2> QED
    BY <2>2, FS_EmptySet, ToolAssumption
<1> QED
  BY <1>2, <1>3, <1>5, <1>6, <1>7, <1>8, <1>9 DEF SystemInv, LedgerInv

LEMMA SystemInvNext == SystemInv /\ [SystemNext]_systemVars => SystemInv'
<1> SUFFICES ASSUME SystemInv, [SystemNext]_systemVars PROVE SystemInv'
  OBVIOUS
<1>1. LedgerTypes /\ faults \in 0..FaultBound /\ FaultBound \in Nat
  BY ToolAssumption DEF SystemInv, LedgerInv, LedgerTypes
<1>2. ASSUME [Next]_storeVars, UNCHANGED <<work, starts, reported>>, faults' \in 0..FaultBound
      PROVE  SystemInv'
  <2>1. work' \in [TurnId -> [Attempt -> WorkRow]]
        /\ \A u \in TurnId, b \in Attempt : QuietWork(u, b)
    BY <1>1, <1>2 DEF LedgerTypes, QuietWork
  <2> QED
    BY <1>2, <2>1, StoreStep
<1>3. CASE (NewRequest \/ ApiStep) /\ UNCHANGED <<work, starts, reported, faults>>
  <2>1. Next
    BY <1>3 DEF NewRequest, Next
  <2> QED
    BY <1>1, <1>2, <1>3, <2>1
<1>4. CASE Passing /\ Fault /\ UNCHANGED <<work, starts, reported>>
  <2>1. Next /\ faults' \in 0..FaultBound
    BY <1>1, <1>4 DEF Next, Fault
  <2> QED
    BY <1>2, <1>4, <2>1
<1>5. CASE WorkerStep
  <2>1. PICK t \in TurnId :
          \/ TakeTurn(t)
          \/ \E a \in Attempt :
               \/ \E call \in ToolCall : PrepareCall(t, a, call)
               \/ StartCall(t, a)
               \/ \E result \in Result : MakeCall(t, a, result)
               \/ RecordCall(t, a) \/ CallFails(t, a)
               \/ \E status \in TerminalStatus : Answer(t, a, status)
               \/ GiveUp(t, a) \/ Shutdown(t, a) \/ Crash(t, a)
    BY <1>5 DEF WorkerStep
  <2>2. CASE TakeTurn(t)
    BY <2>2, TakeStep
  <2>3. ASSUME NEW a \in Attempt, NEW call \in ToolCall, PrepareCall(t, a, call) PROVE SystemInv'
    BY <2>3, PrepareStep
  <2>4. ASSUME NEW a \in Attempt, StartCall(t, a) PROVE SystemInv'
    BY <2>4, StartCallStep
  <2>5. ASSUME NEW a \in Attempt, NEW result \in Result, MakeCall(t, a, result) PROVE SystemInv'
    BY <2>5, MakeCallStep
  <2>6. ASSUME NEW a \in Attempt, RecordCall(t, a) \/ CallFails(t, a) PROVE SystemInv'
    BY <2>6, RecordCallStep
  <2>7. ASSUME NEW a \in Attempt,
               \/ \E status \in TerminalStatus : Answer(t, a, status)
               \/ GiveUp(t, a) \/ Shutdown(t, a) \/ Crash(t, a)
        PROVE  SystemInv'
    BY <2>7, AttemptStep
  <2> QED
    BY <2>1, <2>2, <2>3, <2>4, <2>5, <2>6, <2>7
<1>6. CASE UNCHANGED systemVars
  BY <1>1, <1>2, <1>6 DEF systemVars
<1> QED
  BY <1>3, <1>4, <1>5, <1>6 DEF SystemNext

LEMMA SystemInvHolds == SystemSpec => []SystemInv
BY SystemInvInit, SystemInvNext, PTL DEF SystemSpec

-----------------------------------------------------------------------------
(* The theorems                                                            *)

\* Whatever leases end, workers die, database calls fail or replies are lost,
\* a process that costs money is invoked at most once for a call of a turn.
THEOREM PricedCallsRunOnce == SystemSpec => []PricedRunsOnce
<1>1. SystemInv => PricedRunsOnce
  BY DEF SystemInv, LedgerInv, RowsOK, RowOK, PricedRunsOnce
<1> QED
  BY <1>1, SystemInvHolds, PTL

\* Over all attempts of a turn, overlapping or not, the turn has one claim and
\* one outcome, the conversation's budget for priced processes is kept, and the
\* ledger says of each what it answered or that nobody knows.
THEOREM LedgerStaysConsistent == SystemSpec => []LedgerConsistent
<1>1. SystemInv => LedgerConsistent
  <2> SUFFICES ASSUME SystemInv PROVE LedgerConsistent
    OBVIOUS
  <2>1. StoreInv /\ TableInv /\ SessionTypes /\ LedgerTypes /\ RowsOK /\ BudgetKept
        /\ \A t \in TurnId : Told(t)
    BY DEF SystemInv, StoreInv, SessionInv, LedgerInv
  <2>2. SystemTypeOK
    <3>1. TypeOK
      BY <2>1, TypeParts
    <3>2. \A t \in TurnId, n \in Ordinal :
            LET row == invocation[t][n] IN
            /\ (row.token # 0) = (row.status = "executing")
            /\ row.afterCommit => row.status \in {"failed", "uncertain"}
      BY <2>1 DEF RowsOK, RowOK
    <3> QED
      BY <2>1, <3>1, <3>2 DEF SystemTypeOK, LedgerTypes, WorkRow
  <2>3. ClaimOwnsRunningAttempt
    BY <2>1, ConsistentWhenInv DEF ConversationsConsistent
  <2>4. OutcomeIsLastAttempts
    <3> SUFFICES ASSUME NEW t \in TurnId
                 PROVE  LET last == Len(attempts[t]) IN
                        /\ \A i \in DOMAIN attempts[t] : i < last => attempts[t][i] = "abandoned"
                        /\ turn[t].status = "succeeded" =>
                             last > 0 /\ attempts[t][last] = "succeeded"
                        /\ turn[t].status = "failed" =>
                             \/ last > 0 /\ attempts[t][last] = "failed"
                             \/ ~Live(turn[t].conversation) /\ turn[t].error = "INTERNAL_ERROR"
      BY DEF OutcomeIsLastAttempts
    <3>1. attempts[t] \in Seq(AttemptStatus) /\ Told(t)
      BY <2>1 DEF TableInv, TableTypes
    <3>2. DOMAIN attempts[t] = 1..Len(attempts[t])
      BY <3>1, LenProperties
    <3> QED
      BY <3>1, <3>2 DEF Told
  <2>5. PricedBudgetKept
    <3> SUFFICES ASSUME NEW c \in ConversationId
                 PROVE  Cardinality({p \in TurnsOf(c) \X Ordinal : starts[p[1]][p[2]] > 0})
                          <= PricedPerConversation
      BY DEF PricedBudgetKept
    <3> DEFINE begun == {p \in TurnsOf(c) \X Ordinal : starts[p[1]][p[2]] > 0}
    <3>1. begun \subseteq PricedRows(c)
      <4> SUFFICES ASSUME NEW p \in begun PROVE p \in PricedRows(c)
        OBVIOUS
      <4>1. PICK t \in TurnId, n \in Ordinal :
              p = <<t, n>> /\ turn[t].conversation = c /\ starts[t][n] > 0
        BY DEF TurnsOf
      <4>2. ~Gone(t)
        BY <2>1, <4>1, NoneAssumption DEF Gone, TableInv, TurnsHaveHomes
      <4>3. RowOK(invocation[t][n], Gone(t), starts[t][n], reported[t][n])
        BY <2>1 DEF RowsOK
      <4>4. invocation[t][n].effect = "priced" /\ invocation[t][n].status # "absent"
        BY <4>1, <4>2, <4>3 DEF RowOK
      <4> QED
        BY <4>1, <4>4 DEF PricedRows, TurnsOf
    <3> HIDE DEF begun
    <3>2. IsFiniteSet(PricedRows(c)) /\ Cardinality(PricedRows(c)) <= PricedPerConversation
      BY <2>1 DEF BudgetKept
    <3>3. Cardinality(begun) <= Cardinality(PricedRows(c)) /\ Cardinality(begun) \in Nat
          /\ Cardinality(PricedRows(c)) \in Nat
      BY <3>1, <3>2, FS_Subset, FS_CardinalityType
    <3>4. Cardinality(begun) <= PricedPerConversation
      BY <3>2, <3>3, ToolAssumption
    <3> QED
      BY <3>4 DEF begun
  <2>6. PricedResultKept
    <3> SUFFICES ASSUME NEW t \in TurnId, NEW n \in Ordinal,
                        starts[t][n] > 0, invocation[t][n].effect = "priced"
                 PROVE  LET row == invocation[t][n] IN
                        /\ row.status # "prepared"
                        /\ row.status = "failed" /\ ~row.afterCommit => reported[t][n] = "failed"
                        /\ row.status = "succeeded" => reported[t][n] = "succeeded"
      BY DEF PricedResultKept
    <3>1. RowOK(invocation[t][n], Gone(t), starts[t][n], reported[t][n])
      BY <2>1 DEF RowsOK
    <3> QED
      BY <3>1 DEF RowOK, NoInvocation
  <2> QED
    BY <2>2, <2>3, <2>4, <2>5, <2>6 DEF LedgerConsistent
<1> QED
  BY <1>1, SystemInvHolds, PTL

-----------------------------------------------------------------------------
(* A reader of a conversation's pages.                                     *)

(* Only the last turn is ever worked on, and it makes the conversation     *)
(* busy.                                                                   *)
HistorySound ==
  /\ standing \in {"busy", "ready", "gone"} /\ registered \in BOOLEAN
  /\ history \in Seq(Waiting \cup Over) /\ Len(history) <= HistoryLimit
  /\ standing = "gone" => history = <<>>
  /\ standing # "gone" =>
       /\ Len(history) # 0
       /\ \A i \in 1..Len(history) : i < Len(history) => history[i] \in Over
       /\ standing = "ready" <=> history[Len(history)] \in Over

ShownTurn == [turn : Nat, status : Waiting \cup Over]
ReaderRow ==
  [at : {"idle", "looking", "paging", "done", "lost", "continued"},
   after : 0..HistoryLimit, limit : 0..GlobalPage, seen : Seq(ShownTurn), existed : Nat,
   view : [standing : {"busy", "ready", "gone"}, last : Nat], own : Nat]

(* Nobody has been shown more than there is.                               *)
ReaderSound ==
  /\ reader \in ReaderRow
  /\ reader.at = "looking" => reader.limit # 0
  /\ standing # "gone" => /\ Len(reader.seen) <= Len(history)
                          /\ reader.existed <= Len(history)

PageInv ==
  HistorySound /\ ReaderSound /\ PagesLeaveNoGap /\ LastPageIsTheEnd /\ ContinuesWhatItSaw

LEMMA NewReaderSound ==
  /\ NewReader \in ReaderRow /\ NewReader.at = "idle" /\ NewReader.seen = <<>>
  /\ NewReader.after = 0 /\ NewReader.existed = 0 /\ Len(NewReader.seen) = 0
BY PageAssumption DEF NewReader, ReaderRow

(* A reader that begins anew has nothing to be wrong about.                *)
LEMMA EmptyReaderSound ==
  ASSUME HistorySound', reader' \in ReaderRow, reader'.seen = <<>>,
         reader'.at \in {"idle", "lost", "looking"},
         reader'.at = "looking" => reader'.limit # 0 /\ reader'.after = 0,
         standing' # "gone" => reader'.existed <= Len(history)'
  PROVE  PageInv'
<1>1. Len(reader'.seen) = 0 /\ DOMAIN reader'.seen = {}
  OBVIOUS
<1>2. ReaderSound'
  BY <1>1 DEF ReaderSound, HistorySound
<1>3. PagesLeaveNoGap'
  BY <1>1 DEF PagesLeaveNoGap
<1>4. LastPageIsTheEnd' /\ ContinuesWhatItSaw'
  BY DEF LastPageIsTheEnd, ContinuesWhatItSaw
<1> QED
  BY <1>2, <1>3, <1>4 DEF PageInv

(* The conversation goes on, or is gone, while the reader does nothing.    *)
LEMMA OthersKeepPages ==
  ASSUME PageInv, HistorySound', UNCHANGED reader,
         standing' # "gone" =>
           /\ standing # "gone" /\ Len(history) <= Len(history')
           /\ \A i \in 1..Len(history) : history[i] \in Over => history'[i] = history[i]
  PROVE  PageInv'
<1>1. reader \in ReaderRow /\ Len(reader.seen) \in Nat /\ DOMAIN reader.seen = 1..Len(reader.seen)
      /\ reader.existed \in Nat
  BY DEF PageInv, ReaderSound, ReaderRow
<1>2. Len(history) \in Nat /\ Len(history') \in Nat
  BY DEF PageInv, HistorySound
<1>3. ReaderSound'
  BY <1>1, <1>2 DEF PageInv, ReaderSound
<1>4. PagesLeaveNoGap'
  BY <1>1, <1>2 DEF PageInv, PagesLeaveNoGap, ReaderSound
<1>5. LastPageIsTheEnd' /\ ContinuesWhatItSaw'
  BY DEF PageInv, LastPageIsTheEnd, ContinuesWhatItSaw
<1> QED
  BY <1>3, <1>4, <1>5 DEF PageInv

LEMMA AppendTurnSound ==
  ASSUME HistorySound, AppendTurn, standing = "ready", Len(history) < HistoryLimit
  PROVE  /\ HistorySound' /\ standing' # "gone" /\ Len(history') = Len(history) + 1
         /\ Len(history) \in Nat
         /\ \A i \in 1..Len(history) : history'[i] = history[i]
<1>1. /\ history' = Append(history, "queued") /\ standing' = "busy" /\ registered' = registered
      /\ history \in Seq(Waiting \cup Over) /\ Len(history) \in Nat /\ Len(history) # 0
      /\ HistoryLimit \in Nat
  BY PageAssumption DEF AppendTurn, HistorySound
<1>2. "queued" \in Waiting \cup Over /\ "queued" \notin Over
  BY DEF Waiting, Over
<1>3. /\ history' \in Seq(Waiting \cup Over) /\ Len(history') = Len(history) + 1
      /\ \A i \in 1..Len(history) : history'[i] = history[i]
      /\ history'[Len(history) + 1] = "queued"
  BY <1>1, <1>2
<1>4. \A i \in 1..Len(history) : history[i] \in Over
  BY <1>1 DEF HistorySound
<1>5. \A i \in 1..Len(history') : i < Len(history') => i \in 1..Len(history)
  BY <1>1, <1>3
<1>6. \A i \in 1..Len(history') : i < Len(history') => history'[i] \in Over
  BY <1>3, <1>4, <1>5
<1>7. HistorySound'
  BY <1>1, <1>2, <1>3, <1>6 DEF HistorySound
<1> QED
  BY <1>1, <1>3, <1>7

LEMMA WorkSound ==
  ASSUME PageInv, ClaimTurn \/ EndTurn \/ ReleaseTurn
  PROVE  PageInv'
<1>1. PICK from \in Waiting, to \in Waiting \cup Over, after \in {"busy", "ready"} :
        /\ WorkOnTurn(from, to, after)
        /\ after = "ready" <=> to \in Over
  BY DEF ClaimTurn, EndTurn, ReleaseTurn, Waiting, Over
<1> DEFINE n == Len(history)
<1>2. /\ standing # "gone" /\ history[n] = from /\ standing' = after
      /\ history' = [history EXCEPT ![n] = to] /\ UNCHANGED <<registered, reader>>
      /\ history \in Seq(Waiting \cup Over) /\ n \in Nat /\ n # 0 /\ HistorySound
      /\ from \notin Over
  BY <1>1 DEF WorkOnTurn, PageInv, HistorySound, Waiting, Over
<1>3. /\ history' \in Seq(Waiting \cup Over) /\ Len(history') = n /\ history'[n] = to
      /\ \A i \in 1..n : i # n => history'[i] = history[i]
  BY <1>2
<1>4. HistorySound'
  BY <1>1, <1>2, <1>3 DEF HistorySound
<1>5. \A i \in 1..n : history[i] \in Over => history'[i] = history[i]
  BY <1>2, <1>3
<1> HIDE DEF n
<1>6. Len(history) <= Len(history')
  <2>1. n <= Len(history')
    BY <1>2, <1>3
  <2> QED
    BY <2>1 DEF n
<1>7. /\ \A i \in 1..Len(history) : history[i] \in Over => history'[i] = history[i]
      /\ standing # "gone" /\ UNCHANGED reader
  BY <1>2, <1>5 DEF n
<1> QED
  BY <1>4, <1>6, <1>7, OthersKeepPages

LEMMA FindMetadataKeeps ==
  ASSUME PageInv, NEW asked \in AskedLimit, FindMetadata(asked)
  PROVE  PageInv'
<1> DEFINE begun == [NewReader EXCEPT !.existed = Len(history)]
           r == IF reader.at \in {"looking", "paging"} THEN reader ELSE begun
<1>1. /\ UNCHANGED <<standing, history, registered>>
      /\ reader' = IF standing = "gone" THEN NotFound
                   ELSE [r EXCEPT !.at = "looking", !.limit = PageLimit(asked)]
      /\ HistorySound /\ ReaderSound /\ PagesLeaveNoGap
  BY DEF FindMetadata, PageInv
<1>2. HistorySound' /\ Len(history) \in Nat
  BY <1>1 DEF HistorySound
<1>3. PageLimit(asked) \in 0..GlobalPage /\ PageLimit(asked) # 0
  BY PageAssumption DEF PageLimit, AskedLimit, LeastOf
<1>4. begun \in ReaderRow /\ begun.seen = <<>> /\ begun.after = 0 /\ begun.existed = Len(history)
  BY <1>2, NewReaderSound DEF ReaderRow
<1> HIDE DEF begun
<1>5. CASE standing = "gone"
  <2>1. NotFound \in ReaderRow /\ NotFound.seen = <<>> /\ NotFound.at = "lost"
    BY NewReaderSound DEF NotFound, ReaderRow
  <2> QED
    BY <1>1, <1>2, <1>5, <2>1, EmptyReaderSound
<1>6. CASE standing # "gone" /\ reader.at \notin {"looking", "paging"}
  <2>1. reader' = [begun EXCEPT !.at = "looking", !.limit = PageLimit(asked)]
    BY <1>1, <1>6
  <2>2. /\ reader' \in ReaderRow /\ reader'.seen = <<>> /\ reader'.at = "looking"
        /\ reader'.limit = PageLimit(asked) /\ reader'.after = 0
        /\ reader'.existed = Len(history)
    BY <1>3, <1>4, <2>1 DEF ReaderRow
  <2> QED
    BY <1>1, <1>2, <1>3, <2>2, EmptyReaderSound
<1>7. CASE standing # "gone" /\ reader.at \in {"looking", "paging"}
  <2>1. reader' = [reader EXCEPT !.at = "looking", !.limit = PageLimit(asked)]
    BY <1>1, <1>7
  <2>2. reader \in ReaderRow
    BY <1>1 DEF ReaderSound
  <2>3. /\ reader' \in ReaderRow /\ reader'.at = "looking"
        /\ reader'.limit = PageLimit(asked) /\ reader'.after = reader.after
        /\ reader'.existed = reader.existed /\ reader'.seen = reader.seen
    BY <1>3, <2>1, <2>2 DEF ReaderRow
  <2>4. ReaderSound'
    BY <1>1, <1>3, <2>3 DEF ReaderSound
  <2>5. PagesLeaveNoGap'
    BY <1>1, <1>7, <2>3 DEF PagesLeaveNoGap
  <2>6. LastPageIsTheEnd' /\ ContinuesWhatItSaw'
    BY <2>3 DEF LastPageIsTheEnd, ContinuesWhatItSaw
  <2> QED
    BY <1>2, <2>4, <2>5, <2>6 DEF PageInv
<1> QED
  BY <1>5, <1>6, <1>7

(* The turns of a page, one by one.                                        *)
LEMMA PageLines ==
  ASSUME history \in Seq(Waiting \cup Over), NEW after \in 0..Len(history),
         NEW limit \in Nat \ {0}
  PROVE  LET rows == RowsFrom(after, limit)
             page == PageOf(rows, limit)
             n == LeastOf(Len(history) - after, limit)
         IN  /\ page \in Seq(ShownTurn)
             /\ Len(page) = n /\ n \in Nat
             /\ \A j \in 1..n : page[j] = [turn |-> after + j, status |-> history[after + j]]
             /\ (NextAfter(rows, page) = 0) <=> (Len(history) - after <= limit)
             /\ NextAfter(rows, page) # 0 => n = limit /\ NextAfter(rows, page) = after + n
<1> DEFINE S == Waiting \cup Over
           rows == RowsFrom(after, limit)
           page == PageOf(rows, limit)
           left == Len(history) - after
           n == LeastOf(left, limit)
           m == LeastOf(left, limit + 1)
<1>1. left \in Nat /\ Len(history) \in Nat /\ after \in Nat /\ history \in Seq(S)
  OBVIOUS
<1>2. /\ n \in Nat /\ m \in Nat /\ n <= m /\ n <= left /\ n <= limit /\ m <= left
      /\ left <= limit => n = left /\ m = left
      /\ left > limit => n = limit /\ m = limit + 1
      /\ LeastOf(m, limit) = n
  BY <1>1 DEF LeastOf
<1>3. rows = [i \in 1..m |-> [turn |-> after + i, status |-> history[after + i]]]
  BY DEF RowsFrom, Shown
<1> HIDE DEF S, rows, left, n, m
<1>4. \A i \in 1..m : after + i \in 1..Len(history)
  BY <1>1, <1>2 DEF left
<1> DEFINE Line(i) == [turn |-> after + i, status |-> history[after + i]]
<1>5. \A i \in 1..m : Line(i) \in ShownTurn
  <2> SUFFICES ASSUME NEW i \in 1..m
               PROVE  Line(i) \in ShownTurn
    OBVIOUS
  <2>1. after + i \in Nat
    BY <1>1, <1>2
  <2>2. history[after + i] \in S
    BY <1>1, <1>4
  <2> QED
    BY <2>1, <2>2 DEF ShownTurn, S
<1> HIDE DEF Line
<1>6. rows \in Seq(ShownTurn) /\ Len(rows) = m
  <2>1. rows = [i \in 1..m |-> Line(i)]
    BY <1>3 DEF Line
  <2> QED
    BY <1>2, <1>5, <2>1
<1>7. page = SubSeq(rows, 1, n)
  BY <1>2, <1>6 DEF PageOf
<1> HIDE DEF page
<1>8. /\ page \in Seq(ShownTurn) /\ Len(page) = n
      /\ \A j \in 1..n : page[j] = rows[j]
  <2>1. SubSeq(rows, 1, n) = [i \in 1..n |-> rows[i]]
    BY <1>2, <1>6
  <2>2. \A i \in 1..n : rows[i] \in ShownTurn
    <3> SUFFICES ASSUME NEW i \in 1..n
                 PROVE  rows[i] \in ShownTurn
      OBVIOUS
    <3>1. i \in 1..m
      BY <1>2
    <3>2. rows[i] = Line(i)
      BY <1>3, <3>1 DEF Line
    <3> QED
      BY <1>5, <3>1, <3>2
  <2> QED
    BY <1>2, <1>7, <2>1, <2>2
<1>9. \A j \in 1..n : page[j] = [turn |-> after + j, status |-> history[after + j]]
  <2> SUFFICES ASSUME NEW j \in 1..n
               PROVE  page[j] = Line(j)
    BY DEF Line
  <2>1. j \in 1..m
    BY <1>2
  <2>2. page[j] = rows[j]
    BY <1>8
  <2>3. rows[j] = Line(j)
    BY <1>3, <2>1 DEF Line
  <2> QED
    BY <2>2, <2>3
<1>10. NextAfter(rows, page) = IF m > n THEN page[n].turn ELSE 0
  BY <1>6, <1>8 DEF NextAfter
<1>11. CASE left <= limit
  BY <1>2, <1>8, <1>9, <1>10, <1>11 DEF left, n, rows, page
<1>12. CASE left > limit
  <2>1. n = limit /\ m > n /\ n \in 1..n
    BY <1>2, <1>12
  <2>2. page[n].turn = after + n /\ after + n # 0
    <3>0. page[n] = [turn |-> after + n, status |-> history[after + n]]
      BY <1>9, <2>1
    <3>1. page[n].turn = after + n
      BY <3>0
    <3> QED
      BY <1>1, <1>2, <2>1, <3>1
  <2> QED
    BY <1>1, <1>2, <1>8, <1>9, <1>10, <1>12, <2>1, <2>2 DEF left, n, rows, page
<1> QED
  BY <1>1, <1>2, <1>11, <1>12

LEMMA TwoPages ==
  ASSUME NEW S, NEW s \in Seq(S), NEW t \in Seq(S)
  PROVE  /\ s \o t \in Seq(S) /\ Len(s \o t) = Len(s) + Len(t)
         /\ \A i \in 1..Len(s) : (s \o t)[i] = s[i]
         /\ \A i \in 1..Len(t) : (s \o t)[Len(s) + i] = t[i]
         /\ \A i \in 1..Len(s \o t) : i \in 1..Len(s) \/ \E j \in 1..Len(t) : i = Len(s) + j
<1>1. /\ s \o t \in Seq(S) /\ Len(s \o t) = Len(s) + Len(t)
      /\ Len(s) \in Nat /\ Len(t) \in Nat
      /\ \A i \in 1..Len(s) : (s \o t)[i] = s[i]
      /\ \A i \in 1..Len(t) : (s \o t)[Len(s) + i] = t[i]
  OBVIOUS
<1>2. ASSUME NEW i \in 1..Len(s \o t), i \notin 1..Len(s)
      PROVE  \E j \in 1..Len(t) : i = Len(s) + j
  <2>1. i - Len(s) \in 1..Len(t) /\ i = Len(s) + (i - Len(s))
    BY <1>1, <1>2
  <2> QED
    BY <2>1
<1> QED
  BY <1>1, <1>2

(* A page continues what was shown, and only the last one may end with a   *)
(* turn that is still to be worked on.                                     *)
LEMMA FindPageKeeps ==
  ASSUME PageInv, FindPage
  PROVE  PageInv'
<1> DEFINE rows == RowsFrom(reader.after, reader.limit)
           page == PageOf(rows, reader.limit)
           next == NextAfter(rows, page)
           shown == reader.seen \o page
           n == Len(page)
           k == Len(reader.seen)
           all == Len(history)
<1>1. /\ UNCHANGED <<standing, history, registered>> /\ reader.at = "looking"
      /\ reader' = IF standing = "gone" THEN NotFound
                   ELSE [reader EXCEPT !.at = IF next = 0 THEN "done" ELSE "paging",
                           !.after = next, !.seen = shown, !.view = Metadata]
      /\ HistorySound /\ ReaderSound /\ PagesLeaveNoGap /\ reader \in ReaderRow
  BY DEF FindPage, PageInv, ReaderSound
<1>2. HistorySound'
  BY <1>1 DEF HistorySound
<1>3. CASE standing = "gone"
  <2>1. NotFound \in ReaderRow /\ NotFound.seen = <<>> /\ NotFound.at = "lost"
    BY NewReaderSound DEF NotFound, ReaderRow
  <2> QED
    BY <1>1, <1>2, <1>3, <2>1, EmptyReaderSound
<1>4. CASE standing # "gone"
  <2>1. /\ history \in Seq(Waiting \cup Over) /\ all \in Nat /\ all # 0 /\ all <= HistoryLimit
        /\ HistoryLimit \in Nat /\ GlobalPage \in Nat
        /\ reader.seen \in Seq(ShownTurn) /\ k \in Nat /\ k <= all /\ reader.after = k
        /\ reader.limit \in Nat \ {0} /\ reader.existed \in Nat /\ reader.existed <= all
        /\ \A i \in 1..k : /\ reader.seen[i].turn = i /\ reader.seen[i].status \in Over
                           /\ reader.seen[i].status = history[i]
    BY <1>1, <1>4, PageAssumption
       DEF HistorySound, ReaderSound, ReaderRow, PagesLeaveNoGap
  <2>2. /\ page \in Seq(ShownTurn) /\ n = LeastOf(all - k, reader.limit) /\ n \in Nat
        /\ \A j \in 1..n : page[j] = [turn |-> k + j, status |-> history[k + j]]
        /\ (next = 0) <=> (all - k <= reader.limit)
        /\ next # 0 => n = reader.limit /\ next = k + n
    <3> DEFINE a == reader.after
               l == reader.limit
    <3>1. a \in 0..Len(history) /\ l \in Nat \ {0} /\ history \in Seq(Waiting \cup Over)
      BY <2>1
    <3> HIDE DEF a, l
    <3>2. /\ PageOf(RowsFrom(a, l), l) \in Seq(ShownTurn)
          /\ Len(PageOf(RowsFrom(a, l), l)) = LeastOf(Len(history) - a, l)
          /\ LeastOf(Len(history) - a, l) \in Nat
          /\ \A j \in 1..LeastOf(Len(history) - a, l) :
               PageOf(RowsFrom(a, l), l)[j] = [turn |-> a + j, status |-> history[a + j]]
      BY ONLY <3>1, PageLines
    <3>3. /\ (NextAfter(RowsFrom(a, l), PageOf(RowsFrom(a, l), l)) = 0)
               <=> (Len(history) - a <= l)
          /\ NextAfter(RowsFrom(a, l), PageOf(RowsFrom(a, l), l)) # 0 =>
               /\ LeastOf(Len(history) - a, l) = l
               /\ NextAfter(RowsFrom(a, l), PageOf(RowsFrom(a, l), l))
                    = a + LeastOf(Len(history) - a, l)
      BY ONLY <3>1, PageLines
    <3>4. a = k /\ l = reader.limit
      BY <2>1 DEF a, l
    <3>5. page = PageOf(RowsFrom(a, l), l) /\ next = NextAfter(RowsFrom(a, l), page)
      BY DEF a, l
    <3> HIDE DEF rows, page, next, k
    <3> QED
      BY <3>2, <3>3, <3>4, <3>5
  <2> HIDE DEF rows, page, next
  <2>3. /\ shown \in Seq(ShownTurn) /\ Len(shown) = k + n
        /\ \A i \in 1..k : shown[i] = reader.seen[i]
        /\ \A i \in 1..n : shown[k + i] = page[i]
        /\ \A i \in 1..Len(shown) : i \in 1..k \/ \E j \in 1..n : i = k + j
    <3> DEFINE q == reader.seen
    <3>1. q \in Seq(ShownTurn) /\ page \in Seq(ShownTurn)
      BY <2>1, <2>2
    <3> HIDE DEF q
    <3>2. /\ q \o page \in Seq(ShownTurn) /\ Len(q \o page) = Len(q) + Len(page)
          /\ \A i \in 1..Len(q) : (q \o page)[i] = q[i]
          /\ \A i \in 1..Len(page) : (q \o page)[Len(q) + i] = page[i]
          /\ \A i \in 1..Len(q \o page) : i \in 1..Len(q) \/ \E j \in 1..Len(page) : i = Len(q) + j
      BY ONLY <3>1, TwoPages
    <3> QED
      BY <3>2 DEF q
  <2> HIDE DEF shown, n, k, all
  <2>4. /\ next = 0 => k + n = all
        /\ next # 0 => k + n = next /\ next < all
        /\ k + n <= all /\ next \in 0..HistoryLimit
    BY <2>1, <2>2 DEF LeastOf
  <2>5. \A i \in 1..(k + n) : shown[i].turn = i /\ shown[i].status = history[i]
    <3>1. ASSUME NEW j \in 1..n
          PROVE  shown[k + j].turn = k + j /\ shown[k + j].status = history[k + j]
      <4>1. shown[k + j] = [turn |-> k + j, status |-> history[k + j]]
        BY <2>2, <2>3
      <4> QED
        BY <4>1
    <3>2. ASSUME NEW i \in 1..k
          PROVE  shown[i].turn = i /\ shown[i].status = history[i]
      BY <2>1, <2>3
    <3>3. \A i \in 1..(k + n) : i \in 1..k \/ \E j \in 1..n : i = k + j
      BY <2>3
    <3> QED
      BY <3>1, <3>2, <3>3
  <2>6. next # 0 => \A i \in 1..(k + n) : shown[i].status \in Over
    <3>1. \A i \in 1..all : i < all => history[i] \in Over
      BY <1>1, <1>4 DEF HistorySound, all
    <3>2. next # 0 => \A i \in 1..(k + n) : i \in 1..all /\ i < all
      BY <2>1, <2>2, <2>4
    <3> QED
      BY <2>5, <3>1, <3>2
  <2>7. Metadata = [standing |-> standing, last |-> all]
    BY DEF Metadata, LastTurn, all
  <2>8. /\ reader'.at = (IF next = 0 THEN "done" ELSE "paging") /\ reader'.after = next
        /\ reader'.seen = shown /\ reader'.view = Metadata
        /\ reader'.existed = reader.existed /\ reader' \in ReaderRow
    <3>1. reader' = [reader EXCEPT !.at = IF next = 0 THEN "done" ELSE "paging",
                       !.after = next, !.seen = shown, !.view = Metadata]
      BY <1>1, <1>4
    <3>2. Metadata \in [standing : {"busy", "ready", "gone"}, last : Nat]
      BY <1>1, <2>1, <2>7 DEF HistorySound
    <3>3. reader \in ReaderRow /\ shown \in Seq(ShownTurn) /\ next \in 0..HistoryLimit
      BY <1>1, <2>3, <2>4
    <3> QED
      BY ONLY <3>1, <3>2, <3>3 DEF ReaderRow
  <2>9. DOMAIN shown = 1..(k + n) /\ Len(shown) = k + n
    BY <2>3
  <2>10. ReaderSound'
    BY <1>1, <2>1, <2>4, <2>8, <2>9 DEF ReaderSound, all
  <2>11. PagesLeaveNoGap'
    BY <1>1, <2>4, <2>5, <2>6, <2>8, <2>9 DEF PagesLeaveNoGap
  <2>12. LastPageIsTheEnd'
    <3> SUFFICES ASSUME next = 0
                 PROVE  /\ Len(shown) >= reader.existed /\ Metadata.last = Len(shown)
                        /\ (Metadata.standing = "ready") =
                             (\A i \in DOMAIN shown : shown[i].status \in Over)
      BY <2>8 DEF LastPageIsTheEnd
    <3>1. k + n = all /\ Len(shown) = all /\ DOMAIN shown = 1..all
      BY <2>4, <2>9
    <3>2. standing = "ready" <=> history[all] \in Over
      BY <1>1, <1>4 DEF HistorySound, all
    <3>3. \A i \in 1..all : i < all => history[i] \in Over
      BY <1>1, <1>4 DEF HistorySound, all
    <3>4. standing = "ready" <=> \A i \in 1..all : history[i] \in Over
      BY <2>1, <3>2, <3>3
    <3>5. standing = "ready" <=> \A i \in 1..all : shown[i].status \in Over
      BY <2>5, <3>1, <3>4
    <3> QED
      BY <2>1, <2>7, <3>1, <3>5
  <2>13. ContinuesWhatItSaw'
    BY <2>8 DEF ContinuesWhatItSaw
  <2> QED
    BY <1>2, <2>10, <2>11, <2>12, <2>13 DEF PageInv
<1> QED
  BY <1>3, <1>4

LEMMA ContinueKeeps ==
  ASSUME PageInv, ReaderContinues \/ OtherContinues
  PROVE  PageInv'
<1>0. HistorySound /\ ReaderSound /\ PagesLeaveNoGap /\ LastPageIsTheEnd /\ reader \in ReaderRow
  BY DEF PageInv, ReaderSound
<1>1. CASE OtherContinues
  <2>1. /\ AppendTurn /\ UNCHANGED reader /\ standing = "ready" /\ Len(history) < HistoryLimit
    BY <1>1 DEF OtherContinues, MayFollow
  <2>2. /\ HistorySound' /\ Len(history') = Len(history) + 1 /\ Len(history) \in Nat
        /\ \A i \in 1..Len(history) : history'[i] = history[i]
    BY <1>0, <2>1, AppendTurnSound
  <2>3. Len(history) <= Len(history')
    BY <2>2
  <2> QED
    BY <2>1, <2>2, <2>3, OthersKeepPages
<1>2. CASE reader.at = "done" /\ reader' = NewReader /\ UNCHANGED <<standing, history, registered>>
  <2>1. HistorySound' /\ Len(history) \in Nat
    BY <1>0, <1>2 DEF HistorySound
  <2> QED
    BY <1>2, <2>1, NewReaderSound, EmptyReaderSound
<1>3. CASE /\ reader.at = "done" /\ MayFollow(reader.view.last) /\ AppendTurn
           /\ reader' = [reader EXCEPT !.at = "continued", !.own = Len(history) + 1]
  <2>1. /\ standing = "ready" /\ Len(history) < HistoryLimit /\ Len(history) = reader.view.last
        /\ reader.view.last = Len(reader.seen)
    BY <1>0, <1>3 DEF MayFollow, LastPageIsTheEnd
  <2>2. /\ HistorySound' /\ Len(history') = Len(history) + 1 /\ Len(history) \in Nat
        /\ \A i \in 1..Len(history) : history'[i] = history[i]
    BY <1>0, <1>3, <2>1, AppendTurnSound
  <2>3. /\ reader' \in ReaderRow /\ reader'.at = "continued" /\ reader'.own = Len(history) + 1
        /\ reader'.seen = reader.seen /\ reader'.existed = reader.existed
    <3>1. /\ reader' = [reader EXCEPT !.at = "continued", !.own = Len(history) + 1]
          /\ reader \in ReaderRow /\ Len(history) + 1 \in Nat
      BY <1>0, <1>3, <2>2
    <3> QED
      BY ONLY <3>1 DEF ReaderRow
  <2>4. /\ Len(reader.seen) = Len(history) /\ reader.existed \in Nat
        /\ reader.existed <= Len(history) /\ reader.seen \in Seq(ShownTurn)
        /\ DOMAIN reader.seen = 1..Len(history)
    BY <1>0, <2>1 DEF ReaderSound, ReaderRow
  <2>5. ReaderSound'
    <3>1. Len(reader.seen) <= Len(history') /\ reader.existed <= Len(history')
      BY <2>2, <2>4
    <3> QED
      BY <2>3, <3>1 DEF ReaderSound
  <2>6. PagesLeaveNoGap'
    BY <1>0, <2>1, <2>2, <2>3, <2>4 DEF PagesLeaveNoGap
  <2>7. LastPageIsTheEnd' /\ ContinuesWhatItSaw'
    BY <2>3, <2>4 DEF LastPageIsTheEnd, ContinuesWhatItSaw
  <2> QED
    BY <2>2, <2>5, <2>6, <2>7 DEF PageInv
<1> QED
  BY <1>1, <1>2, <1>3 DEF ReaderContinues

LEMMA PagesKeep ==
  ASSUME PageInv, [PageNext]_pageVars
  PROVE  PageInv'
<1>0. HistorySound /\ Len(history) \in Nat
  BY DEF PageInv, HistorySound
<1>1. CASE ConversationGoes
  <2>1. standing' = "gone" /\ history' = <<>> /\ UNCHANGED <<registered, reader>>
    BY <1>1 DEF ConversationGoes
  <2>2. HistorySound'
    <3>1. <<>> \in Seq(Waiting \cup Over) /\ Len(<<>>) = 0 /\ 0 <= HistoryLimit
      BY PageAssumption
    <3> QED
      BY <1>0, <2>1, <3>1 DEF HistorySound
  <2> QED
    BY <2>1, <2>2, OthersKeepPages
<1>2. CASE Redeploy
  <2>1. UNCHANGED <<standing, history, reader>> /\ registered' = ~registered
    BY <1>2 DEF Redeploy
  <2>2. HistorySound'
    BY <1>0, <2>1 DEF HistorySound
  <2> QED
    BY <1>0, <2>1, <2>2, OthersKeepPages
<1>3. CASE UNCHANGED pageVars
  <2>1. UNCHANGED <<standing, history, registered, reader>>
    BY <1>3 DEF pageVars
  <2>2. HistorySound'
    BY <1>0, <2>1 DEF HistorySound
  <2> QED
    BY <1>0, <2>1, <2>2, OthersKeepPages
<1> QED
  BY <1>1, <1>2, <1>3, FindMetadataKeeps, FindPageKeeps, ContinueKeeps, WorkSound DEF PageNext

LEMMA PagesStart ==
  ASSUME PageInit
  PROVE  PageInv
<1>1. /\ standing = "busy" /\ history = <<"queued">> /\ registered = TRUE /\ reader = NewReader
      /\ "queued" \in Waiting \cup Over /\ "queued" \notin Over
  BY DEF PageInit, Waiting, Over
<1>2. /\ history \in Seq(Waiting \cup Over) /\ Len(history) = 1 /\ history[1] = "queued"
  BY <1>1
<1>3. HistorySound
  BY <1>1, <1>2, PageAssumption DEF HistorySound
<1>4. ReaderSound
  BY <1>1, <1>2, NewReaderSound DEF ReaderSound
<1>5. PagesLeaveNoGap /\ LastPageIsTheEnd /\ ContinuesWhatItSaw
  BY <1>1, NewReaderSound DEF PagesLeaveNoGap, LastPageIsTheEnd, ContinuesWhatItSaw
<1> QED
  BY <1>3, <1>4, <1>5 DEF PageInv

LEMMA PagesInTruth ==
  ASSUME PageInv
  PROVE  PagesAreWhole
<1>1. PageTypeOK
  BY DEF PageInv, HistorySound, ReaderSound, ReaderRow, PageTypeOK
<1> QED
  BY <1>1 DEF PageInv, PagesAreWhole

(* A reader of a conversation that others continue, work on and delete is  *)
(* shown a history, for any limits and pages: nothing left out, nothing    *)
(* taken back, nothing continued unseen (find in store.postgres.ts).       *)
THEOREM PagesStayWhole == PageSpec => []PagesAreWhole
BY PagesStart, PagesKeep, PagesInTruth, PTL DEF PageSpec

-----------------------------------------------------------------------------
(* The service over the in-memory adapters.                                *)

RequestRow == {Idle} \cup [at : {"storing"}, key : ServiceKey, body : Body]
                 \cup [at : {"enqueuing"}, turn : Turn] \cup [at : {"waking"}]
Outcome == [status : {"succeeded", "failed"}, code : Codes \cup {Nothing},
            output : {Nothing, "text", "image"}]

StoreSound ==
  /\ conversations \in [Conv -> Seq(StoredTurn)]
  /\ \A c \in Conv : Len(conversations[c]) <= MaxServiceTurns
  /\ deleted \subseteq Conv
  /\ idempotency \in [ServiceKey -> IdempotencyRecord \cup {Nothing}]

HandlersSound ==
  /\ request \in [Handler -> RequestRow]
  /\ queue \in Seq(Turn)
  /\ {image, closed, draining, drainRequested} \subseteq BOOLEAN
  /\ serviceFaults \in 0..ResourceFaults

DrainSound ==
  /\ drain.at \in {"idle", "asking", "leaving", "taking", "acquiring", "responding",
                   "completing"}
  /\ drain.at \in {"acquiring", "responding", "completing"} => drain.turn \in Turn
  /\ drain.at = "acquiring" =>
       drain = [at |-> "acquiring", turn |-> drain.turn, wanted |-> drain.wanted]
  /\ drain.at = "completing" => drain.outcome \in Outcome
  /\ records \in Seq(ToolRecord) /\ published \in BOOLEAN /\ charged \in BOOLEAN

(* The idempotency record of a turn's key names it, and outlives it.       *)
KeysOfTurns ==
  /\ \A t \in Turn : Exists(t) => /\ idempotency[TurnOf(t).key] # Nothing
                                  /\ idempotency[TurnOf(t).key].turn = t
  /\ \A c \in Conv : Known(c) \/ c \in deleted =>
       \E k \in ServiceKey : idempotency[k] # Nothing /\ idempotency[k].turn = <<c, 1>>

(* Who sees to it that the queue is emptied.                               *)
DrainIsAwake ==
  /\ draining <=> drain.at # "idle"
  /\ ~closed /\ queue # <<>> =>
       \/ \E h \in Handler : request[h].at = "waking"
       \/ drain.at \in {"taking", "acquiring", "responding", "completing"}
       \/ drain.at \in {"asking", "leaving"} /\ drainRequested

(* A charge leaves a record.                                               *)
PaidByRecord ==
  charged => \E i \in DOMAIN records :
                /\ PricedRecord(records[i])
                /\ records[i].status \in {"succeeded", "after_commit"}

TurnAtWorkSound == DrainSound /\ PaidByRecord /\ ImagesAreReleased /\ ChargesAreAdmitted
                     /\ OutputsAreEarned

ServiceInv ==
  StoreSound /\ KeysOfTurns /\ HandlersSound /\ DrainIsAwake /\ TurnAtWorkSound

-----------------------------------------------------------------------------
(* What the store answers.                                                 *)

LEMMA TurnParts ==
  ASSUME NEW t \in Turn
  PROVE  /\ t = <<t[1], t[2]>> /\ t[1] \in Conv /\ t[2] \in 1..MaxServiceTurns
         /\ t[2] \in Nat /\ MaxServiceTurns \in Nat
BY AgentServiceAssumption DEF Turn

LEMMA RefusedIsAnAnswer ==
  /\ Refused("IDEMPOTENCY_CONFLICT") # Nothing
  /\ Refused("CONVERSATION_NOT_FOUND") # Nothing
  /\ Refused("CONVERSATION_BUSY") # Nothing
  /\ Refused("CONVERSATION_SEQUENCE_CONFLICT") # Nothing
  /\ Refused("CONVERSATION_TURN_LIMIT_REACHED") # Nothing
<1>1. ASSUME NEW c \in AnswerCode
      PROVE  Refused(c) # Nothing
  <2>1. Refused(c) \in [code : AnswerCode, turn : Turn \cup {Nothing}]
    BY <1>1 DEF Refused
  <2> QED
    BY <2>1, NothingAssumption
<1> QED
  BY <1>1 DEF AnswerCode

LEMMA AcceptedIsAnAnswer ==
  ASSUME NEW t \in Turn
  PROVE  Accepted(t) # Nothing
<1>1. Accepted(t) \in [code : AnswerCode, turn : Turn \cup {Nothing}]
  BY DEF Accepted, AnswerCode
<1> QED
  BY <1>1, NothingAssumption

LEMMA RecordIsSomething ==
  ASSUME StoreSound, NEW k \in ServiceKey, idempotency[k] # Nothing
  PROVE  idempotency[k].turn \in Turn /\ idempotency[k] \in IdempotencyRecord
BY DEF StoreSound, IdempotencyRecord

LEMMA KnownHasTurns ==
  ASSUME StoreSound, NEW c \in Conv
  PROVE  /\ Known(c) <=> Len(conversations[c]) # 0
         /\ Len(conversations[c]) \in Nat
         /\ conversations[c] \in Seq(StoredTurn)
         /\ Len(conversations[c]) <= MaxServiceTurns
BY EmptySeq DEF StoreSound, Known

(* A request that is not answered from the record of its key finds none.   *)
LEMMA NewKey ==
  ASSUME StoreSound, NEW k \in ServiceKey, NEW b, Replay(b, k) = Nothing
  PROVE  idempotency[k] = Nothing
<1>1. SUFFICES ASSUME idempotency[k] # Nothing
               PROVE  FALSE
  OBVIOUS
<1>2. idempotency[k].turn \in Turn
  BY <1>1, RecordIsSomething
<1>3. Replay(b, k) \in {Refused("IDEMPOTENCY_CONFLICT"), Accepted(idempotency[k].turn),
                        Refused("CONVERSATION_NOT_FOUND")}
  BY <1>1 DEF Replay
<1> QED
  BY <1>2, <1>3, RefusedIsAnAnswer, AcceptedIsAnAnswer

LEMMA RoomForTheTurn ==
  ASSUME StoreSound, NEW b \in Body, b.op # "open", Refusal(b) = Nothing
  PROVE  /\ b.conv \in Conv /\ Known(b.conv)
         /\ Len(conversations[b.conv]) < MaxServiceTurns
<1>1. b.conv \in Conv /\ b.op = "continue"
  BY DEF Body
<1>2. Known(b.conv)
  BY <1>1, RefusedIsAnAnswer DEF Refusal
<1>3. ~(Len(conversations[b.conv]) >= MaxServiceTurns)
  BY <1>1, RefusedIsAnAnswer DEF Refusal
<1>4. Len(conversations[b.conv]) \in Nat /\ MaxServiceTurns \in Nat
  BY <1>1, KnownHasTurns, AgentServiceAssumption
<1> QED
  BY <1>1, <1>2, <1>3, <1>4

(* While a key is unused there is a conversation that is: every one that   *)
(* was opened was opened with a key of its own.                            *)
LEMMA SomeConversationIsUnused ==
  ASSUME StoreSound, KeysOfTurns, NEW k \in ServiceKey, idempotency[k] = Nothing
  PROVE  Unused # {}
<1> DEFINE n == Cardinality(ServiceKey)
           Opener(c, m) == idempotency[m] # Nothing /\ idempotency[m].turn = <<c, 1>>
           f == [c \in Conv |-> CHOOSE m \in ServiceKey : Opener(c, m)]
<1>1. IsFiniteSet(ServiceKey) /\ n \in Nat
  BY AgentServiceAssumption, FS_CardinalityType
<1>2. IsFiniteSet(ServiceKey \ {k}) /\ Cardinality(ServiceKey \ {k}) = n - 1
  BY <1>1, FS_RemoveElement
<1>3. IsFiniteSet(Conv) /\ Cardinality(Conv) = n
  <2>1. Conv = 1..n /\ 1 \in Int /\ n \in Int
    BY <1>1 DEF Conv
  <2>2. Cardinality(1..n) = (IF 1 > n THEN 0 ELSE n - 1 + 1) /\ IsFiniteSet(1..n)
    BY ONLY <2>1, FS_Interval
  <2> QED
    BY <1>1, <2>1, <2>2
<1>4. SUFFICES ASSUME Unused = {}
               PROVE  FALSE
  OBVIOUS
<1>5. ASSUME NEW c \in Conv
      PROVE  f[c] \in ServiceKey /\ Opener(c, f[c])
  <2>1. \E m \in ServiceKey : Opener(c, m)
    BY <1>4, <1>5 DEF Unused, KeysOfTurns
  <2> QED
    BY <2>1
<1>6. f \in [Conv -> ServiceKey \ {k}]
  <2>1. \A c \in Conv : f[c] \in ServiceKey /\ f[c] # k
    BY <1>5
  <2> QED
    BY <2>1
<1>7. PICK x, y \in Conv : x # y /\ f[x] = f[y]
  <2>1. Cardinality(ServiceKey \ {k}) < Cardinality(Conv)
    BY <1>1, <1>2, <1>3
  <2> HIDE DEF f
  <2> QED
    BY <1>2, <1>3, <1>6, <2>1, FS_PigeonHole
<1>8. <<x, 1>> = <<y, 1>>
  BY <1>5, <1>7
<1> QED
  BY <1>7, <1>8

LEMMA FreshIsUnused ==
  ASSUME Unused # {}
  PROVE  FreshConversation \in Unused
<1>1. Unused \subseteq Nat
  BY DEF Unused, Conv
<1>2. PICK c \in Unused : \A d \in Unused : ~(<<d, c>> \in OpToRel(<, Nat))
  BY <1>1, NatLessThanWellFounded, WFMin
<1>3. \A d \in Unused : ~(d < c)
  BY <1>1, <1>2 DEF OpToRel
<1>4. \A d \in Unused : c <= d
  BY <1>1, <1>3
<1> QED
  BY <1>4 DEF FreshConversation

-----------------------------------------------------------------------------
(* What the steps of the store keep.                                       *)

LEMMA StoreUntouched ==
  ASSUME UNCHANGED serviceStoreVars, StoreSound, KeysOfTurns
  PROVE  StoreSound' /\ KeysOfTurns'
BY DEF serviceStoreVars, StoreSound, KeysOfTurns, Exists, TurnOf, Known

(* A row of a conversation takes another status or output.                 *)
LEMMA RowRewritten ==
  ASSUME StoreSound, KeysOfTurns, NEW t \in Turn, Exists(t), NEW row \in StoredTurn,
         row.key = TurnOf(t).key,
         conversations' = [conversations EXCEPT ![t[1]][t[2]] = row],
         UNCHANGED <<deleted, idempotency>>
  PROVE  StoreSound' /\ KeysOfTurns'
<1> DEFINE c == t[1]
           i == t[2]
           S == conversations[c]
<1>1. c \in Conv /\ i \in 1..Len(S) /\ t[2] \in Nat
  BY TurnParts, KnownHasTurns DEF Exists
<1>2. conversations' = [conversations EXCEPT ![c] = [S EXCEPT ![i] = row]]
  OBVIOUS
<1>3. S \in Seq(StoredTurn) /\ Len(S) \in Nat
  BY <1>1, KnownHasTurns
<1>4. /\ [S EXCEPT ![i] = row] \in Seq(StoredTurn)
      /\ Len([S EXCEPT ![i] = row]) = Len(S)
      /\ \A j \in 1..Len(S) : [S EXCEPT ![i] = row][j] = IF j = i THEN row ELSE S[j]
  <2> HIDE DEF S, i
  <2> QED
    BY <1>1, <1>3
<1>5. /\ conversations' \in [Conv -> Seq(StoredTurn)]
      /\ \A d \in Conv : Len(conversations'[d]) = Len(conversations[d])
  <2>1. conversations \in [Conv -> Seq(StoredTurn)]
    BY DEF StoreSound
  <2> HIDE DEF S, i, c
  <2>2. \A d \in Conv : conversations'[d] = IF d = c THEN [S EXCEPT ![i] = row]
                                            ELSE conversations[d]
    BY <1>1, <1>2, <2>1
  <2>3. conversations' \in [Conv -> Seq(StoredTurn)]
    BY <1>1, <1>2, <1>4, <2>1
  <2>4. Len(conversations[c]) = Len(S)
    BY DEF S
  <2> QED
    BY <1>4, <2>2, <2>3, <2>4
<1>6. \A d \in Conv : \A j \in 1..Len(conversations[d]) :
        conversations'[d][j] = IF d = c /\ j = i THEN row ELSE conversations[d][j]
  <2>1. conversations \in [Conv -> Seq(StoredTurn)]
    BY DEF StoreSound
  <2>2. conversations'[c] = [S EXCEPT ![i] = row]
    <3> HIDE DEF S, i, c
    <3> QED
      BY <1>1, <1>2, <2>1
  <2>3. \A d \in Conv : d # c => conversations'[d] = conversations[d]
    <3> HIDE DEF S, i, c
    <3> QED
      BY <1>1, <1>2, <2>1
  <2>4. \A j \in 1..Len(S) : conversations'[c][j] = IF j = i THEN row ELSE S[j]
    <3> HIDE DEF S, i, c
    <3> QED
      BY <1>4, <2>2
  <2> QED
    BY <2>3, <2>4
<1>7. \A d \in Conv : \A j \in 1..Len(conversations[d]) :
        conversations'[d][j].key = conversations[d][j].key
  <2>1. conversations[c][i].key = row.key
    BY DEF TurnOf
  <2> HIDE DEF c, i
  <2> QED
    BY <1>6, <2>1
<1>8. StoreSound'
  <2> HIDE DEF c, i, S
  <2> QED
    BY <1>5 DEF StoreSound
<1>9. ASSUME NEW u \in Turn, Exists(u)'
      PROVE  /\ Exists(u)
             /\ TurnOf(u)'.key = TurnOf(u).key
  <2> HIDE DEF c, i, S
  <2>1. u[1] \in Conv /\ u[2] \in Nat /\ u[2] >= 1
    BY TurnParts
  <2>2. Len(conversations[u[1]]) \in Nat
    BY <2>1, KnownHasTurns
  <2>3. Exists(u)
    BY <1>5, <1>9, <2>1 DEF Exists
  <2>4. u[2] \in 1..Len(conversations[u[1]])
    BY <2>1, <2>2, <2>3 DEF Exists
  <2> QED
    BY <1>7, <2>1, <2>3, <2>4 DEF TurnOf
<1>10. ASSUME NEW d \in Conv
       PROVE  Known(d)' <=> Known(d)
  <2> HIDE DEF c, i, S
  <2>1. Known(d) <=> Len(conversations[d]) # 0
    BY KnownHasTurns
  <2>2. Known(d)' <=> Len(conversations'[d]) # 0
    BY <1>5, EmptySeq DEF Known
  <2> QED
    BY <1>5, <2>1, <2>2
<1>11. KeysOfTurns'
  <2> HIDE DEF c, i, S
  <2> QED
    BY <1>9, <1>10 DEF KeysOfTurns
<1> QED
  BY <1>8, <1>11

LEMMA ForgetKeepsStore ==
  ASSUME StoreSound, KeysOfTurns, NEW c \in Conv, Forget(c)
  PROVE  StoreSound' /\ KeysOfTurns'
<1>1. /\ Known(c) /\ conversations' = [conversations EXCEPT ![c] = <<>>]
      /\ deleted' = deleted \cup {c} /\ idempotency' = idempotency
  BY DEF Forget
<1>2. conversations \in [Conv -> Seq(StoredTurn)]
  BY DEF StoreSound
<1>3. \A d \in Conv : conversations'[d] = IF d = c THEN <<>> ELSE conversations[d]
  BY <1>1, <1>2
<1>4. conversations' \in [Conv -> Seq(StoredTurn)]
  <2>1. <<>> \in Seq(StoredTurn)
    OBVIOUS
  <2> QED
    BY <1>1, <1>2, <2>1
<1>5. MaxServiceTurns \in Nat /\ Len(<<>>) = 0
  BY AgentServiceAssumption
<1>6. StoreSound'
  BY <1>1, <1>3, <1>4, <1>5 DEF StoreSound
<1>7. ASSUME NEW u \in Turn, Exists(u)'
      PROVE  Exists(u) /\ TurnOf(u)' = TurnOf(u)
  <2>1. u[1] \in Conv /\ u[2] \in Nat /\ u[2] >= 1
    BY TurnParts
  <2>2. u[1] # c
    BY <1>3, <1>5, <1>7, <2>1 DEF Exists
  <2> QED
    BY <1>3, <1>7, <2>1, <2>2 DEF Exists, TurnOf
<1>8. \A d \in Conv : Known(d)' => Known(d)
  BY <1>3 DEF Known
<1>9. KeysOfTurns'
  BY <1>1, <1>7, <1>8 DEF KeysOfTurns
<1> QED
  BY <1>6, <1>9

(* A request becomes the next turn of its conversation.                    *)
LEMMA AcceptanceKeepsStore ==
  ASSUME StoreSound, KeysOfTurns, NEW k \in ServiceKey, NEW b \in Body, NEW t \in Turn,
         idempotency[k] = Nothing, t[2] = Len(conversations[t[1]]) + 1,
         StoreAccepted(b, k, t), UNCHANGED deleted
  PROVE  StoreSound' /\ KeysOfTurns'
<1> DEFINE c == t[1]
           S == conversations[c]
           row == NewTurn(b, k)
<1>1. /\ conversations' = [conversations EXCEPT ![c] = Append(S, row)]
      /\ idempotency' = [idempotency EXCEPT ![k] = [body |-> b, turn |-> t]]
  BY DEF StoreAccepted
<1>2. /\ conversations \in [Conv -> Seq(StoredTurn)]
      /\ idempotency \in [ServiceKey -> IdempotencyRecord \cup {Nothing}]
  BY DEF StoreSound
<1>3. row \in StoredTurn /\ row.key = k
  BY DEF NewTurn, StoredTurn, Body
<1>4. c \in Conv /\ S \in Seq(StoredTurn) /\ Len(S) \in Nat /\ t[2] = Len(S) + 1
      /\ Len(S) + 1 <= MaxServiceTurns
  BY TurnParts, KnownHasTurns
<1> HIDE DEF row
<1>5. /\ Append(S, row) \in Seq(StoredTurn) /\ Len(Append(S, row)) = Len(S) + 1
      /\ \A j \in 1..Len(S) : Append(S, row)[j] = S[j]
      /\ Append(S, row)[Len(S) + 1] = row
  <2> HIDE DEF S
  <2> QED
    BY <1>3, <1>4
<1>6. [body |-> b, turn |-> t] \in IdempotencyRecord /\ [body |-> b, turn |-> t] # Nothing
  <2>1. [body |-> b, turn |-> t] \in IdempotencyRecord
    BY DEF IdempotencyRecord
  <2> QED
    BY <2>1, NothingAssumption
<1>7. /\ \A d \in Conv : conversations'[d] = IF d = c THEN Append(S, row) ELSE conversations[d]
      /\ conversations' \in [Conv -> Seq(StoredTurn)]
  <2> HIDE DEF S, c
  <2> QED
    BY <1>1, <1>2, <1>4, <1>5
<1>8. /\ idempotency' \in [ServiceKey -> IdempotencyRecord \cup {Nothing}]
      /\ \A m \in ServiceKey : m # k => idempotency'[m] = idempotency[m]
      /\ idempotency'[k] # Nothing /\ idempotency'[k].turn = t
  BY <1>1, <1>2, <1>6
<1>9. StoreSound'
  <2> HIDE DEF S, c
  <2> QED
    BY <1>4, <1>5, <1>7, <1>8 DEF StoreSound
<1>10. ASSUME NEW u \in Turn, Exists(u)', u # t
       PROVE  Exists(u) /\ TurnOf(u)' = TurnOf(u)
  <2>1. u[1] \in Conv /\ u[2] \in Nat /\ u[2] >= 1 /\ u = <<u[1], u[2]>> /\ t = <<t[1], t[2]>>
    BY TurnParts
  <2>2. CASE u[1] # c
    <3>1. conversations'[u[1]] = conversations[u[1]]
      BY <1>7, <2>1, <2>2
    <3> QED
      BY <1>10, <3>1 DEF Exists, TurnOf
  <2>3. CASE u[1] = c
    <3>1. u[2] <= Len(S) + 1
      BY <1>5, <1>7, <1>10, <2>1, <2>3 DEF Exists
    <3>2. u[2] # Len(S) + 1
      BY <1>4, <1>10, <2>1, <2>3
    <3>3. u[2] \in 1..Len(S)
      BY <1>4, <2>1, <3>1, <3>2
    <3>4. conversations'[u[1]][u[2]] = conversations[u[1]][u[2]]
      BY <1>5, <1>7, <2>1, <2>3, <3>3
    <3> QED
      BY <2>3, <3>3, <3>4 DEF Exists, TurnOf
  <2> QED
    BY <2>2, <2>3
<1>11. Exists(t)' => TurnOf(t)'.key = k
  <2>1. conversations'[c][Len(S) + 1] = row
    BY <1>4, <1>5, <1>7
  <2> QED
    BY <1>3, <1>4, <2>1 DEF TurnOf
<1>12. ASSUME NEW u \in Turn, Exists(u)'
       PROVE  idempotency'[TurnOf(u)'.key] # Nothing /\ idempotency'[TurnOf(u)'.key].turn = u
  <2>1. CASE u = t
    BY <1>8, <1>11, <1>12, <2>1
  <2>2. CASE u # t
    <3>1. Exists(u) /\ TurnOf(u)' = TurnOf(u)
      BY <1>10, <1>12, <2>2
    <3>2. TurnOf(u).key \in ServiceKey
      <4>1. u[1] \in Conv /\ u[2] \in Nat /\ u[2] >= 1
        BY TurnParts
      <4>2. conversations[u[1]] \in Seq(StoredTurn) /\ u[2] \in 1..Len(conversations[u[1]])
        BY <3>1, <4>1, KnownHasTurns DEF Exists
      <4>3. TurnOf(u) \in StoredTurn
        BY <4>2 DEF TurnOf
      <4> QED
        BY <4>3 DEF StoredTurn
    <3>3. idempotency[TurnOf(u).key] # Nothing /\ idempotency[TurnOf(u).key].turn = u
      BY <3>1 DEF KeysOfTurns
    <3>4. TurnOf(u).key # k
      BY <3>3
    <3> QED
      BY <1>8, <3>1, <3>2, <3>3, <3>4
  <2> QED
    BY <2>1, <2>2
<1>13. ASSUME NEW d \in Conv, Known(d)' \/ d \in deleted
       PROVE  \E m \in ServiceKey : idempotency'[m] # Nothing /\ idempotency'[m].turn = <<d, 1>>
  <2>1. CASE Known(d) \/ d \in deleted
    <3>1. PICK m \in ServiceKey : idempotency[m] # Nothing /\ idempotency[m].turn = <<d, 1>>
      BY <2>1 DEF KeysOfTurns
    <3>2. idempotency'[m] = idempotency[m]
      BY <1>8, <3>1
    <3> QED
      BY <3>1, <3>2
  <2>2. CASE ~(Known(d) \/ d \in deleted)
    <3>1. d = c
      BY <1>7, <1>13, <2>1, <2>2 DEF Known
    <3>2. Len(S) = 0
      BY <2>2, <3>1, KnownHasTurns
    <3>3. t = <<d, 1>>
      BY <1>4, <3>1, <3>2, TurnParts
    <3> QED
      BY <1>8, <3>3
  <2> QED
    BY <1>13, <2>1, <2>2
<1>14. KeysOfTurns'
  <2> HIDE DEF S, c
  <2> QED
    BY <1>12, <1>13 DEF KeysOfTurns
<1> QED
  BY <1>9, <1>14

-----------------------------------------------------------------------------
(* What the steps of the handlers keep.                                    *)

LEMMA RequestParts ==
  ASSUME HandlersSound, NEW h \in Handler
  PROVE  /\ request[h].at = "storing" => request[h].key \in ServiceKey /\ request[h].body \in Body
         /\ request[h].at = "enqueuing" => request[h].turn \in Turn
<1>1. request[h] \in RequestRow
  BY DEF HandlersSound
<1> QED
  BY <1>1 DEF RequestRow, Idle

LEMMA RequestSet ==
  ASSUME HandlersSound, NEW h \in Handler, NEW r \in RequestRow,
         request' = [request EXCEPT ![h] = r]
  PROVE  /\ request' \in [Handler -> RequestRow] /\ request'[h] = r
         /\ \A g \in Handler : g # h => request'[g] = request[g]
<1>1. request \in [Handler -> RequestRow]
  BY DEF HandlersSound
<1> HIDE DEF RequestRow
<1> QED
  BY <1>1

LEMMA RowsOfRequests ==
  /\ Idle \in RequestRow /\ Idle.at = "idle"
  /\ [at |-> "waking"] \in RequestRow
  /\ \A t \in Turn : /\ [at |-> "enqueuing", turn |-> t] \in RequestRow
  /\ \A k \in ServiceKey, b \in Body : [at |-> "storing", key |-> k, body |-> b] \in RequestRow
BY DEF RequestRow, Idle

LEMMA WorkUntouched ==
  ASSUME TurnAtWorkSound, UNCHANGED workVars
  PROVE  TurnAtWorkSound'
<1>1. UNCHANGED <<drain, acquired, records, published, charged>>
  BY DEF workVars
<1>2. DrainSound'
  BY <1>1 DEF TurnAtWorkSound, DrainSound
<1>3. PaidByRecord' /\ ImagesAreReleased'
  BY <1>1 DEF TurnAtWorkSound, PaidByRecord, ImagesAreReleased
<1>4. ChargesAreAdmitted' /\ OutputsAreEarned'
  BY <1>1 DEF TurnAtWorkSound, ChargesAreAdmitted, OutputsAreEarned
<1> QED
  BY <1>2, <1>3, <1>4 DEF TurnAtWorkSound

LEMMA DrainUntouched ==
  ASSUME DrainIsAwake, UNCHANGED <<queueVars, drain>>,
         \A g \in Handler : request[g].at = "waking" => request'[g].at = "waking"
  PROVE  DrainIsAwake'
BY DEF DrainIsAwake, queueVars

(* A handler that neither enqueues nor wakes.                              *)
LEMMA HandlerMoves ==
  ASSUME ServiceInv, NEW h \in Handler, NEW r \in RequestRow, request[h].at # "waking",
         request' = [request EXCEPT ![h] = r], StoreSound', KeysOfTurns',
         UNCHANGED <<image, serviceFaults, queueVars, workVars>>
  PROVE  ServiceInv'
<1>1. HandlersSound /\ DrainIsAwake /\ TurnAtWorkSound
  BY DEF ServiceInv
<1>2. /\ request' \in [Handler -> RequestRow] /\ request'[h] = r
      /\ \A g \in Handler : g # h => request'[g] = request[g]
  BY <1>1, RequestSet
<1>3. UNCHANGED <<image, serviceFaults, queue, closed, draining, drainRequested, drain>>
  BY DEF queueVars, workVars
<1>4. HandlersSound'
  BY <1>1, <1>2, <1>3 DEF HandlersSound
<1>5. DrainIsAwake'
  <2>1. \A g \in Handler : request[g].at = "waking" => request'[g].at = "waking"
    BY <1>2
  <2> QED
    BY <1>1, <1>3, <2>1, DrainUntouched DEF queueVars
<1>6. TurnAtWorkSound'
  BY <1>1, WorkUntouched
<1> QED
  BY <1>4, <1>5, <1>6 DEF ServiceInv

LEMMA ReceiveKeeps ==
  ASSUME ServiceInv, NEW h \in Handler, NEW k \in ServiceKey, NEW b \in Sent, Receive(h, k, b)
  PROVE  ServiceInv'
<1>1. b \in Body
  BY SentAssumption
<1>2. /\ request[h].at = "idle"
      /\ request' = [request EXCEPT ![h] = [at |-> "storing", key |-> k, body |-> b]]
      /\ UNCHANGED <<serviceStoreVars, image, serviceFaults, queueVars, workVars>>
  BY RowsOfRequests DEF Receive
<1>3. [at |-> "storing", key |-> k, body |-> b] \in RequestRow
  BY <1>1, RowsOfRequests
<1>4. StoreSound' /\ KeysOfTurns'
  BY <1>2, StoreUntouched DEF ServiceInv
<1> QED
  BY <1>2, <1>3, <1>4, HandlerMoves

LEMMA StoreKeeps ==
  ASSUME ServiceInv, NEW h \in Handler, Store(h)
  PROVE  ServiceInv'
<1> DEFINE k == request[h].key
           b == request[h].body
<1>1. /\ request[h].at = "storing" /\ deleted' = deleted
      /\ UNCHANGED <<image, serviceFaults, queueVars, workVars>>
  BY DEF Store
<1>2. /\ StoreSound /\ KeysOfTurns /\ HandlersSound
      /\ k \in ServiceKey /\ b \in Body
  BY <1>1, RequestParts DEF ServiceInv
<1>3. CASE StoreAnswer(b, k) # Nothing
  <2>1. request' = [request EXCEPT ![h] = Idle] /\ UNCHANGED serviceStoreVars
    BY <1>1, <1>3 DEF Store, serviceStoreVars
  <2>2. StoreSound' /\ KeysOfTurns'
    BY <1>2, <2>1, StoreUntouched
  <2> QED
    BY <1>1, <2>1, <2>2, RowsOfRequests, HandlerMoves
<1>4. CASE StoreAnswer(b, k) = Nothing
  <2>1. /\ StoreAccepted(b, k, Rank(b))
        /\ request' = [request EXCEPT ![h] = [at |-> "enqueuing", turn |-> Rank(b)]]
    BY <1>4 DEF Store
  <2>2. Replay(b, k) = Nothing /\ Refusal(b) = Nothing
    BY <1>4 DEF StoreAnswer
  <2> HIDE DEF k, b
  <2>3. idempotency[k] = Nothing
    BY <1>2, <2>2, NewKey
  <2>4. Rank(b) \in Turn /\ Rank(b)[2] = Len(conversations[Rank(b)[1]]) + 1
    <3>1. CASE b.op = "open"
      <4>1. FreshConversation \in Unused
        BY <1>2, <2>3, SomeConversationIsUnused, FreshIsUnused
      <4>2. FreshConversation \in Conv /\ Len(conversations[FreshConversation]) = 0
        BY <1>2, <4>1, KnownHasTurns DEF Unused
      <4>3. Rank(b) = <<FreshConversation, 1>> /\ 1 \in 1..MaxServiceTurns
        BY <3>1, AgentServiceAssumption DEF Rank
      <4> QED
        BY <4>2, <4>3 DEF Turn
    <3>2. CASE b.op # "open"
      <4>1. b.conv \in Conv /\ Len(conversations[b.conv]) < MaxServiceTurns
        BY <1>2, <2>2, <3>2, RoomForTheTurn
      <4>2. Rank(b) = <<b.conv, Len(conversations[b.conv]) + 1>>
        BY <3>2 DEF Rank
      <4>3. Len(conversations[b.conv]) \in Nat /\ MaxServiceTurns \in Nat
        BY <1>2, <4>1, KnownHasTurns, AgentServiceAssumption
      <4> QED
        BY <4>1, <4>2, <4>3 DEF Turn
    <3> QED
      BY <3>1, <3>2
  <2>5. StoreSound' /\ KeysOfTurns'
    BY <1>1, <1>2, <2>1, <2>3, <2>4, AcceptanceKeepsStore
  <2>6. [at |-> "enqueuing", turn |-> Rank(b)] \in RequestRow
    BY <2>4, RowsOfRequests
  <2> QED
    BY <1>1, <2>1, <2>5, <2>6, HandlerMoves
<1> QED
  BY <1>3, <1>4

LEMMA EnqueueKeeps ==
  ASSUME ServiceInv, NEW h \in Handler, Enqueue(h)
  PROVE  ServiceInv'
<1>1. /\ request[h].at = "enqueuing"
      /\ UNCHANGED <<serviceStoreVars, image, serviceFaults, closed, draining, drainRequested,
                     workVars>>
  BY DEF Enqueue
<1>2. HandlersSound /\ DrainIsAwake /\ TurnAtWorkSound /\ request[h].turn \in Turn
  BY <1>1, RequestParts DEF ServiceInv
<1>3. StoreSound' /\ KeysOfTurns' /\ TurnAtWorkSound'
  BY <1>1, StoreUntouched, WorkUntouched DEF ServiceInv
<1>4. CASE closed
  <2>1. request' = [request EXCEPT ![h] = Idle] /\ UNCHANGED queueVars
    BY <1>1, <1>4 DEF Enqueue, queueVars
  <2> QED
    BY <1>1, <1>3, <2>1, RowsOfRequests, HandlerMoves
<1>5. CASE ~closed
  <2>1. /\ queue' = Append(queue, request[h].turn)
        /\ request' = [request EXCEPT ![h] = [at |-> "waking"]]
    BY <1>5 DEF Enqueue
  <2>2. request' \in [Handler -> RequestRow] /\ request'[h] = [at |-> "waking"]
    BY <1>2, <2>1, RowsOfRequests, RequestSet
  <2>3. queue' \in Seq(Turn)
    <3>1. queue \in Seq(Turn)
      BY <1>2 DEF HandlersSound
    <3> QED
      BY <1>2, <2>1, <3>1
  <2>4. HandlersSound'
    BY <1>1, <1>2, <2>2, <2>3 DEF HandlersSound
  <2>5. DrainIsAwake'
    <3>1. request'[h].at = "waking"
      BY <2>2
    <3>2. draining' <=> drain'.at # "idle"
      BY <1>1, <1>2 DEF DrainIsAwake, workVars
    <3> QED
      BY <3>1, <3>2 DEF DrainIsAwake
  <2> QED
    BY <1>3, <2>4, <2>5 DEF ServiceInv
<1> QED
  BY <1>4, <1>5

LEMMA WakeKeeps ==
  ASSUME ServiceInv, NEW h \in Handler, Wake(h)
  PROVE  ServiceInv'
<1>1. /\ request' = [request EXCEPT ![h] = Idle] /\ drainRequested' = TRUE
      /\ UNCHANGED <<serviceStoreVars, image, serviceFaults, queue, closed, acquired, records,
                     published, charged>>
      /\ IF closed \/ draining THEN UNCHANGED <<draining, drain>>
         ELSE draining' = TRUE /\ drain' = [at |-> "asking"]
  BY DEF Wake, DrainSoon
<1>2. HandlersSound /\ DrainIsAwake /\ TurnAtWorkSound /\ DrainSound
  BY DEF ServiceInv, TurnAtWorkSound
<1>3. StoreSound' /\ KeysOfTurns'
  BY <1>1, StoreUntouched DEF ServiceInv
<1>4. HandlersSound'
  <2>1. request' \in [Handler -> RequestRow]
    BY <1>1, <1>2, RowsOfRequests, RequestSet
  <2>2. draining' \in BOOLEAN
    BY <1>1, <1>2 DEF HandlersSound
  <2> QED
    BY <1>1, <1>2, <2>1, <2>2 DEF HandlersSound
<1>5. CASE closed \/ draining
  <2>1. UNCHANGED workVars /\ UNCHANGED <<draining, drain>>
    BY <1>1, <1>5 DEF workVars
  <2>2. DrainIsAwake'
    BY <1>1, <1>2, <1>5, <2>1 DEF DrainIsAwake, DrainSound
  <2> QED
    BY <1>2, <1>3, <1>4, <2>1, <2>2, WorkUntouched DEF ServiceInv
<1>6. CASE ~(closed \/ draining)
  <2>1. draining' = TRUE /\ drain' = [at |-> "asking"] /\ drain'.at = "asking"
    BY <1>1, <1>6
  <2>2. DrainIsAwake'
    BY <1>1, <2>1 DEF DrainIsAwake
  <2>3. drain.at = "idle"
    BY <1>2, <1>6 DEF DrainIsAwake
  <2>4. TurnAtWorkSound'
    <3>1. DrainSound'
      BY <1>1, <1>2, <2>1 DEF DrainSound
    <3>2. PaidByRecord'
      BY <1>1, <1>2 DEF TurnAtWorkSound, PaidByRecord
    <3>3. ImagesAreReleased'
      BY <1>1, <1>2, <2>3 DEF TurnAtWorkSound, ImagesAreReleased
    <3>4. ChargesAreAdmitted' /\ OutputsAreEarned'
      BY <2>1 DEF ChargesAreAdmitted, OutputsAreEarned
    <3> QED
      BY <3>1, <3>2, <3>3, <3>4 DEF TurnAtWorkSound
  <2> QED
    BY <1>3, <1>4, <2>2, <2>4 DEF ServiceInv
<1> QED
  BY <1>5, <1>6

(* The conversation, the image or the queue is taken away, or a call fails. *)
LEMMA OutsideKeeps ==
  ASSUME ServiceInv,
         \/ \E h \in Handler, b \in Sent : ReceiveFails(h, b)
         \/ \E c \in Conv : Forget(c)
         \/ SourceRemoved
         \/ Close
         \/ UNCHANGED serviceVars
  PROVE  ServiceInv'
<1>1. /\ UNCHANGED <<request, queue, draining, drainRequested, workVars, drain>>
      /\ closed' \in {closed, TRUE} /\ image' \in {image, FALSE}
      /\ \/ serviceFaults' = serviceFaults
         \/ serviceFaults < ResourceFaults /\ serviceFaults' = serviceFaults + 1
  BY DEF ReceiveFails, Forget, SourceRemoved, Close, serviceVars, queueVars, workVars
<1>2. HandlersSound /\ DrainIsAwake /\ TurnAtWorkSound
  BY DEF ServiceInv
<1>3. StoreSound' /\ KeysOfTurns'
  <2>1. CASE \E c \in Conv : Forget(c)
    BY <2>1, ForgetKeepsStore DEF ServiceInv
  <2>2. CASE ~\E c \in Conv : Forget(c)
    <3>1. UNCHANGED serviceStoreVars
      BY <2>2 DEF ReceiveFails, SourceRemoved, Close, serviceVars
    <3> QED
      BY <3>1, StoreUntouched DEF ServiceInv
  <2> QED
    BY <2>1, <2>2
<1>4. HandlersSound'
  <2>1. ResourceFaults \in Nat
    BY AgentServiceAssumption
  <2>2. serviceFaults' \in 0..ResourceFaults
    BY <1>1, <1>2, <2>1 DEF HandlersSound
  <2> QED
    BY <1>1, <1>2, <2>2 DEF HandlersSound
<1>5. DrainIsAwake'
  BY <1>1, <1>2 DEF DrainIsAwake
<1> QED
  BY <1>1, <1>2, <1>3, <1>4, <1>5, WorkUntouched DEF ServiceInv

-----------------------------------------------------------------------------
(* What the steps of the drain and of the turn at work keep.               *)

(* Steps that touch no handler and leave the store alone.                  *)
LEMMA DrainMoves ==
  ASSUME ServiceInv, UNCHANGED <<serviceStoreVars, image, request, closed>>,
         queue' \in Seq(Turn), draining' \in BOOLEAN, drainRequested' \in BOOLEAN,
         serviceFaults' \in 0..ResourceFaults, DrainIsAwake', TurnAtWorkSound'
  PROVE  ServiceInv'
<1>1. StoreSound' /\ KeysOfTurns'
  BY StoreUntouched DEF ServiceInv
<1>2. HandlersSound'
  BY DEF ServiceInv, HandlersSound
<1> QED
  BY <1>1, <1>2 DEF ServiceInv

LEMMA BetweenTurns ==
  ASSUME TurnAtWorkSound, drain.at \notin {"acquiring", "responding"},
         UNCHANGED <<acquired, records, published, charged>>,
         drain'.at \in {"idle", "asking", "leaving", "taking"}
  PROVE  TurnAtWorkSound'
<1>1. DrainSound'
  BY DEF TurnAtWorkSound, DrainSound
<1>2. PaidByRecord' /\ ImagesAreReleased'
  BY DEF TurnAtWorkSound, PaidByRecord, ImagesAreReleased
<1>3. ChargesAreAdmitted' /\ OutputsAreEarned'
  BY DEF ChargesAreAdmitted, OutputsAreEarned
<1> QED
  BY <1>1, <1>2, <1>3 DEF TurnAtWorkSound

LEMMA TakeRequestKeeps ==
  ASSUME ServiceInv, TakeRequest
  PROVE  ServiceInv'
<1>1. /\ drain.at = "asking" /\ drainRequested' = FALSE
      /\ drain'.at = IF drainRequested THEN "taking" ELSE "leaving"
      /\ UNCHANGED <<serviceStoreVars, image, serviceFaults, request, queue, closed, draining,
                     acquired, records, published, charged>>
  BY DEF TakeRequest
<1>2. HandlersSound /\ DrainIsAwake /\ TurnAtWorkSound
  BY DEF ServiceInv
<1>3. TurnAtWorkSound'
  BY <1>1, <1>2, BetweenTurns
<1>4. DrainIsAwake'
  BY <1>1, <1>2 DEF DrainIsAwake, HandlersSound
<1> QED
  BY <1>1, <1>2, <1>3, <1>4, DrainMoves DEF HandlersSound

LEMMA LeaveDrainKeeps ==
  ASSUME ServiceInv, LeaveDrain
  PROVE  ServiceInv'
<1>1. /\ drain.at = "leaving"
      /\ IF drainRequested /\ ~closed
         THEN draining' = TRUE /\ drain' = [at |-> "asking"]
         ELSE draining' = FALSE /\ drain' = Idle
      /\ UNCHANGED <<drainRequested, serviceStoreVars, image, serviceFaults, request, queue,
                     closed, acquired, records, published, charged>>
  BY DEF LeaveDrain
<1>2. HandlersSound /\ DrainIsAwake /\ TurnAtWorkSound
  BY DEF ServiceInv
<1>3. \/ drain'.at = "asking" /\ draining' = TRUE /\ drainRequested /\ ~closed
      \/ drain'.at = "idle" /\ draining' = FALSE /\ (~drainRequested \/ closed)
  BY <1>1 DEF Idle
<1>4. TurnAtWorkSound'
  BY <1>1, <1>2, <1>3, BetweenTurns
<1>5. DrainIsAwake'
  BY <1>1, <1>2, <1>3 DEF DrainIsAwake, HandlersSound
<1> QED
  BY <1>1, <1>2, <1>3, <1>4, <1>5, DrainMoves DEF HandlersSound

LEMMA TakesTurnKeeps ==
  ASSUME ServiceInv, AgentTakesTurn
  PROVE  ServiceInv'
<1>1. /\ drain.at = "taking"
      /\ UNCHANGED <<deleted, idempotency, image, serviceFaults, request, closed, draining,
                     drainRequested, acquired, records, published, charged>>
  BY DEF AgentTakesTurn
<1>2. /\ HandlersSound /\ DrainIsAwake /\ TurnAtWorkSound /\ StoreSound /\ KeysOfTurns
      /\ queue \in Seq(Turn)
  BY DEF ServiceInv, HandlersSound
<1>3. draining = TRUE
  BY <1>1, <1>2 DEF DrainIsAwake, HandlersSound
<1>4. CASE queue = <<>>
  <2>1. drain' = [at |-> "asking"] /\ UNCHANGED <<conversations, queue>>
    BY <1>4 DEF AgentTakesTurn
  <2>2. TurnAtWorkSound'
    BY <1>1, <1>2, <2>1, BetweenTurns
  <2>3. DrainIsAwake'
    BY <1>1, <1>3, <1>4, <2>1 DEF DrainIsAwake
  <2> QED
    BY <1>1, <1>2, <2>1, <2>2, <2>3, DrainMoves DEF HandlersSound, serviceStoreVars
<1>5. CASE queue # <<>>
  <2> DEFINE t == Head(queue)
  <2>1. t \in Turn /\ Tail(queue) \in Seq(Turn)
    BY <1>2, <1>5
  <2>2. queue' = Tail(queue) /\ queue' \in Seq(Turn)
    BY <1>5, <2>1 DEF AgentTakesTurn
  <2>3. CASE Exists(t) /\ TurnOf(t).status = "queued"
    <3>1. /\ conversations' = [conversations EXCEPT ![t[1]][t[2]].status = "running"]
          /\ drain' = [at |-> "acquiring", turn |-> t, wanted |-> Wanted(t)]
      BY <1>5, <2>3 DEF AgentTakesTurn
    <3> HIDE DEF t
    <3>2. t[1] \in Conv /\ t[2] \in 1..Len(conversations[t[1]])
          /\ conversations[t[1]] \in Seq(StoredTurn)
      BY <1>2, <2>1, <2>3, TurnParts, KnownHasTurns DEF Exists
    <3>3. TurnOf(t) \in StoredTurn
      BY <3>2 DEF TurnOf
    <3> DEFINE row == [TurnOf(t) EXCEPT !.status = "running"]
    <3>4. row \in StoredTurn /\ row.key = TurnOf(t).key
      BY <3>3 DEF StoredTurn
    <3>5. conversations' = [conversations EXCEPT ![t[1]][t[2]] = row]
      BY <3>1 DEF TurnOf
    <3>6. StoreSound' /\ KeysOfTurns'
      <4> HIDE DEF row
      <4> QED
        BY <1>1, <1>2, <2>1, <2>3, <3>4, <3>5, RowRewritten
    <3>7. HandlersSound'
      BY <1>1, <1>2, <2>2 DEF HandlersSound
    <3>8. drain'.at = "acquiring"
      BY <3>1
    <3>9. DrainIsAwake'
      BY <1>1, <1>3, <3>8 DEF DrainIsAwake
    <3>10. TurnAtWorkSound'
      <4>1. DrainSound'
        <5>1. drain' = [at |-> "acquiring", turn |-> drain'.turn, wanted |-> drain'.wanted]
              /\ drain'.turn = t
          BY <3>1
        <5> QED
          BY <1>1, <1>2, <2>1, <3>8, <5>1 DEF TurnAtWorkSound, DrainSound
      <4>2. PaidByRecord'
        BY <1>1, <1>2 DEF TurnAtWorkSound, PaidByRecord
      <4>3. ImagesAreReleased' /\ ChargesAreAdmitted' /\ OutputsAreEarned'
        BY <3>8 DEF ImagesAreReleased, ChargesAreAdmitted, OutputsAreEarned
      <4> QED
        BY <4>1, <4>2, <4>3 DEF TurnAtWorkSound
    <3> QED
      BY <3>6, <3>7, <3>9, <3>10 DEF ServiceInv
  <2>4. CASE ~(Exists(t) /\ TurnOf(t).status = "queued")
    <3>1. UNCHANGED <<conversations, drain>>
      BY <1>5, <2>4 DEF AgentTakesTurn
    <3>2. TurnAtWorkSound'
      BY <1>1, <1>2, <3>1, BetweenTurns
    <3>3. DrainIsAwake'
      BY <1>1, <1>3, <3>1 DEF DrainIsAwake
    <3> QED
      BY <1>1, <1>2, <2>2, <3>1, <3>2, <3>3, DrainMoves DEF HandlersSound, serviceStoreVars
  <2> QED
    BY <2>3, <2>4
<1> QED
  BY <1>4, <1>5

LEMMA NothingIsNoOutput == Nothing # "text" /\ Nothing # "image"
BY NothingAssumption

LEMMA Outcomes ==
  /\ \A e \in Codes : /\ Failed(e) \in Outcome /\ Failed(e).status = "failed"
                      /\ Failed(e).output = Nothing /\ Failed(e).code = e
  /\ \A o \in {"text", "image"} : /\ Succeeded(o) \in Outcome /\ Succeeded(o).output = o
                                  /\ Succeeded(o).status = "succeeded"
BY DEF Failed, Succeeded, Outcome

(* The end of a turn, whatever it comes to.                                *)
LEMMA FinishKeeps ==
  ASSUME TurnAtWorkSound, drain.at \in {"acquiring", "responding"}, NEW outcome \in Outcome,
         FinishTurn(outcome), UNCHANGED <<records, published, charged>>,
         outcome.output = "image" => published,
         outcome.output = "text" => \E i \in DOMAIN records : records[i].status = "succeeded"
  PROVE  TurnAtWorkSound' /\ drain'.at = "completing"
<1> DEFINE told == ProtectPricedCommit(outcome)
           paid == \E i \in DOMAIN records :
                      /\ PricedRecord(records[i])
                      /\ records[i].status \in {"succeeded", "after_commit"}
           late == Failed("DEPENDENCY_FAILURE_AFTER_COMMIT")
<1>1. /\ drain' = [at |-> "completing", turn |-> drain.turn, outcome |-> told]
      /\ acquired' = {} /\ drain.turn \in Turn
  BY DEF FinishTurn, TurnAtWorkSound, DrainSound
<1>2. /\ late \in Outcome /\ late.output = Nothing
      /\ late.code = "DEPENDENCY_FAILURE_AFTER_COMMIT"
  BY Outcomes DEF Codes
<1>3. /\ outcome.status = "failed" /\ paid => told = late
      /\ ~(outcome.status = "failed" /\ paid) => told = outcome
  BY DEF ProtectPricedCommit
<1>4. charged => paid
  BY DEF TurnAtWorkSound, PaidByRecord
<1>5. outcome.status \in {"failed", "succeeded"}
  BY DEF Outcome
<1> HIDE DEF told, late, paid
<1>6. drain'.at = "completing" /\ drain'.turn \in Turn /\ drain'.outcome = told /\ told \in Outcome
  BY <1>1, <1>2, <1>3
<1>7. DrainSound'
  BY <1>6 DEF TurnAtWorkSound, DrainSound
<1>8. PaidByRecord'
  BY DEF TurnAtWorkSound, PaidByRecord
<1>9. ImagesAreReleased'
  BY <1>1 DEF ImagesAreReleased
<1>10. ChargesAreAdmitted'
  BY <1>2, <1>3, <1>4, <1>5, <1>6 DEF ChargesAreAdmitted
<1>11. OutputsAreEarned'
  BY <1>2, <1>3, <1>6, NothingIsNoOutput DEF OutputsAreEarned
<1> QED
  BY <1>6, <1>7, <1>8, <1>9, <1>10, <1>11 DEF TurnAtWorkSound

(* What a step of the turn at work leaves of the drain.                    *)
LEMMA AtWork ==
  ASSUME ServiceInv, drain.at \in {"acquiring", "responding"}, UNCHANGED queueVars,
         drain'.at \in {"taking", "acquiring", "responding", "completing"},
         UNCHANGED <<serviceStoreVars, image, request>>,
         \/ serviceFaults' = serviceFaults
         \/ serviceFaults < ResourceFaults /\ serviceFaults' = serviceFaults + 1,
         TurnAtWorkSound'
  PROVE  ServiceInv'
<1>1. HandlersSound /\ DrainIsAwake /\ ResourceFaults \in Nat
  BY AgentServiceAssumption DEF ServiceInv
<1>2. UNCHANGED <<queue, closed, draining, drainRequested>>
  BY DEF queueVars
<1>3. serviceFaults' \in 0..ResourceFaults
  BY <1>1 DEF HandlersSound
<1>4. DrainIsAwake'
  BY <1>1, <1>2 DEF DrainIsAwake
<1>5. /\ queue' \in Seq(Turn) /\ draining' \in BOOLEAN /\ drainRequested' \in BOOLEAN
      /\ closed' = closed
  BY <1>1, <1>2 DEF HandlersSound
<1> QED
  BY <1>3, <1>4, <1>5, DrainMoves

LEMMA InspectCounts ==
  ASSUME NEW w, NEW found,
         IF w = Source THEN Inspect(found)
         ELSE \/ found = "found" /\ UNCHANGED serviceFaults
              \/ /\ found = "throws" /\ serviceFaults < ResourceFaults
                 /\ serviceFaults' = serviceFaults + 1
  PROVE  \/ serviceFaults' = serviceFaults
         \/ serviceFaults < ResourceFaults /\ serviceFaults' = serviceFaults + 1
BY DEF Inspect

LEMMA AcquireKeeps ==
  ASSUME ServiceInv, Acquire
  PROVE  ServiceInv'
<1>1. /\ drain.at = "acquiring"
      /\ UNCHANGED <<serviceStoreVars, image, request, queueVars, records, published, charged>>
  BY DEF Acquire
<1>2. /\ TurnAtWorkSound /\ DrainSound /\ PaidByRecord /\ drain.turn \in Turn
      /\ drain = [at |-> "acquiring", turn |-> drain.turn, wanted |-> drain.wanted]
  BY <1>1 DEF ServiceInv, TurnAtWorkSound, DrainSound
<1>3. ASSUME drain'.at \in {"acquiring", "responding"}, drain'.turn = drain.turn,
             drain'.at = "acquiring" =>
               drain' = [at |-> "acquiring", turn |-> drain'.turn, wanted |-> drain'.wanted]
      PROVE  TurnAtWorkSound'
  <2>1. DrainSound'
    BY <1>1, <1>2, <1>3 DEF DrainSound
  <2>2. PaidByRecord'
    BY <1>1, <1>2 DEF PaidByRecord
  <2>3. ImagesAreReleased' /\ ChargesAreAdmitted' /\ OutputsAreEarned'
    BY <1>3 DEF ImagesAreReleased, ChargesAreAdmitted, OutputsAreEarned
  <2> QED
    BY <2>1, <2>2, <2>3 DEF TurnAtWorkSound
<1>4. CASE drain.wanted = {}
  <2>1. drain' = [at |-> "responding", turn |-> drain.turn] /\ UNCHANGED serviceFaults
    BY <1>4 DEF Acquire
  <2>2. drain'.at = "responding" /\ drain'.turn = drain.turn
    BY <2>1
  <2> QED
    BY <1>1, <1>3, <2>1, <2>2, AtWork
<1>5. CASE drain.wanted # {}
  <2>1. PICK w \in drain.wanted, found \in {"found", "missing", "throws"} :
           /\ IF w = Source THEN Inspect(found)
              ELSE \/ found = "found" /\ UNCHANGED serviceFaults
                   \/ /\ found = "throws" /\ serviceFaults < ResourceFaults
                      /\ serviceFaults' = serviceFaults + 1
           /\ IF found = "found"
              THEN /\ drain' = [drain EXCEPT !.wanted = @ \ {w}]
                   /\ acquired' = acquired \cup {w}
              ELSE FinishTurn(Failed("RESOURCE_UNAVAILABLE"))
    BY <1>5 DEF Acquire
  <2>2. \/ serviceFaults' = serviceFaults
        \/ serviceFaults < ResourceFaults /\ serviceFaults' = serviceFaults + 1
    BY <2>1, InspectCounts
  <2>3. CASE found = "found"
    <3>1. drain' = [drain EXCEPT !.wanted = @ \ {w}]
      BY <2>1, <2>3
    <3>2. drain' = [at |-> "acquiring", turn |-> drain.turn, wanted |-> drain.wanted \ {w}]
      BY <1>2, <3>1
    <3>3. drain'.at = "acquiring" /\ drain'.turn = drain.turn /\ drain'.wanted = drain.wanted \ {w}
      BY <3>2
    <3> QED
      BY <1>1, <1>3, <2>2, <3>2, <3>3, AtWork
  <2>4. CASE found # "found"
    <3>1. FinishTurn(Failed("RESOURCE_UNAVAILABLE"))
      BY <2>1, <2>4
    <3>2. /\ Failed("RESOURCE_UNAVAILABLE") \in Outcome
          /\ Failed("RESOURCE_UNAVAILABLE").output = Nothing
      BY Outcomes DEF Codes
    <3>3. TurnAtWorkSound' /\ drain'.at = "completing"
      BY <1>1, <1>2, <3>1, <3>2, FinishKeeps, NothingIsNoOutput
    <3> QED
      BY <1>1, <2>2, <3>3, AtWork
  <2> QED
    BY <2>3, <2>4
<1> QED
  BY <1>4, <1>5

LEMMA CallToolKeeps ==
  ASSUME ServiceInv, CallTool
  PROVE  ServiceInv'
<1>1. PICK effect \in {"free", "priced"}, status \in {"succeeded", "failed", "after_commit"} :
         /\ records' = Append(records, [effect |-> effect, status |-> status])
         /\ charged' = (charged \/ (effect = "priced" /\ status # "failed"))
         /\ IF effect = "priced" /\ status = "succeeded"
            THEN \/ published' = TRUE /\ UNCHANGED serviceFaults
                 \/ /\ serviceFaults < ResourceFaults
                    /\ serviceFaults' = serviceFaults + 1
                    /\ UNCHANGED published
            ELSE UNCHANGED <<published, serviceFaults>>
  BY DEF CallTool
<1>2. /\ drain.at = "responding"
      /\ UNCHANGED <<serviceStoreVars, image, request, queueVars, drain, acquired>>
  BY DEF CallTool
<1>3. TurnAtWorkSound /\ DrainSound /\ PaidByRecord /\ records \in Seq(ToolRecord)
  BY DEF ServiceInv, TurnAtWorkSound, DrainSound
<1> DEFINE last == [effect |-> effect, status |-> status]
<1>4. last \in ToolRecord /\ last.effect = effect /\ last.status = status
  BY DEF ToolRecord
<1> HIDE DEF last
<1>5. /\ records' \in Seq(ToolRecord)
      /\ \A i \in DOMAIN records : i \in DOMAIN records' /\ records'[i] = records[i]
      /\ Len(records) + 1 \in DOMAIN records' /\ records'[Len(records) + 1] = last
  <2>1. records' = Append(records, last)
    BY <1>1 DEF last
  <2> QED
    BY <1>3, <1>4, <2>1
<1>6. charged' \in BOOLEAN /\ published' \in BOOLEAN
  BY <1>1, <1>3 DEF DrainSound
<1>7. DrainSound'
  BY <1>2, <1>3, <1>5, <1>6 DEF DrainSound
<1>8. PaidByRecord'
  <2>1. CASE charged
    BY <1>3, <1>5, <2>1 DEF PaidByRecord, PricedRecord
  <2>2. CASE ~charged
    <3>1. SUFFICES ASSUME charged'
                   PROVE  PaidByRecord'
      BY DEF PaidByRecord
    <3>2. effect = "priced" /\ status \in {"succeeded", "after_commit"}
      BY <1>1, <2>2, <3>1
    <3> QED
      BY <1>4, <1>5, <3>2 DEF PaidByRecord, PricedRecord
  <2> QED
    BY <2>1, <2>2
<1>9. ImagesAreReleased' /\ ChargesAreAdmitted' /\ OutputsAreEarned'
  BY <1>2 DEF ImagesAreReleased, ChargesAreAdmitted, OutputsAreEarned
<1>10. TurnAtWorkSound'
  BY <1>7, <1>8, <1>9 DEF TurnAtWorkSound
<1>11. \/ serviceFaults' = serviceFaults
       \/ serviceFaults < ResourceFaults /\ serviceFaults' = serviceFaults + 1
  BY <1>1
<1> QED
  BY <1>2, <1>10, <1>11, AtWork

LEMMA RespondKeeps ==
  ASSUME ServiceInv, Respond
  PROVE  ServiceInv'
<1>1. /\ drain.at = "responding"
      /\ UNCHANGED <<serviceStoreVars, image, request, queueVars, records, published, charged>>
  BY DEF Respond
<1>2. TurnAtWorkSound
  BY DEF ServiceInv
<1>3. PICK draft \in {"throws", "invalid", "text", "image"} :
         \/ /\ FinishTurn(
                 CASE draft = "throws" -> Failed("AGENT_FAILURE")
                   [] draft = "invalid" \/ ~Derived(draft) ->
                         Failed("INVALID_OUTPUT")
                   [] draft = "image" /\ ~Proven ->
                         Failed("INVALID_OUTPUT")
                   [] OTHER -> Succeeded(draft))
            /\ UNCHANGED serviceFaults
         \/ /\ draft = "image"
            /\ serviceFaults < ResourceFaults
            /\ serviceFaults' = serviceFaults + 1
            /\ FinishTurn(Failed("RESOURCE_UNAVAILABLE"))
  BY DEF Respond
<1>4. \E outcome \in Outcome :
         /\ FinishTurn(outcome)
         /\ outcome.output = "image" => published
         /\ outcome.output = "text" => \E i \in DOMAIN records : records[i].status = "succeeded"
  <2>1. \A e \in Codes : /\ Failed(e) \in Outcome /\ Failed(e).output # "image"
                         /\ Failed(e).output # "text"
    BY Outcomes, NothingIsNoOutput
  <2>2. /\ "AGENT_FAILURE" \in Codes /\ "INVALID_OUTPUT" \in Codes
        /\ "RESOURCE_UNAVAILABLE" \in Codes
    BY DEF Codes
  <2>3. CASE FinishTurn(Failed("RESOURCE_UNAVAILABLE"))
    BY <2>1, <2>2, <2>3
  <2>4. CASE draft = "throws" /\ FinishTurn(Failed("AGENT_FAILURE"))
    BY <2>1, <2>2, <2>4
  <2>5. CASE FinishTurn(Failed("INVALID_OUTPUT"))
    BY <2>1, <2>2, <2>5
  <2>6. CASE /\ draft \notin {"throws", "invalid"} /\ Derived(draft)
             /\ ~(draft = "image" /\ ~Proven) /\ FinishTurn(Succeeded(draft))
    <3>1. draft \in {"text", "image"}
      BY <2>6
    <3>2. Succeeded(draft) \in Outcome /\ Succeeded(draft).output = draft
      BY <3>1, Outcomes
    <3>3. draft = "image" => published
      BY <2>6 DEF Proven
    <3>4. draft = "text" => \E i \in DOMAIN records : records[i].status = "succeeded"
      BY <2>6 DEF Derived
    <3> QED
      BY <2>6, <3>2, <3>3, <3>4
  <2>7. ASSUME FinishTurn(
                 CASE draft = "throws" -> Failed("AGENT_FAILURE")
                   [] draft = "invalid" \/ ~Derived(draft) ->
                         Failed("INVALID_OUTPUT")
                   [] draft = "image" /\ ~Proven ->
                         Failed("INVALID_OUTPUT")
                   [] OTHER -> Succeeded(draft))
        PROVE  \/ draft = "throws" /\ FinishTurn(Failed("AGENT_FAILURE"))
               \/ FinishTurn(Failed("INVALID_OUTPUT"))
               \/ /\ draft \notin {"throws", "invalid"} /\ Derived(draft)
                  /\ ~(draft = "image" /\ ~Proven) /\ FinishTurn(Succeeded(draft))
    <3>1. CASE draft = "throws"
      BY <2>7, <3>1
    <3>2. CASE draft # "throws" /\ (draft = "invalid" \/ ~Derived(draft))
      BY <2>7, <3>2
    <3>3. CASE draft # "throws" /\ ~(draft = "invalid" \/ ~Derived(draft))
               /\ draft = "image" /\ ~Proven
      BY <2>7, <3>3
    <3>4. CASE draft # "throws" /\ ~(draft = "invalid" \/ ~Derived(draft))
               /\ ~(draft = "image" /\ ~Proven)
      BY <2>7, <3>4
    <3> QED
      BY <3>1, <3>2, <3>3, <3>4
  <2> QED
    BY <1>3, <2>3, <2>4, <2>5, <2>6, <2>7
<1>5. TurnAtWorkSound' /\ drain'.at = "completing"
  BY <1>1, <1>2, <1>4, FinishKeeps
<1>6. \/ serviceFaults' = serviceFaults
      \/ serviceFaults < ResourceFaults /\ serviceFaults' = serviceFaults + 1
  BY <1>3
<1> QED
  BY <1>1, <1>5, <1>6, AtWork

LEMMA CompleteKeeps ==
  ASSUME ServiceInv, Complete
  PROVE  ServiceInv'
<1>1. /\ drain.at = "completing" /\ drain' = [at |-> "taking"] /\ drain'.at = "taking"
      /\ records' = <<>> /\ published' = FALSE /\ charged' = FALSE
      /\ UNCHANGED <<deleted, idempotency, image, serviceFaults, request, queueVars, acquired>>
  BY DEF Complete
<1>2. /\ HandlersSound /\ DrainIsAwake /\ TurnAtWorkSound /\ StoreSound /\ KeysOfTurns
      /\ drain.turn \in Turn /\ drain.outcome \in Outcome
  BY <1>1 DEF ServiceInv, TurnAtWorkSound, DrainSound
<1>3. StoreSound' /\ KeysOfTurns'
  <2> DEFINE t == drain.turn
  <2>1. CASE Exists(t) /\ TurnOf(t).status = "running"
    <3> DEFINE row == [TurnOf(t) EXCEPT !.status = drain.outcome.status,
                                        !.output = drain.outcome.output]
    <3>1. conversations' = [conversations EXCEPT ![t[1]][t[2]] = row]
      BY <2>1 DEF Complete, SetTurn, TurnOf
    <3> HIDE DEF t
    <3>2. t \in Turn
      BY <1>2 DEF t
    <3>3. t[1] \in Conv /\ t[2] \in 1..Len(conversations[t[1]])
          /\ conversations[t[1]] \in Seq(StoredTurn)
      BY <1>2, <2>1, <3>2, TurnParts, KnownHasTurns DEF Exists
    <3>4. TurnOf(t) \in StoredTurn
      BY <3>3 DEF TurnOf
    <3>5. row \in StoredTurn /\ row.key = TurnOf(t).key
      BY <1>2, <3>4 DEF StoredTurn, Outcome
    <3> HIDE DEF row
    <3> QED
      BY <1>1, <1>2, <2>1, <3>1, <3>2, <3>5, RowRewritten
  <2>2. CASE ~(Exists(t) /\ TurnOf(t).status = "running")
    <3>1. UNCHANGED serviceStoreVars
      BY <1>1, <2>2 DEF Complete, serviceStoreVars
    <3> QED
      BY <1>2, <3>1, StoreUntouched
  <2> QED
    BY <2>1, <2>2
<1>4. UNCHANGED <<queue, closed, draining, drainRequested>>
  BY <1>1 DEF queueVars
<1>5. HandlersSound'
  BY <1>1, <1>2, <1>4 DEF HandlersSound
<1>6. DrainIsAwake'
  BY <1>1, <1>2, <1>4 DEF DrainIsAwake
<1>7. TurnAtWorkSound'
  <2>1. records' \in Seq(ToolRecord)
    BY <1>1
  <2>2. DrainSound'
    BY <1>1, <2>1 DEF DrainSound
  <2>3. PaidByRecord' /\ ChargesAreAdmitted' /\ OutputsAreEarned'
    BY <1>1 DEF PaidByRecord, ChargesAreAdmitted, OutputsAreEarned
  <2>4. ImagesAreReleased'
    BY <1>1, <1>2 DEF TurnAtWorkSound, ImagesAreReleased
  <2> QED
    BY <2>2, <2>3, <2>4 DEF TurnAtWorkSound
<1> QED
  BY <1>3, <1>5, <1>6, <1>7 DEF ServiceInv

-----------------------------------------------------------------------------
(* The theorems.                                                           *)

LEMMA ServiceStarts ==
  ASSUME AgentServiceInit
  PROVE  ServiceInv
<1>1. /\ MaxServiceTurns \in Nat /\ ResourceFaults \in Nat
  BY AgentServiceAssumption
<1>2. /\ <<>> \in Seq(StoredTurn) /\ <<>> \in Seq(Turn) /\ <<>> \in Seq(ToolRecord)
      /\ Len(<<>>) = 0
  OBVIOUS
<1>3. StoreSound
  BY <1>1, <1>2 DEF AgentServiceInit, StoreSound
<1>4. \A c \in Conv : conversations[c] = <<>>
  BY DEF AgentServiceInit
<1>5. KeysOfTurns
  <2>1. \A t \in Turn : ~Exists(t)
    BY <1>2, <1>4, TurnParts DEF Exists
  <2>2. \A c \in Conv : ~Known(c) /\ c \notin deleted
    BY <1>4 DEF Known, AgentServiceInit
  <2> QED
    BY <2>1, <2>2 DEF KeysOfTurns
<1>6. HandlersSound
  <2>1. request \in [Handler -> RequestRow]
    BY RowsOfRequests DEF AgentServiceInit
  <2>2. queue \in Seq(Turn)
    BY <1>2 DEF AgentServiceInit
  <2>3. {image, closed, draining, drainRequested} \subseteq BOOLEAN
    BY DEF AgentServiceInit
  <2>4. serviceFaults \in 0..ResourceFaults
    BY <1>1 DEF AgentServiceInit
  <2> QED
    BY <2>1, <2>2, <2>3, <2>4 DEF HandlersSound
<1>7. drain.at = "idle"
  BY DEF AgentServiceInit, Idle
<1>8. DrainIsAwake
  BY <1>7 DEF AgentServiceInit, DrainIsAwake
<1>9. TurnAtWorkSound
  <2>1. DrainSound
    BY <1>2, <1>7 DEF AgentServiceInit, DrainSound
  <2>2. PaidByRecord /\ ImagesAreReleased /\ ChargesAreAdmitted /\ OutputsAreEarned
    BY <1>7 DEF AgentServiceInit, PaidByRecord, ImagesAreReleased, ChargesAreAdmitted,
                OutputsAreEarned
  <2> QED
    BY <2>1, <2>2 DEF TurnAtWorkSound
<1> QED
  BY <1>3, <1>5, <1>6, <1>8, <1>9 DEF ServiceInv

LEMMA ServiceKeeps ==
  ASSUME ServiceInv, [AgentServiceNext]_serviceVars
  PROVE  ServiceInv'
<1>1. CASE \E h \in Handler, k \in ServiceKey, b \in Sent : Open(h, k, b) \/ Continue(h, k, b)
  BY <1>1, ReceiveKeeps DEF Open, Continue
<1>2. CASE \E h \in Handler : Handle(h)
  BY <1>2, StoreKeeps, EnqueueKeeps, WakeKeeps DEF Handle
<1>3. CASE Work
  BY <1>3, TakeRequestKeeps, LeaveDrainKeeps, TakesTurnKeeps, AcquireKeeps, CallToolKeeps,
     RespondKeeps, CompleteKeeps DEF Work
<1>4. CASE \/ \E h \in Handler, b \in Sent : ReceiveFails(h, b)
           \/ \E c \in Conv : Forget(c)
           \/ SourceRemoved
           \/ Close
           \/ UNCHANGED serviceVars
  BY <1>4, OutsideKeeps
<1> QED
  BY <1>1, <1>2, <1>3, <1>4 DEF AgentServiceNext

LEMMA KeysAreSettled ==
  ASSUME StoreSound, KeysOfTurns
  PROVE  OneTurnPerKey
<1>1. SUFFICES ASSUME NEW t \in Turn, Exists(t)
               PROVE  /\ \A u \in Turn : Exists(u) /\ TurnOf(t).key = TurnOf(u).key => t = u
                      /\ idempotency[TurnOf(t).key] # Nothing
                      /\ StoreAnswer(idempotency[TurnOf(t).key].body, TurnOf(t).key) = Accepted(t)
  BY DEF OneTurnPerKey
<1> DEFINE k == TurnOf(t).key
           b == idempotency[k].body
<1>2. idempotency[k] # Nothing /\ idempotency[k].turn = t
  BY <1>1 DEF KeysOfTurns
<1>3. \A u \in Turn : Exists(u) => idempotency[TurnOf(u).key].turn = u
  BY DEF KeysOfTurns
<1>4. Replay(b, k) = Accepted(t)
  <2> HIDE DEF k
  <2> QED
    BY <1>1, <1>2 DEF Replay
<1>5. StoreAnswer(b, k) = Accepted(t)
  <2> HIDE DEF k, b
  <2> QED
    BY <1>4, AcceptedIsAnAnswer DEF StoreAnswer
<1> QED
  BY <1>2, <1>3, <1>5

LEMMA ServiceInTruth ==
  ASSUME ServiceInv
  PROVE  ServiceConsistent
<1>1. StoreSound /\ KeysOfTurns /\ HandlersSound /\ DrainIsAwake /\ TurnAtWorkSound /\ DrainSound
  BY DEF ServiceInv, TurnAtWorkSound
<1>2. AgentServiceTypeOK
  <2>1. \A h \in Handler : request[h].at \in {"idle", "storing", "enqueuing", "waking"}
    <3>1. \A h \in Handler : request[h] \in RequestRow
      BY <1>1 DEF HandlersSound
    <3> QED
      BY <3>1 DEF RequestRow, Idle
  <2>2. drain.at = "completing" => drain.outcome.code \in Codes \cup {Nothing}
    BY <1>1 DEF DrainSound, Outcome
  <2>3. /\ \A c \in Conv : conversations[c] \in StoredConversation
        /\ deleted \subseteq Conv
        /\ \A k \in ServiceKey : idempotency[k] # Nothing => idempotency[k] \in IdempotencyRecord
    BY <1>1 DEF StoreSound, StoredConversation
  <2>4. /\ image \in BOOLEAN /\ closed \in BOOLEAN /\ draining \in BOOLEAN
        /\ drainRequested \in BOOLEAN /\ serviceFaults \in 0..ResourceFaults
        /\ queue \in Seq(Turn)
    BY <1>1 DEF HandlersSound
  <2>5. /\ drain.at \in {"idle", "asking", "leaving", "taking", "acquiring", "responding",
                         "completing"}
        /\ records \in Seq(ToolRecord) /\ published \in BOOLEAN /\ charged \in BOOLEAN
    BY <1>1 DEF DrainSound
  <2> QED
    BY <2>1, <2>2, <2>3, <2>4, <2>5 DEF AgentServiceTypeOK
<1>3. OneTurnPerKey
  BY <1>1, KeysAreSettled
<1>4. SleepsOnlyWhenDrained
  BY <1>1 DEF SleepsOnlyWhenDrained, DrainIsAwake
<1> QED
  BY <1>1, <1>2, <1>3, <1>4 DEF ServiceConsistent, TurnAtWorkSound

(* The service over its in-memory adapters, for any keys, handlers and     *)
(* budgets: one turn per key, no turn slept upon, no image kept, no charge *)
(* hidden, no output that was not earned (app/local-agent.ts,              *)
(* agent-conversations/index.ts, store.ts and worker.ts).                  *)
THEOREM ServiceStaysConsistent == AgentServiceSpec => []ServiceConsistent
BY ServiceStarts, ServiceKeeps, ServiceInTruth, PTL DEF AgentServiceSpec

(* In every scene of the composition its callers see the truth: those of   *)
(* the service, once per key, and those that read a conversation page by   *)
(* page, whole (local-agent.ts, index.ts and store.postgres.ts).           *)
THEOREM CallersAlwaysSeeTheTruth == SceneSpec => []CallersSeeTheTruth
<1>1. SceneInit => ServiceInv /\ PageInv
  BY ServiceStarts, PagesStart DEF SceneInit
<1>2. ASSUME ServiceInv, PageInv, [SceneNext]_<<scene, systemVars, serviceVars, pageVars>>
      PROVE  ServiceInv' /\ PageInv'
  <2>1. [AgentServiceNext]_serviceVars /\ [PageNext]_pageVars
    BY <1>2 DEF SceneNext
  <2> QED
    BY <1>2, <2>1, ServiceKeeps, PagesKeep
<1>3. ServiceInv /\ PageInv => CallersSeeTheTruth
  BY ServiceInTruth, PagesInTruth DEF CallersSeeTheTruth
<1> QED
  BY <1>1, <1>2, <1>3, PTL DEF SceneSpec
=============================================================================
