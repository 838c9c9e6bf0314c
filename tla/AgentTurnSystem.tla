---------------------------- MODULE AgentTurnSystem ----------------------------
(***************************************************************************)
(* The workers that answer agent turns, and the ledger of the tool calls   *)
(* they make.  An attempt claims a turn, lets its agent call tools one     *)
(* after the other, and completes the turn or gives it back.  A tool call  *)
(* is three steps apart in time: the ledger prepares a row, starts it with *)
(* the attempt's execution token, and finishes it with the result of the   *)
(* member process in between.  Attempts of one turn overlap whenever a     *)
(* lease ends or a shutdown releases a claim while its agent still works.  *)
(*                                                                         *)
(* An execution token is named by its attempt: an attempt starts a call    *)
(* number once.  What the agent says, and whether its output is valid, is  *)
(* reduced to success or failure; a tool and its input to a member of      *)
(* ToolCall.  How a member process arrives at its result is left open.     *)
(***************************************************************************)
EXTENDS AgentConversationStore

CONSTANTS
  ToolCall,               \* [effect, input]: the calls an agent may make
  CallsPerTurn,           \* the registration's toolLimits; the agent's own
                          \* guard (agent.pi.ts) stops at the same number
  PricedPerTurn, PricedPerConversation,
  FaultBound              \* bound: deadlines and leases that run out, crashes,
                          \* shutdowns and database calls that fail

ASSUME ToolAssumption ==
  /\ ToolCall \subseteq [effect : SideEffect, input : Input]
  /\ CallsPerTurn \in Nat \ {0} /\ Ordinal = 1..CallsPerTurn
  /\ PricedPerTurn \in Nat /\ PricedPerConversation \in Nat
  /\ FaultBound \in Nat

VARIABLES
  work,      \* per turn and attempt: what its worker is doing
  starts,    \* per turn and ordinal: times a priced process was invoked
  reported,  \* per turn and ordinal: what a priced process returned last
  faults     \* faults so far

Attempt == 1..AttemptBound
systemVars == <<storeVars, work, starts, reported, faults>>

Result == {"succeeded", "failed", "afterCommit", "throws"}
NoWork == [phase |-> "none", ordinal |-> 0, call |-> None, result |-> None,
           sawCommit |-> FALSE, aborted |-> FALSE]

SystemTypeOK ==
  /\ TypeOK
  /\ work \in [TurnId -> [Attempt ->
       [phase : {"none", "thinking", "prepared", "calling", "recording", "done"},
        ordinal : {0} \cup Ordinal, call : ToolCall \cup {None},
        result : Result \cup {None}, sawCommit : BOOLEAN, aborted : BOOLEAN]]]
  /\ starts \in [TurnId -> [Ordinal -> 0..AttemptBound]]
  /\ reported \in [TurnId -> [Ordinal -> Result \cup {None}]]
  /\ faults \in 0..FaultBound
  /\ \A t \in TurnId, n \in Ordinal :   \* the CHECK constraints of the ledger
       LET row == invocation[t][n] IN
       /\ (row.token # 0) = (row.status = "executing")
       /\ row.afterCommit => row.status \in {"failed", "uncertain"}

SystemInit ==
  /\ Init
  /\ work = [t \in TurnId |-> [a \in Attempt |-> NoWork]]
  /\ starts = [t \in TurnId |-> [n \in Ordinal |-> 0]]
  /\ reported = [t \in TurnId |-> [n \in Ordinal |-> None]]
  /\ faults = 0

Fault == faults < FaultBound /\ faults' = faults + 1

-----------------------------------------------------------------------------
(* The ledger's rows *)

SetRow(t, n, row) == invocation' = [invocation EXCEPT ![t][n] = row]
LedgerOnly == UNCHANGED <<conversationVars, turnVars, operation, outbox, session>>
KeepLedger == UNCHANGED storeVars

Terminal(row) == row.status \in {"succeeded", "failed", "uncertain"}

\* What protectPricedCommit looks for in the records.
PricedCommit(row) == row.effect = "priced" /\ (row.status = "succeeded" \/ row.afterCommit)

\* markUncertain
BrokenUncertain(row) == [row EXCEPT !.status = "uncertain", !.afterCommit = TRUE]
Uncertain(row) == [row EXCEPT !.status = "uncertain", !.token = 0, !.afterCommit = TRUE]

\* A row may be executed if nobody began, or if doing it again costs nothing.
BrokenMayExecute(row) == row.status \in {"prepared", "executing"}
MayExecute(row) == \/ row.status = "prepared"
                   \/ row.status = "executing" /\ row.effect = "none"

Counted(t) == {n \in Ordinal : invocation[t][n].status # "absent"}
CountedPriced(t) == {n \in Counted(t) : invocation[t][n].effect = "priced"}
BrokenConversationPriced(t) == Cardinality(CountedPriced(t))
ConversationPriced(t) ==
  Cardinality({p \in TurnsOf(turn[t].conversation) \X Ordinal : p[2] \in CountedPriced(p[1])})

\* The limits of prepareInvocation, counted over every attempt's rows.
WithinBudget(t, call) ==
  /\ Cardinality(Counted(t)) < CallsPerTurn
  /\ call.effect = "priced" =>
       /\ Cardinality(CountedPriced(t)) < PricedPerTurn
       /\ ConversationPriced(t) < PricedPerConversation

\* What finishInvocation writes for a result.
Recorded(row, result) ==
  [row EXCEPT !.token = 0,
     !.status = CASE result = "succeeded" -> "succeeded"
                  [] result = "throws" /\ row.effect = "priced" -> "uncertain"
                  [] OTHER -> "failed",
     !.afterCommit = result = "afterCommit" \/ (result = "throws" /\ row.effect = "priced")]

-----------------------------------------------------------------------------
(* Working on a turn *)

Become(t, a, w) == work' = [work EXCEPT ![t][a] = w]
At(t, a, phase) == work[t][a].phase = phase

\* A tool call is over and the agent goes on; a record that shows a priced
\* commit is kept among the attempt's own records.
Return(t, a, n, sawCommit) ==
  Become(t, a, [work[t][a] EXCEPT !.phase = "thinking", !.ordinal = n, !.call = None,
                  !.result = None, !.sawCommit = @ \/ sawCommit])

\* A worker's process(): the claim, and the agent begins.
TakeTurn(t) ==
  /\ Claim(t)
  /\ IF turn'[t].status = "running"
     THEN Become(t, turn'[t].claim, [NoWork EXCEPT !.phase = "thinking"])
     ELSE UNCHANGED work
  /\ UNCHANGED <<starts, reported, faults>>

\* prepareInvocation.  It locks the conversation's row but asks neither for its
\* status nor for the turn's claim.
PrepareCall(t, a, call) ==
  LET n == work[t][a].ordinal + 1
      row == IF n \in Ordinal THEN invocation[t][n] ELSE NoInvocation
      gone == turn[t].conversation = None
      known == row.status # "absent"
      same == [effect |-> row.effect, input |-> row.input] = call
      Execute == Become(t, a, [work[t][a] EXCEPT !.phase = "prepared", !.ordinal = n,
                                                 !.call = call])
  IN /\ At(t, a, "thinking") /\ n \in Ordinal
     /\ gone \/ RowFree(turn[t].conversation)
     /\ \/ /\ gone \/ (known /\ ~same) \/ (~known /\ ~WithinBudget(t, call))
           /\ Return(t, a, n, FALSE) /\ KeepLedger
        \/ /\ ~gone /\ ~known /\ WithinBudget(t, call)
           /\ SetRow(t, n, [NoInvocation EXCEPT !.status = "prepared",
                              !.effect = call.effect, !.input = call.input])
           /\ LedgerOnly /\ Execute
        \/ ~gone /\ known /\ same /\ MayExecute(row) /\ KeepLedger /\ Execute
        \/ /\ ~gone /\ same /\ MaybeCharged(row)
           /\ SetRow(t, n, Uncertain(row)) /\ LedgerOnly /\ Return(t, a, n, TRUE)
        \/ /\ ~gone /\ same /\ Terminal(row)
           /\ KeepLedger /\ Return(t, a, n, PricedCommit(row))
     /\ UNCHANGED <<starts, reported, faults>>

\* startInvocation; a call that may run is invoked at once.
StartCall(t, a) ==
  LET n == work[t][a].ordinal
      row == invocation[t][n]
  IN /\ At(t, a, "prepared")
     /\ \/ /\ MayExecute(row)
           /\ SetRow(t, n, [row EXCEPT !.status = "executing", !.token = a])
           /\ LedgerOnly
           /\ Become(t, a, [work[t][a] EXCEPT !.phase = "calling"])
           /\ starts' = IF row.effect = "priced" THEN [starts EXCEPT ![t][n] = @ + 1]
                                                 ELSE starts
        \/ /\ ~MayExecute(row) /\ MaybeCharged(row)
           /\ SetRow(t, n, Uncertain(row)) /\ LedgerOnly
           /\ Return(t, a, n, TRUE) /\ UNCHANGED starts
        \/ /\ ~MayExecute(row) /\ ~MaybeCharged(row)   \* terminal, or purged
           /\ KeepLedger
           /\ Return(t, a, n, PricedCommit(row)) /\ UNCHANGED starts
     /\ UNCHANGED <<reported, faults>>

\* runtime.invoke answers: only a priced call can commit something, and an
\* answer that cannot be recorded counts as thrown.
MakeCall(t, a, result) ==
  LET n == work[t][a].ordinal
      priced == work[t][a].call.effect = "priced"
  IN /\ At(t, a, "calling")
     /\ priced \/ result \in {"succeeded", "failed"}
     /\ Become(t, a, [work[t][a] EXCEPT !.phase = "recording", !.result = result])
     /\ reported' = IF priced THEN [reported EXCEPT ![t][n] = result] ELSE reported
     /\ KeepLedger /\ UNCHANGED <<starts, faults>>

\* finishInvocation; a row that is someone else's by now is not touched.
RecordCall(t, a) ==
  LET w == work[t][a]
      row == invocation[t][w.ordinal]
      final == Recorded(row, w.result)
  IN /\ At(t, a, "recording")
     /\ IF row.status = "executing" /\ row.token = a
        THEN /\ SetRow(t, w.ordinal, final) /\ LedgerOnly
             /\ Return(t, a, w.ordinal, PricedCommit(final))
        ELSE /\ KeepLedger
             /\ Return(t, a, w.ordinal, IF Terminal(row) THEN PricedCommit(row)
                                        ELSE w.call.effect = "priced")
     /\ UNCHANGED <<starts, reported, faults>>

\* A database call fails: whatever it was to write or wrote, the agent sees a
\* failed call; after a priced process it sees an uncertain one.
CallFails(t, a) ==
  LET w == work[t][a]
      row == invocation[t][w.ordinal]
  IN /\ w.phase \in {"prepared", "calling", "recording"}
     /\ Fault
     /\ \/ KeepLedger
        \/ /\ w.phase = "recording" /\ row.status = "executing" /\ row.token = a
           /\ SetRow(t, w.ordinal, Recorded(row, w.result)) /\ LedgerOnly
     /\ Return(t, a, w.ordinal, w.phase = "recording" /\ w.call.effect = "priced")
     /\ UNCHANGED <<starts, reported>>

-----------------------------------------------------------------------------
(* The end of an attempt *)

Ended(t, a) == Become(t, a, [NoWork EXCEPT !.phase = "done"])

\* protectPricedCommit, over the records of this attempt.
ErrorOf(w) == IF w.sawCommit THEN "DEPENDENCY_FAILURE_AFTER_COMMIT" ELSE "OTHER"

Answer(t, a, status) ==
  /\ At(t, a, "thinking") /\ ~work[t][a].aborted
  /\ \/ CompleteClaim(t, a, status,
          IF status = "failed" THEN ErrorOf(work[t][a]) ELSE None)
     \/ TooLate(t, a) /\ UNCHANGED storeVars
  /\ Ended(t, a)
  /\ UNCHANGED <<starts, reported, faults>>

GiveUp(t, a) ==
  /\ At(t, a, "thinking") /\ work[t][a].aborted
  /\ ReleaseClaim(t, a) \/ (TooLate(t, a) /\ UNCHANGED storeVars)
  /\ Ended(t, a)
  /\ UNCHANGED <<starts, reported, faults>>

\* close() of the queue's worker, its grace over: the claim is released (or the
\* release fails) and the job cancelled, while the agent still works.
Shutdown(t, a) ==
  /\ work[t][a].phase \notin {"none", "done"} /\ ~work[t][a].aborted
  /\ Fault
  /\ \/ ReleaseClaim(t, a)
     \/ UNCHANGED storeVars
  /\ Become(t, a, [work[t][a] EXCEPT !.aborted = TRUE])
  /\ UNCHANGED <<starts, reported>>

Crash(t, a) ==
  /\ work[t][a].phase \notin {"none", "done"}
  /\ Fault
  /\ Ended(t, a)
  /\ UNCHANGED <<storeVars, starts, reported>>

WorkerStep ==
  \E t \in TurnId :
    \/ TakeTurn(t)
    \/ \E a \in Attempt :
         \/ \E call \in ToolCall : PrepareCall(t, a, call)
         \/ StartCall(t, a)
         \/ \E result \in Result : MakeCall(t, a, result)
         \/ RecordCall(t, a) \/ CallFails(t, a)
         \/ \E status \in TerminalStatus : Answer(t, a, status)
         \/ GiveUp(t, a) \/ Shutdown(t, a) \/ Crash(t, a)

\* Bound: callers use a key once here; MCAgentConversationStore lets them
\* repeat one.
NewRequest == \E s \in Session, q \in Request :
                operation[q.key] = NoOperation /\ Start(s, q)

SystemNext == \/ (NewRequest \/ ApiStep) /\ UNCHANGED <<work, starts, reported, faults>>
              \/ WorkerStep
              \/ Passing /\ Fault /\ UNCHANGED <<work, starts, reported>>
SystemSpec == SystemInit /\ [][SystemNext]_systemVars

-----------------------------------------------------------------------------
(* Properties *)

\* A process that costs money is invoked at most once for a call of a turn,
\* whatever leases end, workers die or replies are lost in between.
PricedRunsOnce == \A t \in TurnId, n \in Ordinal : starts[t][n] <= 1

\* The priced processes really invoked stay within the conversation's limit,
\* although a late attempt of one turn may call while the next turn is answered.
PricedBudgetKept ==
  \A c \in ConversationId :
    Cardinality({p \in TurnsOf(c) \X Ordinal : starts[p[1]][p[2]] > 0}) <= PricedPerConversation

\* The ledger never says that a priced process failed free of charge, or that
\* it never ran, unless the process said so; and never that it succeeded
\* unless it did.
PricedResultKept ==
  \A t \in TurnId, n \in Ordinal :
    LET row == invocation[t][n] IN
    starts[t][n] > 0 /\ row.effect = "priced" =>
      /\ row.status # "prepared"
      /\ row.status = "failed" /\ ~row.afterCommit => reported[t][n] = "failed"
      /\ row.status = "succeeded" => reported[t][n] = "succeeded"

\* The turns and the ledger of tool calls tell one story over all the attempts
\* of a turn: one claim, one outcome, a budget kept, a paid result kept.
LedgerConsistent ==
  /\ SystemTypeOK /\ ClaimOwnsRunningAttempt /\ OutcomeIsLastAttempts
  /\ PricedBudgetKept /\ PricedResultKept
=============================================================================
