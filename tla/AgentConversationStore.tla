------------------------ MODULE AgentConversationStore ------------------------
(***************************************************************************)
(* The PostgreSQL store of agent conversations: the tables                 *)
(* agent_conversations, agent_conversation_turns, agent_turn_attempts,     *)
(* agent_conversation_operations, agent_turn_outbox, and the rows of       *)
(* agent_tool_invocations that fencing a conversation closes.              *)
(*                                                                         *)
(* `accept` and `acceptTurn` hold up to three locks (the advisory lock of  *)
(* the caller's operation, the conversation's row, the advisory lock of    *)
(* the admission) and are several actions, one per lock waited for.  Every *)
(* other action is one committed transaction.                              *)
(*                                                                         *)
(* Abstractions.  A claim token is named by the attempt it was drawn for.  *)
(* due[c] says that the deadline of the conversation's row has passed:     *)
(* expires_at while it is active, delete_by afterwards; leaseOver[t] the   *)
(* same of a running turn's claim_expires_at.  The relay that publishes    *)
(* outbox messages is not modelled: a worker may come for a turn at any    *)
(* time, as it may with a job delivered early, late or twice.              *)
(***************************************************************************)
EXTENDS Integers, Sequences, FiniteSets

CONSTANTS
  ConversationId, TurnId,     \* random UUIDs: one is never used twice
  Session,                    \* database sessions that accept turns
  Owner, Key, KeyOwner,       \* an Idempotency-Key belongs to one owner
  Input,                      \* what a caller may say
  None,                       \* NULL
  MaxTurns,                   \* the registration's limits.maxTurns
  CallerLimit, GlobalLimit,   \* the admission's backlog limits
  AttemptBound,               \* bound: attempts a turn may start
  Ordinal                     \* numbers of the tool calls of a turn

ASSUME KeyAssumption == KeyOwner \in [Key -> Owner]
ASSUME NoneAssumption ==
  /\ None \notin ConversationId \cup TurnId \cup Owner \cup Key \cup Input
  /\ None \notin {"INTERNAL_ERROR", "DEPENDENCY_FAILURE_AFTER_COMMIT", "OTHER"}
ASSUME LimitAssumption ==
  /\ MaxTurns \in Nat \ {0}
  /\ CallerLimit \in Nat \ {0} /\ GlobalLimit \in Nat \ {0}
  /\ CallerLimit <= GlobalLimit
  /\ AttemptBound \in Nat

VARIABLES
  conversation, \* per conversation: status, owner
  due,          \* per conversation: has its deadline passed?
  turn,         \* per turn: status, conversation, sequence, claim token, error
  leaseOver,    \* per turn: has the lease of its claim run out?
  attempts,     \* per turn: status of attempt 1, 2, ...
  operation,    \* per key: the fingerprint it was used with, and its turn
  outbox,       \* per turn: its outbox message
  invocation,   \* per turn and ordinal: the tool ledger's row
  session       \* per session: where its `accept` or `acceptTurn` stands

conversationVars == <<conversation, due>>
turnVars == <<turn, leaseOver, attempts>>
tables == <<conversationVars, turnVars, operation, outbox, invocation>>
storeVars == <<tables, session>>

-----------------------------------------------------------------------------
(* Types *)

LiveStatus == {"busy", "ready"}
FencedStatus == {"deleting", "expired"}
NoConversation == [status |-> "absent", owner |-> None]

PendingStatus == {"queued", "running"}
TerminalStatus == {"succeeded", "failed"}
ErrorCode == {None, "INTERNAL_ERROR", "DEPENDENCY_FAILURE_AFTER_COMMIT", "OTHER"}
NoTurn == [status |-> "absent", conversation |-> None, sequence |-> 0,
           claim |-> 0, error |-> None]

\* The fingerprint of a request: `open` names no conversation.
Fingerprint == [conversation : ConversationId \cup {None},
                after : TurnId \cup {None}, input : Input]
Request == [key : Key, fingerprint : Fingerprint]
NoOperation == [fingerprint |-> None, turn |-> None]

SideEffect == {"none", "priced"}
InvocationStatus ==
  {"absent", "prepared", "executing", "succeeded", "failed", "uncertain"}
NoInvocation == [status |-> "absent", effect |-> "none", input |-> None,
                 token |-> 0, afterCommit |-> FALSE]

IdleSession == [phase |-> "idle", request |-> None]

TypeOK ==
  /\ conversation \in [ConversationId ->
       [status : {"absent", "deleted"} \cup LiveStatus \cup FencedStatus,
        owner : Owner \cup {None}]]
  /\ due \in [ConversationId -> BOOLEAN]
  /\ turn \in [TurnId ->
       [status : {"absent", "deleted"} \cup PendingStatus \cup TerminalStatus,
        conversation : ConversationId \cup {None}, sequence : 0..MaxTurns,
        claim : 0..AttemptBound, error : ErrorCode]]
  /\ leaseOver \in [TurnId -> BOOLEAN]
  /\ \A t \in TurnId :   \* the CHECK constraints of the two tables
       /\ (turn[t].claim # 0) = (turn[t].status = "running")
       /\ (turn[t].error # None) = (turn[t].status = "failed")
       /\ attempts[t] \in Seq({"running", "abandoned"} \cup TerminalStatus)
       /\ Len(attempts[t]) <= AttemptBound
  /\ operation \in [Key -> [fingerprint : Fingerprint, turn : TurnId] \cup {NoOperation}]
  /\ outbox \in [TurnId -> {"none", "open", "sealed"}]
  /\ invocation \in [TurnId -> [Ordinal ->
       [status : InvocationStatus, effect : SideEffect, input : Input \cup {None},
        token : 0..AttemptBound, afterCommit : BOOLEAN]]]
  /\ session \in [Session ->
       {IdleSession} \cup
       [phase : {"started", "locked", "admitted"}, request : Request]]

Init ==
  /\ conversation = [c \in ConversationId |-> NoConversation]
  /\ due = [c \in ConversationId |-> FALSE]
  /\ turn = [t \in TurnId |-> NoTurn]
  /\ leaseOver = [t \in TurnId |-> FALSE]
  /\ attempts = [t \in TurnId |-> <<>>]
  /\ operation = [k \in Key |-> NoOperation]
  /\ outbox = [t \in TurnId |-> "none"]
  /\ invocation = [t \in TurnId |-> [n \in Ordinal |-> NoInvocation]]
  /\ session = [s \in Session |-> IdleSession]

-----------------------------------------------------------------------------
(* Reading the tables *)

Live(c) == conversation[c].status \in LiveStatus
Usable(c) == Live(c) /\ ~due[c]
Pending(t) == turn[t].status \in PendingStatus
TurnsOf(c) == {t \in TurnId : turn[t].conversation = c}
Last(c) == CHOOSE t \in TurnsOf(c) :
             \A u \in TurnsOf(c) : turn[u].sequence <= turn[t].sequence

Backlog == {t \in TurnId : Pending(t) /\ Live(turn[t].conversation)}
CallerBacklog(o) == {t \in Backlog : conversation[turn[t].conversation].owner = o}
BacklogFull(o) == \/ Cardinality(CallerBacklog(o)) >= CallerLimit
                  \/ Cardinality(Backlog) >= GlobalLimit

(* Locks, held until the transaction ends *)

BrokenOperationLockFree(k) == TRUE
OperationLockFree(k) ==
  \A s \in Session : session[s].phase # "idle" => session[s].request.key # k

HoldsRow(s, c) ==
  /\ session[s].phase \in {"locked", "admitted"}
  /\ session[s].request.fingerprint.conversation = c
BrokenRowFree(c) == TRUE
RowFree(c) == \A s \in Session : ~HoldsRow(s, c)

BrokenAdmissionLockFree == TRUE
AdmissionLockFree == \A s \in Session : session[s].phase # "admitted"

-----------------------------------------------------------------------------
(* Fencing a conversation that is deleted or found to be expired *)

BrokenEndedByFence(t) == turn[t].status = "running"
BrokenEndedByFenceAgain(t) == TRUE
EndedByFence(t) == Pending(t)

BrokenAbandonRunning(seq) == seq
AbandonRunning(seq) ==
  [i \in DOMAIN seq |-> IF seq[i] = "running" THEN "abandoned" ELSE seq[i]]

BrokenFailedByFence(t) ==
  [turn[t] EXCEPT !.status = "failed", !.error = "INTERNAL_ERROR"]
FailedByFence(t) ==
  [turn[t] EXCEPT !.status = "failed", !.claim = 0, !.error = "INTERNAL_ERROR"]

\* A priced call that is under way may already have been charged.
MaybeCharged(row) == row.status = "executing" /\ row.effect = "priced"

BrokenFencedInvocation(row) ==
  IF row.status \in {"prepared", "executing"}
  THEN [row EXCEPT !.status = "failed", !.token = 0] ELSE row
FencedInvocation(row) ==
  IF row.status \in {"prepared", "executing"}
  THEN [row EXCEPT !.status = IF MaybeCharged(row) THEN "uncertain" ELSE "failed",
                   !.token = 0, !.afterCommit = MaybeCharged(row)]
  ELSE row

Fence(c, status) ==
  /\ attempts' = [t \in TurnId |-> IF t \in TurnsOf(c)
                                   THEN AbandonRunning(attempts[t]) ELSE attempts[t]]
  /\ turn' = [t \in TurnId |-> IF t \in TurnsOf(c) /\ EndedByFence(t)
                               THEN FailedByFence(t) ELSE turn[t]]
  /\ leaseOver' = [t \in TurnId |-> leaseOver[t] /\ t \notin TurnsOf(c)]
  /\ invocation' = [t \in TurnId |-> IF t \in TurnsOf(c)
                      THEN [n \in Ordinal |-> FencedInvocation(invocation[t][n])]
                      ELSE invocation[t]]
  /\ outbox' = [t \in TurnId |-> IF t \in TurnsOf(c) THEN "sealed" ELSE outbox[t]]
  /\ conversation' = [conversation EXCEPT ![c].status = status]
  /\ due' = [due EXCEPT ![c] = FALSE]
  /\ UNCHANGED operation

\* Whoever finds an active conversation past its deadline expires it.
ExpireIfDue(c) == Live(c) /\ due[c] /\ Fence(c, "expired")

-----------------------------------------------------------------------------
(* accept and acceptTurn *)

EndSession(s) == session' = [session EXCEPT ![s] = IdleSession]
EnterPhase(s, phase) == session' = [session EXCEPT ![s].phase = phase]

\* A continuation names a conversation and a turn its caller has seen.
IsRequest(f) ==
  \/ f.conversation = None /\ f.after = None
  \/ f.conversation # None /\ f.after \in TurnsOf(f.conversation)

\* lockOperation
Start(s, q) ==
  /\ session[s].phase = "idle"
  /\ IsRequest(q.fingerprint)
  /\ OperationLockFree(q.key)
  /\ session' = [session EXCEPT ![s] = [phase |-> "started", request |-> q]]
  /\ UNCHANGED tables

\* replayFor found the key: a conflict, the turn it already made, or the
\* discovery that its conversation is gone.
AnswerKnownKey(s) ==
  LET q == session[s].request
      known == operation[q.key]
      c == turn[known.turn].conversation
  IN /\ session[s].phase = "started"
     /\ known # NoOperation
     /\ \/ (known.fingerprint # q.fingerprint) /\ UNCHANGED tables
        \/ /\ known.fingerprint = q.fingerprint /\ RowFree(c)
           /\ \/ ExpireIfDue(c)
              \/ ~(Live(c) /\ due[c]) /\ UNCHANGED tables
     /\ EndSession(s)

\* A new key: `acceptTurn` locks the conversation's row and looks at it.
LockConversation(s) ==
  LET q == session[s].request
      c == q.fingerprint.conversation
  IN /\ session[s].phase = "started"
     /\ operation[q.key] = NoOperation
     /\ c # None
     /\ RowFree(c)
     /\ IF conversation[c] = [status |-> "ready", owner |-> KeyOwner[q.key]] /\ ~due[c]
        THEN EnterPhase(s, "locked") /\ UNCHANGED tables
        ELSE /\ EndSession(s)
             /\ \/ conversation[c].owner = KeyOwner[q.key] /\ ExpireIfDue(c)
                \/ /\ conversation[c].owner # KeyOwner[q.key] \/ ~(Live(c) /\ due[c])
                   /\ UNCHANGED tables

BrokenFollowsLast(f) == TRUE
FollowsLast(f) == f.after = Last(f.conversation)

\* capacityFor takes the admission lock; the turn must follow the last one.
Admit(s) ==
  LET q == session[s].request
      f == q.fingerprint
  IN /\ \/ session[s].phase = "locked"
        \/ session[s].phase = "started" /\ f.conversation = None
           /\ operation[q.key] = NoOperation
     /\ AdmissionLockFree
     /\ IF /\ ~BacklogFull(KeyOwner[q.key])
           /\ f.conversation = None \/ (FollowsLast(f) /\ turn[f.after].sequence < MaxTurns)
        THEN EnterPhase(s, "admitted")
        ELSE EndSession(s)
     /\ UNCHANGED tables

\* The rows of a new turn: turn, operation and outbox message.
InsertTurn(s, t, c, sequence) ==
  /\ turn[t].status = "absent"
  /\ turn' = [turn EXCEPT ![t] = [NoTurn EXCEPT !.status = "queued",
                 !.conversation = c, !.sequence = sequence]]
  /\ operation' = [operation EXCEPT ![session[s].request.key] =
                      [fingerprint |-> session[s].request.fingerprint, turn |-> t]]
  /\ outbox' = [outbox EXCEPT ![t] = "open"]
  /\ UNCHANGED <<leaseOver, attempts, invocation>>

\* accept
OpenConversation(s, c, t) ==
  LET q == session[s].request IN
  /\ session[s].phase = "admitted" /\ q.fingerprint.conversation = None
  /\ conversation[c].status = "absent"
  /\ InsertTurn(s, t, c, 1)
  /\ conversation' = [conversation EXCEPT ![c] =
                        [status |-> "busy", owner |-> KeyOwner[q.key]]]
  /\ EndSession(s)
  /\ UNCHANGED due

\* acceptTurn, which also renews expires_at.
ContinueConversation(s, t) ==
  LET c == session[s].request.fingerprint.conversation IN
  /\ session[s].phase = "admitted" /\ c # None
  /\ InsertTurn(s, t, c, turn[Last(c)].sequence + 1)
  /\ conversation' = [conversation EXCEPT ![c].status = "busy"]
  /\ due' = [due EXCEPT ![c] = FALSE]
  /\ EndSession(s)

-----------------------------------------------------------------------------
(* Reading, deleting and cleaning up *)

\* findOwnedMetadata, findOwnedPage: reading an expired conversation fences it.
Read(c) ==
  /\ RowFree(c)
  /\ ExpireIfDue(c)
  /\ UNCHANGED session

\* deleteOwned by the owner; a repeated deletion changes nothing.
Delete(c) ==
  /\ RowFree(c)
  /\ Live(c)
  /\ Fence(c, "deleting")
  /\ UNCHANGED session

\* DELETE FROM agent_conversations, and what the foreign keys cascade to.
Purge(c) ==
  /\ conversation' = [conversation EXCEPT ![c] = [NoConversation EXCEPT !.status = "deleted"]]
  /\ due' = [due EXCEPT ![c] = FALSE]
  /\ turn' = [t \in TurnId |-> IF t \in TurnsOf(c)
                               THEN [NoTurn EXCEPT !.status = "deleted"] ELSE turn[t]]
  /\ leaseOver' = [t \in TurnId |-> leaseOver[t] /\ t \notin TurnsOf(c)]
  /\ attempts' = [t \in TurnId |-> IF t \in TurnsOf(c) THEN <<>> ELSE attempts[t]]
  /\ operation' = [k \in Key |-> IF operation[k].turn \in TurnsOf(c)
                                 THEN NoOperation ELSE operation[k]]
  /\ outbox' = [t \in TurnId |-> IF t \in TurnsOf(c) THEN "none" ELSE outbox[t]]
  /\ invocation' = [t \in TurnId |-> IF t \in TurnsOf(c)
                      THEN [n \in Ordinal |-> NoInvocation] ELSE invocation[t]]

\* cleanupBatch for one candidate; a locked row is skipped.  (A batch that
\* expires and deletes the same conversation is both cases in turn.)
CleanUp(c) ==
  /\ RowFree(c)
  /\ \/ ExpireIfDue(c)
     \/ conversation[c].status \in FencedStatus /\ due[c] /\ Purge(c)
  /\ UNCHANGED session

-----------------------------------------------------------------------------
(* Claims *)

Claimable(t) == \/ turn[t].status = "queued"
                \/ turn[t].status = "running" /\ leaseOver[t]

BrokenHoldsClaim(t, token) == turn[t].status = "running"
HoldsClaim(t, token) == turn[t].status = "running" /\ turn[t].claim = token

\* What every worker call does first: it locks the turn with its conversation,
\* and expires the conversation rather than go on with it.
WithTurn(t, Call) ==
  LET c == turn[t].conversation IN
  /\ c # None
  /\ RowFree(c)
  /\ ExpireIfDue(c) \/ (Usable(c) /\ Call)
  /\ UNCHANGED session

\* A late call changes nothing: the turn is someone else's, or out of reach.
TooLate(t, token) ==
  LET c == turn[t].conversation IN
  c # None => RowFree(c) /\ (Live(c) => ~due[c] /\ ~HoldsClaim(t, token))

SetAttempt(t, token, status) ==
  attempts' = [attempts EXCEPT ![t][token] = status]

BrokenWithoutClaim(t) == attempts[t]
WithoutClaim(t) == IF turn[t].status = "running"
                   THEN [attempts[t] EXCEPT ![turn[t].claim] = "abandoned"]
                   ELSE attempts[t]

\* claim: an expired lease is taken over, its attempt abandoned.
StartAttempt(t) ==
  LET token == Len(attempts[t]) + 1 IN
  /\ Claimable(t)
  /\ token <= AttemptBound
  /\ attempts' = [attempts EXCEPT ![t] = Append(WithoutClaim(t), "running")]
  /\ turn' = [turn EXCEPT ![t].status = "running", ![t].claim = token]
  /\ leaseOver' = [leaseOver EXCEPT ![t] = FALSE]
  /\ conversation' = [conversation EXCEPT ![turn[t].conversation].status = "busy"]
  /\ UNCHANGED <<due, operation, outbox, invocation>>
Claim(t) == WithTurn(t, StartAttempt(t))

\* completeClaim: a late token finds nothing to complete.
Finish(t, token, status, error) ==
  /\ HoldsClaim(t, token)
  /\ turn' = [turn EXCEPT ![t].status = status, ![t].claim = 0, ![t].error = error]
  /\ leaseOver' = [leaseOver EXCEPT ![t] = FALSE]
  /\ conversation' = [conversation EXCEPT ![turn[t].conversation].status = "ready"]
  /\ SetAttempt(t, token, status)
  /\ UNCHANGED <<due, operation, outbox, invocation>>
CompleteClaim(t, token, status, error) ==
  WithTurn(t, Finish(t, token, status, error))

\* releaseClaim: the turn is queued again.
GiveBack(t, token) ==
  /\ HoldsClaim(t, token)
  /\ turn' = [turn EXCEPT ![t].status = "queued", ![t].claim = 0]
  /\ leaseOver' = [leaseOver EXCEPT ![t] = FALSE]
  /\ conversation' = [conversation EXCEPT ![turn[t].conversation].status = "busy"]
  /\ SetAttempt(t, token, "abandoned")
  /\ UNCHANGED <<due, operation, outbox, invocation>>
ReleaseClaim(t, token) == WithTurn(t, GiveBack(t, token))

-----------------------------------------------------------------------------
(* Time *)

DeadlinePasses(c) ==
  /\ Live(c) \/ conversation[c].status \in FencedStatus
  /\ ~due[c]
  /\ due' = [due EXCEPT ![c] = TRUE]
  /\ UNCHANGED <<conversation, turnVars, operation, outbox, invocation, session>>

LeaseEnds(t) ==
  /\ turn[t].status = "running" /\ ~leaseOver[t]
  /\ leaseOver' = [leaseOver EXCEPT ![t] = TRUE]
  /\ UNCHANGED <<conversationVars, turn, attempts, operation, outbox, invocation, session>>

-----------------------------------------------------------------------------
(* The store on its own: any caller, any worker, any token, any order *)

ApiStep ==
  \/ \E s \in Session :
       \/ LockConversation(s) \/ Admit(s)
       \/ \E t \in TurnId :
            ContinueConversation(s, t) \/ \E c \in ConversationId : OpenConversation(s, c, t)
  \/ \E c \in ConversationId : Read(c) \/ Delete(c) \/ CleanUp(c)

Passing == \/ \E c \in ConversationId : DeadlinePasses(c)
           \/ \E t \in TurnId : LeaseEnds(t)

WorkerCall ==
  \E t \in TurnId :
    \/ Claim(t)
    \/ \E token \in 1..AttemptBound :
         \/ ReleaseClaim(t, token)
         \/ CompleteClaim(t, token, "succeeded", None)
         \/ \E error \in {"OTHER", "DEPENDENCY_FAILURE_AFTER_COMMIT"} :
              CompleteClaim(t, token, "failed", error)

Next == \/ \E s \in Session : AnswerKnownKey(s) \/ \E q \in Request : Start(s, q)
        \/ ApiStep \/ WorkerCall \/ Passing
Spec == Init /\ [][Next]_storeVars

-----------------------------------------------------------------------------
(* Properties *)

\* A conversation is busy exactly while it has a turn to be answered, and never
\* has two: what continuing, completing, releasing, taking over and fencing
\* each do to the turn they do to the conversation (store.postgres.ts).
BusyMeansOneActiveTurn ==
  \A c \in ConversationId :
    Cardinality({t \in TurnsOf(c) : Pending(t)}) =
      IF conversation[c].status = "busy" THEN 1 ELSE 0

\* A running turn has exactly one running attempt, its newest, and its claim is
\* that attempt's: otherwise finishAttempt throws and the turn is stuck.
ClaimOwnsRunningAttempt ==
  \A t \in TurnId :
    {i \in DOMAIN attempts[t] : attempts[t][i] = "running"} =
      IF turn[t].status = "running" THEN {turn[t].claim} \cap {Len(attempts[t])} ELSE {}

\* A turn's answer is its last attempt's, every earlier attempt was abandoned;
\* a turn that failed with no failed attempt was ended with its conversation.
OutcomeIsLastAttempts ==
  \A t \in TurnId :
    LET last == Len(attempts[t]) IN
    /\ \A i \in DOMAIN attempts[t] : i < last => attempts[t][i] = "abandoned"
    /\ turn[t].status = "succeeded" => last > 0 /\ attempts[t][last] = "succeeded"
    /\ turn[t].status = "failed" =>
         \/ last > 0 /\ attempts[t][last] = "failed"
         \/ ~Live(turn[t].conversation) /\ turn[t].error = "INTERNAL_ERROR"

\* What an accepting transaction found out under its locks still holds when it
\* inserts: the key is unused, the conversation is ready and ends where the
\* caller said.  So no unique constraint turns an accepted turn into an error.
InsertsCannotConflict ==
  \A s \in Session :
    LET f == session[s].request.fingerprint IN
    session[s].phase = "admitted" =>
      /\ operation[session[s].request.key] = NoOperation
      /\ f.conversation # None =>
           /\ conversation[f.conversation].status = "ready"
           /\ f.after = Last(f.conversation) /\ ~Pending(f.after)

\* Every continuation answers the turn its caller named: that turn is the one
\* just before it and was concluded, so no two turns follow the same one.
HistoryIsLinear ==
  \A k \in Key :
    LET t == operation[k].turn  after == operation[k].fingerprint.after IN
    operation[k] # NoOperation /\ after # None =>
      /\ turn[after].conversation = turn[t].conversation
      /\ turn[after].sequence + 1 = turn[t].sequence
      /\ turn[after].status \in TerminalStatus

\* From the transaction that deletes or expires a conversation on, nothing that
\* still runs for it changes its turns or attempts, and it never comes back.
FencedStaysFenced ==
  [][\A c \in ConversationId :
       conversation[c].status \in FencedStatus =>
         \/ conversation'[c].status = "deleted"
         \/ /\ conversation'[c] = conversation[c]
            /\ \A t \in TurnsOf(c) : turn'[t] = turn[t] /\ attempts'[t] = attempts[t]]_storeVars

\* An answer a caller may have read never changes while its conversation exists.
AnswersAreFinal ==
  [][\A t \in TurnId : turn[t].status \in TerminalStatus =>
       turn'[t] = turn[t] \/ turn'[t].status = "deleted"]_storeVars

\* Admission: accepted turns never exceed the caller's or the global limit,
\* however many transactions count at once.
BacklogBounded ==
  /\ Cardinality(Backlog) <= GlobalLimit
  /\ \A o \in Owner : Cardinality(CallerBacklog(o)) <= CallerLimit

\* The conversations, their turns, the attempts and the limits agree after
\* every transaction, and no accepting one runs into a unique constraint.
ConversationsConsistent ==
  /\ TypeOK /\ BusyMeansOneActiveTurn /\ ClaimOwnsRunningAttempt
  /\ InsertsCannotConflict /\ BacklogBounded

\* What a deleted conversation was, and what a turn answered, is not rewritten.
NothingIsTakenBack == FencedStaysFenced /\ AnswersAreFinal
=============================================================================
