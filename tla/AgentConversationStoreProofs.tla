--------------------- MODULE AgentConversationStoreProofs ---------------------
(***************************************************************************)
(* What holds of the conversation store for any conversations, turns,      *)
(* sessions, keys and limits: one active turn, one running attempt, a      *)
(* linear history, a bounded backlog, no conflicting insert, and nothing   *)
(* taken back.                                                             *)
(***************************************************************************)
EXTENDS AgentConversationStore, SequenceTheorems, FiniteSetTheorems, TLAPS

-----------------------------------------------------------------------------
(* The inductive invariant *)

ConversationRow ==
  [status : {"absent", "deleted"} \cup LiveStatus \cup FencedStatus, owner : Owner \cup {None}]
TurnRow ==
  [status : {"absent", "deleted"} \cup PendingStatus \cup TerminalStatus,
   conversation : ConversationId \cup {None}, sequence : 0..MaxTurns,
   claim : 0..AttemptBound, error : ErrorCode]
AttemptStatus == {"running", "abandoned"} \cup TerminalStatus
InvocationRow ==
  [status : InvocationStatus, effect : SideEffect, input : Input \cup {None},
   token : 0..AttemptBound, afterCommit : BOOLEAN]

TableTypes ==
  /\ conversation \in [ConversationId -> ConversationRow]
  /\ due \in [ConversationId -> BOOLEAN]
  /\ turn \in [TurnId -> TurnRow]
  /\ leaseOver \in [TurnId -> BOOLEAN]
  /\ attempts \in [TurnId -> Seq(AttemptStatus)]
  /\ operation \in [Key -> [fingerprint : Fingerprint, turn : TurnId] \cup {NoOperation}]
  /\ outbox \in [TurnId -> {"none", "open", "sealed"}]
  /\ invocation \in [TurnId -> [Ordinal -> InvocationRow]]
SessionTypes ==
  session \in [Session -> {IdleSession} \cup
                          [phase : {"started", "locked", "admitted"}, request : Request]]

\* A turn that is there belongs to a conversation that is there; only a live
\* one has turns to be answered.
TurnsHaveHomes ==
  \A t \in TurnId :
    /\ turn[t].status \in {"absent", "deleted"} => turn[t].conversation = None
    /\ turn[t].status \in PendingStatus \cup TerminalStatus =>
         /\ turn[t].conversation \in ConversationId
         /\ conversation[turn[t].conversation].status \in LiveStatus \cup FencedStatus
    /\ turn[t].status \in PendingStatus => conversation[turn[t].conversation].status = "busy"

\* BusyMeansOneActiveTurn without counting.
OneActive ==
  /\ \A t, u \in TurnId :
       Pending(t) /\ Pending(u) /\ turn[t].conversation = turn[u].conversation => t = u
  /\ \A c \in ConversationId :
       conversation[c].status = "busy" => \E t \in TurnsOf(c) : Pending(t)

\* Every conversation has a last turn, and its turns are numbered apart.
IsLast(t, c) == t \in TurnsOf(c) /\ \A u \in TurnsOf(c) : turn[u].sequence <= turn[t].sequence
LastExists ==
  /\ \A c \in ConversationId :
       conversation[c].status \in LiveStatus \cup FencedStatus => \E t \in TurnId : IsLast(t, c)
  /\ \A c \in ConversationId : \A t, u \in TurnsOf(c) :
       turn[t].sequence = turn[u].sequence => t = u

\* The columns of a turn and its attempts agree.
Fits(row, seq) ==
  /\ (row.claim # 0) <=> (row.status = "running")
  /\ (row.error # None) <=> (row.status = "failed")
  /\ Len(seq) <= AttemptBound
  /\ \A i \in 1..Len(seq) : seq[i] = "running" => row.status = "running" /\ row.claim = i
  /\ row.status = "running" =>
       row.claim = Len(seq) /\ Len(seq) > 0 /\ seq[Len(seq)] = "running"
AttemptsFit(t) == Fits(turn[t], attempts[t])

\* A key that has been used leads to a turn, and HistoryIsLinear.
OperationsLead ==
  \A k \in Key : operation[k] # NoOperation =>
    LET t == operation[k].turn IN
    /\ turn[t].status \in PendingStatus \cup TerminalStatus
    /\ operation[k].fingerprint.after # None =>
         /\ turn[operation[k].fingerprint.after].conversation = turn[t].conversation
         /\ turn[operation[k].fingerprint.after].sequence + 1 = turn[t].sequence
         /\ turn[operation[k].fingerprint.after].status \in TerminalStatus

BacklogFinite == IsFiniteSet(Backlog) /\ BacklogBounded

TableInv ==
  /\ TableTypes /\ TurnsHaveHomes /\ OneActive /\ LastExists
  /\ (\A t \in TurnId : AttemptsFit(t)) /\ OperationsLead

\* What an accepting transaction has learnt, and the locks that keep it true.
RowOf(s) == session[s].request.fingerprint.conversation
KeyOf(s) == session[s].request.key
AfterOf(s) == session[s].request.fingerprint.after

LocksExclude ==
  \A s, u \in Session : s # u =>
    /\ session[s].phase # "idle" /\ session[u].phase # "idle" => KeyOf(s) # KeyOf(u)
    /\ ~(session[s].phase = "admitted" /\ session[u].phase = "admitted")
    /\ session[s].phase \in {"locked", "admitted"} /\ session[u].phase \in {"locked", "admitted"}
         /\ RowOf(s) # None => RowOf(s) # RowOf(u)

SessionKnows(s) ==
  /\ session[s].phase # "idle" => (RowOf(s) = None <=> AfterOf(s) = None)
  /\ session[s].phase = "locked" => RowOf(s) # None
  /\ session[s].phase \in {"locked", "admitted"} =>
       /\ operation[KeyOf(s)] = NoOperation
       /\ RowOf(s) # None =>
            conversation[RowOf(s)] = [status |-> "ready", owner |-> KeyOwner[KeyOf(s)]]
  /\ session[s].phase = "admitted" =>
       /\ ~BacklogFull(KeyOwner[KeyOf(s)])
       /\ RowOf(s) # None => IsLast(AfterOf(s), RowOf(s)) /\ turn[AfterOf(s)].sequence < MaxTurns

SessionInv == SessionTypes /\ LocksExclude /\ \A s \in Session : SessionKnows(s)

StoreInv == TableInv /\ BacklogFinite /\ SessionInv

USE DEF conversationVars, turnVars, tables, storeVars

-----------------------------------------------------------------------------
(* Small facts *)

LEMMA RowTypes ==
  /\ NoConversation \in ConversationRow /\ NoTurn \in TurnRow
  /\ [NoConversation EXCEPT !.status = "deleted"] \in ConversationRow
  /\ [NoTurn EXCEPT !.status = "deleted"] \in TurnRow
  /\ NoInvocation \in InvocationRow
  /\ \A row \in InvocationRow : FencedInvocation(row) \in InvocationRow
<1>1. MaxTurns \in Nat /\ AttemptBound \in Nat
  BY LimitAssumption
<1>2. \A row \in InvocationRow : FencedInvocation(row) \in InvocationRow
  <2> SUFFICES ASSUME NEW row \in InvocationRow PROVE FencedInvocation(row) \in InvocationRow
    OBVIOUS
  <2>1. 0 \in 0..AttemptBound /\ MaybeCharged(row) \in BOOLEAN
    BY <1>1 DEF MaybeCharged
  <2>2. \A st \in {"uncertain", "failed"} :
          [row EXCEPT !.status = st, !.token = 0, !.afterCommit = MaybeCharged(row)]
            \in InvocationRow
    BY <2>1 DEF InvocationRow, InvocationStatus
  <2> QED
    BY <2>2 DEF FencedInvocation
<1> QED
  BY <1>1, <1>2 DEF NoConversation, NoTurn, NoInvocation, ConversationRow, TurnRow, InvocationRow,
                    InvocationStatus, SideEffect, ErrorCode

\* The types above are TypeOK, but for the columns that AttemptsFit relates.
LEMMA TypeParts == TableInv /\ SessionTypes => TypeOK
BY DEF TableInv, TableTypes, SessionTypes, TypeOK, ConversationRow, TurnRow, AttemptStatus,
       InvocationRow, AttemptsFit, Fits

\* Abandoning what runs keeps a sequence a sequence of the same length.
LEMMA AbandonKeeps ==
  ASSUME NEW seq \in Seq(AttemptStatus)
  PROVE  /\ AbandonRunning(seq) \in Seq(AttemptStatus)
         /\ Len(AbandonRunning(seq)) = Len(seq)
         /\ \A i \in 1..Len(seq) : AbandonRunning(seq)[i] =
              IF seq[i] = "running" THEN "abandoned" ELSE seq[i]
<1> DEFINE n == Len(seq)  after == AbandonRunning(seq)
<1>1. DOMAIN seq = 1..n /\ n \in Nat /\ \A i \in 1..n : seq[i] \in AttemptStatus
  BY LenProperties
<1>2. after = [i \in 1..n |-> IF seq[i] = "running" THEN "abandoned" ELSE seq[i]]
  BY <1>1 DEF AbandonRunning
<1> HIDE DEF after
<1>3. after \in [1..n -> AttemptStatus]
  BY <1>1, <1>2 DEF AttemptStatus
<1>4. after \in Seq(AttemptStatus)
  BY <1>1, <1>3, SeqDef
<1>5. Len(after) = n
  <2>1. DOMAIN after = 1..Len(after) /\ Len(after) \in Nat
    BY <1>4, LenProperties
  <2>2. 1..Len(after) = 1..n
    BY <1>2, <2>1
  <2> DEFINE m == Len(after)
  <2> HIDE DEF n, m
  <2>3. m \in Nat /\ n \in Nat /\ \A i \in Nat : i \in 1..m <=> i \in 1..n
    BY <1>1, <2>1, <2>2 DEF m
  <2>4. m = n
    <3>1. CASE m > n
      BY <2>3, <3>1
    <3>2. CASE n > m
      BY <2>3, <3>2
    <3> QED
      BY <2>3, <3>1, <3>2
  <2> QED
    BY <2>4 DEF m
<1> QED
  BY <1>2, <1>4, <1>5 DEF after

\* The last turn is what LastExists says it is.
LEMMA LastIsLast ==
  ASSUME LastExists, NEW c \in ConversationId,
         conversation[c].status \in LiveStatus \cup FencedStatus
  PROVE  IsLast(Last(c), c)
<1>1. \E t \in TurnsOf(c) : \A u \in TurnsOf(c) : turn[u].sequence <= turn[t].sequence
  BY DEF LastExists, IsLast
<1> QED
  BY <1>1 DEF Last, IsLast

\* It is the only one.
LEMMA LastIsOne ==
  ASSUME TableInv, NEW c \in ConversationId, NEW t, NEW u, IsLast(t, c), IsLast(u, c)
  PROVE  t = u
<1>1. t \in TurnsOf(c) /\ u \in TurnsOf(c) /\ turn[t] \in TurnRow /\ turn[u] \in TurnRow
  BY DEF IsLast, TurnsOf, TableInv, TableTypes
<1>2. turn[t].sequence = turn[u].sequence
  <2>1. turn[t].sequence \in Nat /\ turn[u].sequence \in Nat
    BY <1>1, LimitAssumption DEF TurnRow
  <2> QED
    BY <1>1, <2>1 DEF IsLast
<1> QED
  BY <1>1, <1>2 DEF TableInv, LastExists

-----------------------------------------------------------------------------
(* What most transactions have in common *)

There == LiveStatus \cup FencedStatus
InUse == PendingStatus \cup TerminalStatus

\* No turn changes its conversation or its number, none is lost, and what is
\* answered stays answered.
SameHomes ==
  /\ \A t \in TurnId :
       /\ turn'[t].conversation = turn[t].conversation /\ turn'[t].sequence = turn[t].sequence
       /\ turn[t].status \in InUse <=> turn'[t].status \in InUse
       /\ turn[t].status \in TerminalStatus => turn'[t].status \in TerminalStatus
       /\ turn[t].status \in PendingStatus \/ turn'[t].status = turn[t].status
  /\ \A d \in ConversationId : /\ conversation'[d].owner = conversation[d].owner
                               /\ conversation[d].status \in There <=> conversation'[d].status \in There
  /\ UNCHANGED operation

\* A transaction on conversation c leaves the others alone, uses no key, and
\* adds nothing to the backlog.
Quiet(c) ==
  /\ \A d \in ConversationId \ {c} :
       /\ conversation'[d] = conversation[d] /\ TurnsOf(d)' = TurnsOf(d)
       /\ \A t \in TurnsOf(d) : turn'[t] = turn[t]
  /\ \A k \in Key : operation[k] = NoOperation => operation'[k] = NoOperation
  /\ \A t \in TurnId : /\ t \in Backlog' => t \in Backlog
                       /\ \A o \in Owner : t \in CallerBacklog(o)' => t \in CallerBacklog(o)

LEMMA SameTurns ==
  ASSUME TableInv, SameHomes
  PROVE  /\ \A c \in ConversationId : TurnsOf(c)' = TurnsOf(c)
         /\ LastExists' /\ OperationsLead'
<1>1. \A c \in ConversationId : TurnsOf(c)' = TurnsOf(c)
  BY DEF SameHomes, TurnsOf
<1>2. LastExists'
  BY <1>1 DEF SameHomes, TableInv, LastExists, IsLast, There, TurnsOf
<1>3. OperationsLead'
  <2> SUFFICES ASSUME NEW k \in Key, operation[k] # NoOperation
               PROVE  LET t == operation[k].turn IN
                      /\ turn'[t].status \in PendingStatus \cup TerminalStatus
                      /\ operation[k].fingerprint.after # None =>
                           /\ turn'[operation[k].fingerprint.after].conversation
                                = turn'[t].conversation
                           /\ turn'[operation[k].fingerprint.after].sequence + 1
                                = turn'[t].sequence
                           /\ turn'[operation[k].fingerprint.after].status \in TerminalStatus
    BY DEF SameHomes, OperationsLead
  <2>1. operation[k].turn \in TurnId
        /\ (operation[k].fingerprint.after # None => operation[k].fingerprint.after \in TurnId)
    BY DEF TableInv, TableTypes, Fingerprint
  <2> QED
    BY <2>1 DEF SameHomes, TableInv, OperationsLead, InUse
<1> QED
  BY <1>1, <1>2, <1>3

\* The backlog shrinks where the turns to be answered do.
LEMMA BacklogShrinks ==
  ASSUME TableInv, SameHomes,
         \A t \in TurnId : turn'[t].status \in PendingStatus => turn[t].status \in PendingStatus
  PROVE  \A t \in TurnId : /\ t \in Backlog' => t \in Backlog
                           /\ \A o \in Owner : t \in CallerBacklog(o)' => t \in CallerBacklog(o)
<1>1. ASSUME NEW t \in TurnId, t \in Backlog' PROVE t \in Backlog
  <2>1. turn[t].status \in PendingStatus
    BY <1>1 DEF Backlog, Pending
  <2>2. conversation[turn[t].conversation].status = "busy"
    BY <2>1 DEF TableInv, TurnsHaveHomes
  <2> QED
    BY <2>1, <2>2 DEF Backlog, Pending, Live, LiveStatus
<1>2. ASSUME NEW t \in TurnId, NEW o \in Owner, t \in CallerBacklog(o)'
      PROVE  t \in CallerBacklog(o)
  <2>1. t \in Backlog
    BY <1>1, <1>2 DEF CallerBacklog
  <2>2. turn[t].conversation \in ConversationId
    BY <2>1 DEF Backlog, Pending, TableInv, TurnsHaveHomes
  <2> QED
    BY <1>2, <2>1, <2>2 DEF CallerBacklog, SameHomes
<1> QED
  BY <1>1, <1>2

-----------------------------------------------------------------------------
(* Fencing a conversation *)

LEMMA FenceEffect ==
  ASSUME TableInv, NEW c \in ConversationId, Live(c), NEW st \in FencedStatus, Fence(c, st)
  PROVE  /\ \A t \in TurnId :
              turn'[t] = IF t \in TurnsOf(c) /\ Pending(t) THEN FailedByFence(t) ELSE turn[t]
         /\ \A d \in ConversationId \ {c} : conversation'[d] = conversation[d]
         /\ conversation'[c].status = st /\ conversation'[c].owner = conversation[c].owner
         /\ TableTypes' /\ SameHomes
<1>1. TableTypes /\ TurnsHaveHomes
  BY DEF TableInv
<1>2. turn' = [t \in TurnId |-> IF t \in TurnsOf(c) /\ Pending(t) THEN FailedByFence(t)
                                ELSE turn[t]]
  BY DEF Fence, EndedByFence
<1>3. \A t \in TurnId : FailedByFence(t) \in TurnRow
        /\ FailedByFence(t).status = "failed"
        /\ FailedByFence(t).conversation = turn[t].conversation
        /\ FailedByFence(t).sequence = turn[t].sequence
  <2>1. \A t \in TurnId : turn[t] \in TurnRow
    BY <1>1 DEF TableTypes
  <2>2. 0 \in 0..AttemptBound /\ "INTERNAL_ERROR" \in ErrorCode
    BY LimitAssumption DEF ErrorCode
  <2> QED
    BY <2>1, <2>2 DEF FailedByFence, TurnRow, TerminalStatus
<1>4. conversation' = [conversation EXCEPT ![c].status = st] /\ due' = [due EXCEPT ![c] = FALSE]
      /\ UNCHANGED operation
  BY DEF Fence
<1>5. /\ conversation' \in [ConversationId -> ConversationRow]
      /\ \A d \in ConversationId \ {c} : conversation'[d] = conversation[d]
      /\ conversation'[c].status = st /\ conversation'[c].owner = conversation[c].owner
  BY <1>1, <1>4 DEF TableTypes, ConversationRow
<1>6. turn' \in [TurnId -> TurnRow]
  BY <1>1, <1>2, <1>3 DEF TableTypes
<1>7. leaseOver' \in [TurnId -> BOOLEAN] /\ outbox' \in [TurnId -> {"none", "open", "sealed"}]
  BY <1>1 DEF Fence, TableTypes
<1>8. attempts' \in [TurnId -> Seq(AttemptStatus)]
  BY <1>1, AbandonKeeps DEF Fence, TableTypes
<1>9. invocation' \in [TurnId -> [Ordinal -> InvocationRow]]
  <2>1. \A t \in TurnId : [n \in Ordinal |-> FencedInvocation(invocation[t][n])]
                            \in [Ordinal -> InvocationRow]
    BY <1>1, RowTypes DEF TableTypes
  <2> QED
    BY <1>1, <2>1 DEF Fence, TableTypes
<1>10. TableTypes'
  BY <1>1, <1>4, <1>5, <1>6, <1>7, <1>8, <1>9 DEF TableTypes
<1>11. SameHomes
  BY <1>2, <1>3, <1>4, <1>5 DEF SameHomes, There, InUse, Live, LiveStatus, FencedStatus,
        Pending, PendingStatus, TerminalStatus
<1> QED
  BY <1>2, <1>5, <1>10, <1>11

LEMMA FenceTables ==
  ASSUME TableInv, NEW c \in ConversationId, Live(c), NEW st \in FencedStatus, Fence(c, st)
  PROVE  TableInv' /\ Quiet(c)
<1>1. /\ \A t \in TurnId :
           turn'[t] = IF t \in TurnsOf(c) /\ Pending(t) THEN FailedByFence(t) ELSE turn[t]
      /\ \A d \in ConversationId \ {c} : conversation'[d] = conversation[d]
      /\ conversation'[c].status = st /\ conversation'[c].owner = conversation[c].owner
      /\ TableTypes' /\ SameHomes
  BY FenceEffect
<1>2. TableTypes /\ TurnsHaveHomes /\ OneActive /\ \A t \in TurnId : AttemptsFit(t)
  BY DEF TableInv
<1>3. LastExists' /\ OperationsLead' /\ \A d \in ConversationId : TurnsOf(d)' = TurnsOf(d)
  BY <1>1, SameTurns
<1>4. \A t \in TurnId : turn'[t].status \in PendingStatus =>
         turn[t].status \in PendingStatus /\ t \notin TurnsOf(c) /\ turn'[t] = turn[t]
  <2>1. \A t \in TurnId : FailedByFence(t).status = "failed"
    BY <1>2 DEF FailedByFence, TableTypes, TurnRow
  <2> QED
    BY <1>1, <2>1 DEF Pending, PendingStatus
<1>5. TurnsHaveHomes'
  <2> SUFFICES ASSUME NEW t \in TurnId
               PROVE  /\ turn'[t].status \in {"absent", "deleted"} => turn'[t].conversation = None
                      /\ turn'[t].status \in PendingStatus \cup TerminalStatus =>
                           /\ turn'[t].conversation \in ConversationId
                           /\ conversation'[turn'[t].conversation].status \in There
                      /\ turn'[t].status \in PendingStatus =>
                           conversation'[turn'[t].conversation].status = "busy"
    BY DEF TurnsHaveHomes, There
  <2>1. turn'[t].status \in {"absent", "deleted"} => turn[t].status \in {"absent", "deleted"}
    BY <1>1, <1>2 DEF SameHomes, InUse, TableTypes, TurnRow, PendingStatus, TerminalStatus
  <2>2. turn'[t].status \in PendingStatus \cup TerminalStatus =>
           turn[t].conversation \in ConversationId
           /\ conversation'[turn[t].conversation].status \in There
    BY <1>1, <1>2 DEF SameHomes, InUse, TurnsHaveHomes, There
  <2>3. turn'[t].status \in PendingStatus =>
           turn[t].conversation # c /\ turn[t].conversation \in ConversationId
           /\ conversation[turn[t].conversation].status = "busy"
    BY <1>2, <1>4 DEF TurnsHaveHomes, TurnsOf
  <2> QED
    BY <1>1, <1>2, <2>1, <2>2, <2>3 DEF SameHomes, TurnsHaveHomes
<1>6. OneActive'
  <2>1. \A t, u \in TurnId :
          Pending(t)' /\ Pending(u)' /\ turn'[t].conversation = turn'[u].conversation => t = u
    BY <1>1, <1>2, <1>4 DEF SameHomes, OneActive, Pending
  <2>2. ASSUME NEW d \in ConversationId, conversation'[d].status = "busy"
        PROVE  \E t \in TurnsOf(d)' : Pending(t)'
    <3>1. d # c /\ conversation[d].status = "busy"
      BY <1>1, <2>2 DEF FencedStatus
    <3>2. PICK t \in TurnsOf(d) : Pending(t)
      BY <1>2, <3>1 DEF OneActive
    <3>3. t \in TurnId /\ t \notin TurnsOf(c)
      BY <3>1, <3>2 DEF TurnsOf
    <3> QED
      BY <1>1, <1>3, <3>2, <3>3 DEF Pending
  <2> QED
    BY <2>1, <2>2 DEF OneActive
<1>7. ASSUME NEW t \in TurnId PROVE AttemptsFit(t)'
  <2>1. AttemptsFit(t) /\ attempts[t] \in Seq(AttemptStatus) /\ turn[t] \in TurnRow
    BY <1>2 DEF TableTypes
  <2>2. CASE t \notin TurnsOf(c)
    <3>1. turn'[t] = turn[t] /\ attempts'[t] = attempts[t]
      BY <1>1, <2>2 DEF Fence
    <3> QED
      BY <2>1, <3>1 DEF AttemptsFit, Fits
  <2>3. CASE t \in TurnsOf(c)
    <3>1. attempts'[t] = AbandonRunning(attempts[t])
      BY <2>3 DEF Fence
    <3>2. Len(attempts'[t]) = Len(attempts[t])
          /\ \A i \in 1..Len(attempts[t]) : attempts'[t][i] # "running"
      BY <2>1, <3>1, AbandonKeeps
    <3>3. CASE Pending(t)
      <4>1. turn'[t].claim = 0 /\ turn'[t].error = "INTERNAL_ERROR" /\ turn'[t].status = "failed"
        BY <1>1, <2>1, <2>3, <3>3 DEF FailedByFence, TurnRow
      <4>2. "INTERNAL_ERROR" # None
        BY NoneAssumption
      <4> QED
        BY <2>1, <3>2, <4>1, <4>2 DEF AttemptsFit, Fits
    <3>4. CASE ~Pending(t)
      <4>1. turn'[t] = turn[t] /\ turn[t].status # "running"
        BY <1>1, <3>4 DEF Pending, PendingStatus
      <4> QED
        BY <2>1, <3>2, <4>1 DEF AttemptsFit, Fits
    <3> QED
      BY <3>3, <3>4
  <2> QED
    BY <2>2, <2>3
<1>8. Quiet(c)
  <2>1. \A d \in ConversationId \ {c} : \A t \in TurnsOf(d) : turn'[t] = turn[t]
    BY <1>1 DEF TurnsOf
  <2>2. \A k \in Key : operation[k] = NoOperation => operation'[k] = NoOperation
    BY <1>1 DEF SameHomes
  <2> QED
    BY <1>1, <1>3, <1>4, <2>1, <2>2, BacklogShrinks DEF Quiet
<1> QED
  BY <1>1, <1>3, <1>5, <1>6, <1>7, <1>8 DEF TableInv

-----------------------------------------------------------------------------
(* Deleting the rows of a fenced conversation *)

LEMMA PurgeTables ==
  ASSUME TableInv, NEW c \in ConversationId, conversation[c].status \in FencedStatus, Purge(c)
  PROVE  TableInv' /\ Quiet(c)
<1>1. TableTypes /\ TurnsHaveHomes /\ OneActive /\ LastExists /\ OperationsLead
      /\ \A t \in TurnId : AttemptsFit(t)
  BY DEF TableInv
<1> DEFINE gone == [NoTurn EXCEPT !.status = "deleted"]
<1>2. gone \in TurnRow /\ gone.status = "deleted" /\ gone.conversation = None
      /\ gone.claim = 0 /\ gone.error = None
  BY RowTypes DEF NoTurn
<1>3. turn' = [t \in TurnId |-> IF t \in TurnsOf(c) THEN gone ELSE turn[t]]
      /\ attempts' = [t \in TurnId |-> IF t \in TurnsOf(c) THEN <<>> ELSE attempts[t]]
      /\ operation' = [k \in Key |-> IF operation[k].turn \in TurnsOf(c)
                                     THEN NoOperation ELSE operation[k]]
      /\ conversation' = [conversation EXCEPT ![c] = [NoConversation EXCEPT !.status = "deleted"]]
  BY DEF Purge
<1> HIDE DEF gone
<1>4. None \notin ConversationId
  BY NoneAssumption
<1>5. TableTypes'
  <2>1. conversation' \in [ConversationId -> ConversationRow] /\ due' \in [ConversationId -> BOOLEAN]
    BY <1>1, <1>3, RowTypes DEF TableTypes, Purge
  <2>2. turn' \in [TurnId -> TurnRow]
    BY <1>1, <1>2, <1>3 DEF TableTypes
  <2>3. attempts' \in [TurnId -> Seq(AttemptStatus)]
    <3>1. <<>> \in Seq(AttemptStatus)
      BY EmptySeq
    <3> QED
      BY <1>1, <1>3, <3>1 DEF TableTypes
  <2>4. operation' \in [Key -> [fingerprint : Fingerprint, turn : TurnId] \cup {NoOperation}]
    BY <1>1, <1>3 DEF TableTypes
  <2>5. leaseOver' \in [TurnId -> BOOLEAN] /\ outbox' \in [TurnId -> {"none", "open", "sealed"}]
    BY <1>1 DEF TableTypes, Purge
  <2>6. invocation' \in [TurnId -> [Ordinal -> InvocationRow]]
    BY <1>1, RowTypes DEF TableTypes, Purge
  <2> QED
    BY <2>1, <2>2, <2>3, <2>4, <2>5, <2>6 DEF TableTypes
<1>6. /\ \A t \in TurnId \ TurnsOf(c) : turn'[t] = turn[t] /\ attempts'[t] = attempts[t]
      /\ \A t \in TurnsOf(c) : turn'[t] = gone /\ attempts'[t] = <<>>
      /\ \A d \in ConversationId \ {c} : conversation'[d] = conversation[d]
      /\ conversation'[c].status = "deleted"
  BY <1>1, <1>3 DEF TableTypes, TurnsOf, NoConversation
<1>7. TurnsOf(c)' = {} /\ \A d \in ConversationId \ {c} : TurnsOf(d)' = TurnsOf(d)
  <2>1. \A t \in TurnId : turn'[t].conversation = IF t \in TurnsOf(c) THEN None ELSE turn[t].conversation
    BY <1>2, <1>6
  <2> QED
    BY <1>4, <2>1 DEF TurnsOf
<1>8. TurnsHaveHomes'
  <2> SUFFICES ASSUME NEW t \in TurnId
               PROVE  /\ turn'[t].status \in {"absent", "deleted"} => turn'[t].conversation = None
                      /\ turn'[t].status \in PendingStatus \cup TerminalStatus =>
                           /\ turn'[t].conversation \in ConversationId
                           /\ conversation'[turn'[t].conversation].status \in There
                      /\ turn'[t].status \in PendingStatus =>
                           conversation'[turn'[t].conversation].status = "busy"
    BY DEF TurnsHaveHomes, There
  <2>1. CASE t \in TurnsOf(c)
    BY <1>2, <1>6, <2>1 DEF PendingStatus, TerminalStatus
  <2>2. CASE t \notin TurnsOf(c)
    <3>1. turn'[t] = turn[t] /\ turn[t].conversation # c
      BY <1>6, <2>2 DEF TurnsOf
    <3> QED
      BY <1>1, <1>6, <3>1 DEF TurnsHaveHomes, There
  <2> QED
    BY <2>1, <2>2
<1>9. \A t \in TurnId : turn'[t].status \in PendingStatus => t \notin TurnsOf(c) /\ turn'[t] = turn[t]
  BY <1>2, <1>6 DEF PendingStatus
<1>10. OneActive'
  <2>1. \A t, u \in TurnId :
          Pending(t)' /\ Pending(u)' /\ turn'[t].conversation = turn'[u].conversation => t = u
    BY <1>1, <1>9 DEF OneActive, Pending
  <2>2. ASSUME NEW d \in ConversationId, conversation'[d].status = "busy"
        PROVE  \E t \in TurnsOf(d)' : Pending(t)'
    <3>1. d # c /\ conversation[d].status = "busy"
      BY <1>6, <2>2
    <3>2. PICK t \in TurnsOf(d) : Pending(t)
      BY <1>1, <3>1 DEF OneActive
    <3>3. t \in TurnId /\ t \notin TurnsOf(c)
      BY <3>1, <3>2 DEF TurnsOf
    <3> QED
      BY <1>6, <1>7, <3>1, <3>2, <3>3 DEF Pending
  <2> QED
    BY <2>1, <2>2 DEF OneActive
<1>11. LastExists'
  <2>1. ASSUME NEW d \in ConversationId, conversation'[d].status \in There
        PROVE  \E t \in TurnId : IsLast(t, d)'
    <3>1. d # c /\ conversation[d].status \in There
      BY <1>6, <2>1 DEF There, LiveStatus, FencedStatus
    <3>2. PICK t \in TurnId : IsLast(t, d)
      BY <1>1, <3>1 DEF LastExists, There
    <3>3. \A u \in TurnsOf(d) : u \in TurnId \ TurnsOf(c)
      BY <3>1 DEF TurnsOf
    <3> QED
      BY <1>6, <1>7, <3>1, <3>2, <3>3 DEF IsLast
  <2>2. ASSUME NEW d \in ConversationId, NEW t \in TurnsOf(d)', NEW u \in TurnsOf(d)',
               turn'[t].sequence = turn'[u].sequence
        PROVE  t = u
    <3>1. d # c /\ t \in TurnsOf(d) /\ u \in TurnsOf(d)
      BY <1>7, <2>2
    <3>2. t \in TurnId \ TurnsOf(c) /\ u \in TurnId \ TurnsOf(c)
      BY <3>1 DEF TurnsOf
    <3> QED
      BY <1>1, <1>6, <2>2, <3>1, <3>2 DEF LastExists
  <2> QED
    BY <2>1, <2>2 DEF LastExists, There
<1>12. ASSUME NEW t \in TurnId PROVE AttemptsFit(t)'
  <2>1. CASE t \in TurnsOf(c)
    <3>1. Len(<<>>) = 0 /\ AttemptBound \in Nat
      BY LimitAssumption
    <3> QED
      BY <1>2, <1>6, <2>1, <3>1 DEF AttemptsFit, Fits
  <2>2. CASE t \notin TurnsOf(c)
    BY <1>1, <1>6, <2>2 DEF AttemptsFit
  <2> QED
    BY <2>1, <2>2
<1>13. OperationsLead'
  <2> SUFFICES ASSUME NEW k \in Key, operation'[k] # NoOperation
               PROVE  LET t == operation'[k].turn IN
                      /\ turn'[t].status \in PendingStatus \cup TerminalStatus
                      /\ operation'[k].fingerprint.after # None =>
                           /\ turn'[operation'[k].fingerprint.after].conversation
                                = turn'[t].conversation
                           /\ turn'[operation'[k].fingerprint.after].sequence + 1
                                = turn'[t].sequence
                           /\ turn'[operation'[k].fingerprint.after].status \in TerminalStatus
    BY DEF OperationsLead
  <2>1. operation'[k] = operation[k] /\ operation[k].turn \notin TurnsOf(c)
        /\ operation[k] # NoOperation
    BY <1>3
  <2>2. operation[k].turn \in TurnId
        /\ (operation[k].fingerprint.after # None => operation[k].fingerprint.after \in TurnId)
    BY <1>1, <2>1 DEF TableTypes, Fingerprint
  <2>3. turn'[operation[k].turn] = turn[operation[k].turn] /\ turn[operation[k].turn].conversation # c
    BY <1>6, <2>1, <2>2 DEF TurnsOf
  <2>4. ASSUME operation[k].fingerprint.after # None
        PROVE  turn'[operation[k].fingerprint.after] = turn[operation[k].fingerprint.after]
    <3>1. turn[operation[k].fingerprint.after].conversation = turn[operation[k].turn].conversation
      BY <1>1, <2>1, <2>4 DEF OperationsLead
    <3> QED
      BY <1>6, <2>2, <2>3, <2>4, <3>1 DEF TurnsOf
  <2> QED
    BY <1>1, <2>1, <2>3, <2>4 DEF OperationsLead
<1>14. Quiet(c)
  <2>1. \A d \in ConversationId \ {c} : \A t \in TurnsOf(d) : turn'[t] = turn[t]
    BY <1>6 DEF TurnsOf
  <2>2. \A k \in Key : operation[k] = NoOperation => operation'[k] = NoOperation
    BY <1>3
  <2>3. \A t \in TurnId : t \in Backlog' =>
          turn'[t] = turn[t] /\ turn[t].conversation \in ConversationId \ {c} /\ Pending(t)
    BY <1>1, <1>9 DEF Backlog, Pending, TurnsHaveHomes, TurnsOf
  <2>4. \A t \in TurnId : t \in Backlog' => t \in Backlog
    BY <1>6, <2>3 DEF Backlog, Live
  <2>5. \A t \in TurnId, o \in Owner : t \in CallerBacklog(o)' => t \in CallerBacklog(o)
    BY <1>6, <2>3, <2>4 DEF CallerBacklog
  <2> QED
    BY <1>6, <1>7, <2>1, <2>2, <2>4, <2>5 DEF Quiet
<1> QED
  BY <1>5, <1>8, <1>10, <1>11, <1>12, <1>13, <1>14 DEF TableInv

-----------------------------------------------------------------------------
(* The calls of a worker *)

\* What starting, finishing and giving back an attempt have in common: one
\* pending turn and its attempts are rewritten, its conversation follows.
LEMMA TurnStep ==
  ASSUME TableInv, NEW t \in TurnId, Pending(t),
         NEW row \in TurnRow, NEW seq \in Seq(AttemptStatus), Fits(row, seq),
         row.status \in InUse,
         row.conversation = turn[t].conversation, row.sequence = turn[t].sequence,
         turn' = [turn EXCEPT ![t] = row],
         attempts' = [attempts EXCEPT ![t] = seq],
         leaseOver' = [leaseOver EXCEPT ![t] = FALSE],
         conversation' = [conversation EXCEPT ![turn[t].conversation].status =
                            IF row.status \in PendingStatus THEN "busy" ELSE "ready"],
         UNCHANGED <<due, operation, outbox, invocation>>
  PROVE  TableInv' /\ Quiet(turn[t].conversation)
<1> DEFINE c == turn[t].conversation
<1>1. TableTypes /\ TurnsHaveHomes /\ OneActive /\ LastExists /\ OperationsLead
      /\ \A u \in TurnId : AttemptsFit(u)
  BY DEF TableInv
<1>2. c \in ConversationId /\ conversation[c].status = "busy" /\ turn[t].status \in PendingStatus
  BY <1>1 DEF TurnsHaveHomes, Pending
<1> HIDE DEF c
<1> DEFINE st == IF row.status \in PendingStatus THEN "busy" ELSE "ready"
<1>3. conversation' = [conversation EXCEPT ![c].status = st] /\ st \in LiveStatus
  BY DEF c, LiveStatus
<1>4. /\ turn'[t] = row /\ \A u \in TurnId \ {t} : turn'[u] = turn[u]
      /\ attempts'[t] = seq /\ \A u \in TurnId \ {t} : attempts'[u] = attempts[u]
      /\ \A d \in ConversationId \ {c} : conversation'[d] = conversation[d]
      /\ conversation'[c].status = IF row.status \in PendingStatus THEN "busy" ELSE "ready"
      /\ conversation'[c].owner = conversation[c].owner /\ conversation'[c].status \in LiveStatus
  BY <1>1, <1>2, <1>3 DEF TableTypes, ConversationRow
<1> HIDE DEF st
<1>5. TableTypes'
  <2>1. conversation' \in [ConversationId -> ConversationRow]
    <3>1. conversation[c] \in ConversationRow
      BY <1>1, <1>2 DEF TableTypes
    <3>2. [conversation[c] EXCEPT !.status = st] \in ConversationRow
      BY <1>3, <3>1 DEF ConversationRow
    <3> QED
      BY <1>1, <1>2, <1>3, <3>2 DEF TableTypes
  <2>2. turn' \in [TurnId -> TurnRow] /\ attempts' \in [TurnId -> Seq(AttemptStatus)]
        /\ leaseOver' \in [TurnId -> BOOLEAN]
    BY <1>1 DEF TableTypes
  <2> QED
    BY <1>1, <2>1, <2>2 DEF TableTypes
<1>6. SameHomes
  BY <1>2, <1>4 DEF SameHomes, There, InUse, LiveStatus, c, PendingStatus, TerminalStatus
<1>7. LastExists' /\ OperationsLead' /\ \A d \in ConversationId : TurnsOf(d)' = TurnsOf(d)
  BY <1>6, SameTurns
<1>8. \A u \in TurnId \ {t} : turn[u].status \in PendingStatus => turn[u].conversation # c
  BY <1>1, <1>2 DEF OneActive, Pending, c
<1>9. TurnsHaveHomes'
  <2> SUFFICES ASSUME NEW u \in TurnId
               PROVE  /\ turn'[u].status \in {"absent", "deleted"} => turn'[u].conversation = None
                      /\ turn'[u].status \in PendingStatus \cup TerminalStatus =>
                           /\ turn'[u].conversation \in ConversationId
                           /\ conversation'[turn'[u].conversation].status \in There
                      /\ turn'[u].status \in PendingStatus =>
                           conversation'[turn'[u].conversation].status = "busy"
    BY DEF TurnsHaveHomes, There
  <2>1. CASE u = t
    BY <1>2, <1>4, <2>1 DEF c, InUse, There, LiveStatus, PendingStatus, TerminalStatus
  <2>2. CASE u # t
    <3>1. turn'[u] = turn[u] /\ (turn[u].status \in PendingStatus => turn[u].conversation # c)
      BY <1>4, <1>8, <2>2
    <3>2. CASE turn[u].conversation = c
      BY <1>1, <1>4, <3>1, <3>2 DEF TurnsHaveHomes, There
    <3>3. CASE turn[u].conversation # c
      BY <1>1, <1>2, <1>4, <3>1, <3>3 DEF TurnsHaveHomes, There
    <3> QED
      BY <3>2, <3>3
  <2> QED
    BY <2>1, <2>2
<1>10. OneActive'
  <2>1. \A u, v \in TurnId :
          Pending(u)' /\ Pending(v)' /\ turn'[u].conversation = turn'[v].conversation => u = v
    <3>1. \A u \in TurnId : Pending(u)' => Pending(u)
      BY <1>4 DEF Pending, c
    <3> QED
      BY <1>1, <1>6, <3>1 DEF SameHomes, OneActive
  <2>2. ASSUME NEW d \in ConversationId, conversation'[d].status = "busy"
        PROVE  \E u \in TurnsOf(d)' : Pending(u)'
    <3>1. CASE d = c
      <4>1. row.status \in PendingStatus
        BY <1>4, <2>2, <3>1
      <4>2. t \in TurnsOf(c)
        BY DEF TurnsOf, c
      <4> QED
        BY <1>2, <1>4, <1>7, <3>1, <4>1, <4>2 DEF Pending
    <3>2. CASE d # c
      <4>1. conversation[d].status = "busy"
        BY <1>4, <2>2, <3>2
      <4>2. PICK u \in TurnsOf(d) : Pending(u)
        BY <1>1, <4>1 DEF OneActive
      <4>3. u \in TurnId \ {t}
        BY <3>2, <4>2 DEF TurnsOf, c
      <4> QED
        BY <1>4, <1>7, <4>2, <4>3 DEF Pending
    <3> QED
      BY <3>1, <3>2
  <2> QED
    BY <2>1, <2>2 DEF OneActive
<1>11. \A u \in TurnId : AttemptsFit(u)'
  BY <1>1, <1>4 DEF AttemptsFit
<1>12. Quiet(c)
  <2>1. \A d \in ConversationId \ {c} : \A u \in TurnsOf(d) : turn'[u] = turn[u]
    BY <1>4 DEF TurnsOf, c
  <2>2. \A u \in TurnId : turn'[u].status \in PendingStatus => turn[u].status \in PendingStatus
    BY <1>2, <1>4
  <2> QED
    BY <1>4, <1>6, <1>7, <2>1, <2>2, BacklogShrinks DEF Quiet, SameHomes
<1> QED
  BY <1>5, <1>7, <1>9, <1>10, <1>11, <1>12 DEF TableInv, c

\* Rewriting one attempt.
LEMMA RewriteAttempt ==
  ASSUME NEW seq \in Seq(AttemptStatus), NEW i \in 1..Len(seq), NEW st \in AttemptStatus
  PROVE  /\ [seq EXCEPT ![i] = st] \in Seq(AttemptStatus)
         /\ Len([seq EXCEPT ![i] = st]) = Len(seq)
         /\ \A j \in 1..Len(seq) : [seq EXCEPT ![i] = st][j] = IF j = i THEN st ELSE seq[j]
BY ExceptSeq

LEMMA StartTables ==
  ASSUME TableInv, NEW t \in TurnId, StartAttempt(t)
  PROVE  TableInv' /\ Quiet(turn[t].conversation)
<1> DEFINE token == Len(attempts[t]) + 1
           row == [turn[t] EXCEPT !.status = "running", !.claim = token]
           before == WithoutClaim(t)
           seq == Append(before, "running")
<1>1. TableTypes /\ AttemptsFit(t) /\ attempts[t] \in Seq(AttemptStatus) /\ turn[t] \in TurnRow
      /\ turn[t].status \in PendingStatus /\ Len(attempts[t]) \in Nat /\ token <= AttemptBound
      /\ AttemptBound \in Nat
  BY LimitAssumption, LenProperties
     DEF TableInv, TableTypes, StartAttempt, Claimable, PendingStatus
<1>2. /\ before \in Seq(AttemptStatus) /\ Len(before) = Len(attempts[t])
      /\ \A i \in 1..Len(before) : before[i] # "running"
  <2>1. CASE turn[t].status = "running"
    <3>1. turn[t].claim \in 1..Len(attempts[t])
          /\ before = [attempts[t] EXCEPT ![turn[t].claim] = "abandoned"]
          /\ \A i \in 1..Len(attempts[t]) : attempts[t][i] = "running" => turn[t].claim = i
      BY <1>1, <2>1 DEF WithoutClaim, AttemptsFit, Fits
    <3>2. "abandoned" \in AttemptStatus
      BY DEF AttemptStatus
    <3> HIDE DEF before
    <3> QED
      BY <1>1, <3>1, <3>2, RewriteAttempt
  <2>2. CASE turn[t].status # "running"
    BY <1>1, <2>2 DEF WithoutClaim, AttemptsFit, Fits
  <2> QED
    BY <2>1, <2>2
<1> HIDE DEF before
<1>3. /\ seq \in Seq(AttemptStatus) /\ Len(seq) = token /\ seq[token] = "running"
      /\ \A i \in 1..Len(seq) : seq[i] = "running" => i = token
  <2>1. "running" \in AttemptStatus
    BY DEF AttemptStatus
  <2>2. /\ seq \in Seq(AttemptStatus) /\ Len(seq) = Len(before) + 1
        /\ \A i \in 1..Len(before) : seq[i] = before[i]
        /\ seq[Len(before) + 1] = "running"
    BY <1>2, <2>1, AppendProperties
  <2> HIDE DEF seq
  <2>3. \A i \in 1..Len(seq) : i # token => i \in 1..Len(before)
    BY <1>1, <1>2, <2>2
  <2> QED
    BY <1>2, <2>2, <2>3
<1>4. /\ row \in TurnRow /\ row.status = "running" /\ row.claim = token
      /\ row.conversation = turn[t].conversation /\ row.sequence = turn[t].sequence
      /\ row.error = turn[t].error
  <2>1. token \in 0..AttemptBound
    BY <1>1
  <2> HIDE DEF token
  <2> QED
    BY <1>1, <2>1 DEF TurnRow, PendingStatus
<1>5. turn[t].error = None
  BY <1>1 DEF AttemptsFit, Fits, PendingStatus
<1>6. turn' = [turn EXCEPT ![t] = row] /\ attempts' = [attempts EXCEPT ![t] = seq]
      /\ leaseOver' = [leaseOver EXCEPT ![t] = FALSE]
      /\ conversation' = [conversation EXCEPT ![turn[t].conversation].status = "busy"]
      /\ UNCHANGED <<due, operation, outbox, invocation>>
  BY <1>1 DEF StartAttempt, TableTypes, TurnRow, before
<1> HIDE DEF row, seq
<1>7. Fits(row, seq)
  BY <1>1, <1>3, <1>4, <1>5 DEF Fits
<1>8. Pending(t) /\ row.status \in PendingStatus /\ row.status \in InUse
  BY <1>1, <1>4 DEF Pending, PendingStatus, InUse
<1> QED
  BY <1>3, <1>4, <1>6, <1>7, <1>8, TurnStep

LEMMA EndTables ==
  ASSUME TableInv, NEW t \in TurnId, NEW token, HoldsClaim(t, token),
         NEW st \in {"queued"} \cup TerminalStatus, NEW error \in ErrorCode,
         (error # None) <=> (st = "failed"),
         NEW row, row = [turn[t] EXCEPT !.status = st, !.claim = 0, !.error = error],
         turn' = [turn EXCEPT ![t] = row],
         attempts' = [attempts EXCEPT ![t][token] = IF st = "queued" THEN "abandoned" ELSE st],
         leaseOver' = [leaseOver EXCEPT ![t] = FALSE],
         conversation' = [conversation EXCEPT ![turn[t].conversation].status =
                            IF st = "queued" THEN "busy" ELSE "ready"],
         UNCHANGED <<due, operation, outbox, invocation>>
  PROVE  TableInv' /\ Quiet(turn[t].conversation)
<1> DEFINE ended == IF st = "queued" THEN "abandoned" ELSE st
           seq == [attempts[t] EXCEPT ![token] = ended]
<1>1. TableTypes /\ AttemptsFit(t) /\ attempts[t] \in Seq(AttemptStatus) /\ turn[t] \in TurnRow
      /\ turn[t].status = "running" /\ turn[t].claim = token
  BY DEF TableInv, TableTypes, HoldsClaim
<1>2. token \in 1..Len(attempts[t]) /\ Len(attempts[t]) <= AttemptBound
      /\ \A i \in 1..Len(attempts[t]) : attempts[t][i] = "running" => i = token
  <2>1. Len(attempts[t]) \in Nat
    BY <1>1, LenProperties
  <2> QED
    BY <1>1, <2>1 DEF AttemptsFit, Fits
<1>3. ended \in AttemptStatus /\ ended # "running"
  BY DEF AttemptStatus, TerminalStatus
<1>4. /\ seq \in Seq(AttemptStatus) /\ Len(seq) = Len(attempts[t])
      /\ \A i \in 1..Len(seq) : seq[i] # "running"
  <2> HIDE DEF ended
  <2> QED
    BY <1>1, <1>2, <1>3, RewriteAttempt
<1>5. attempts' = [attempts EXCEPT ![t] = seq]
  BY <1>1 DEF TableTypes
<1> HIDE DEF seq, ended
<1>6. /\ row \in TurnRow /\ row.status = st /\ row.claim = 0 /\ row.error = error
      /\ row.conversation = turn[t].conversation /\ row.sequence = turn[t].sequence
  <2>1. 0 \in 0..AttemptBound
    BY LimitAssumption
  <2> QED
    BY <1>1, <2>1 DEF TurnRow, TerminalStatus, PendingStatus
<1>7. Fits(row, seq)
  BY <1>2, <1>4, <1>6 DEF Fits, TerminalStatus
<1>8. Pending(t) /\ row.status \in InUse /\ (row.status \in PendingStatus <=> st = "queued")
  BY <1>1, <1>6 DEF Pending, PendingStatus, InUse, TerminalStatus
<1>9. conversation' = [conversation EXCEPT ![turn[t].conversation].status =
                         IF row.status \in PendingStatus THEN "busy" ELSE "ready"]
  BY <1>8
<1> QED
  BY <1>4, <1>5, <1>6, <1>7, <1>8, <1>9, TurnStep

LEMMA FinishTables ==
  ASSUME TableInv, NEW t \in TurnId, NEW token, NEW st \in TerminalStatus, NEW error \in ErrorCode,
         (error # None) <=> (st = "failed"), Finish(t, token, st, error)
  PROVE  TableInv' /\ Quiet(turn[t].conversation)
<1> DEFINE row == [turn[t] EXCEPT !.status = st, !.claim = 0, !.error = error]
<1>1. turn \in [TurnId -> TurnRow] /\ st # "queued" /\ st \in {"queued"} \cup TerminalStatus
  BY DEF TableInv, TableTypes, TerminalStatus
<1>2. turn' = [turn EXCEPT ![t] = row]
  BY <1>1 DEF Finish, TurnRow
<1>3. /\ HoldsClaim(t, token)
      /\ attempts' = [attempts EXCEPT ![t][token] = IF st = "queued" THEN "abandoned" ELSE st]
      /\ leaseOver' = [leaseOver EXCEPT ![t] = FALSE]
      /\ conversation' = [conversation EXCEPT ![turn[t].conversation].status =
                            IF st = "queued" THEN "busy" ELSE "ready"]
      /\ UNCHANGED <<due, operation, outbox, invocation>>
  BY <1>1 DEF Finish, SetAttempt
<1> QED
  BY <1>1, <1>2, <1>3, EndTables

LEMMA GiveBackTables ==
  ASSUME TableInv, NEW t \in TurnId, NEW token, GiveBack(t, token)
  PROVE  TableInv' /\ Quiet(turn[t].conversation)
<1> DEFINE row == [turn[t] EXCEPT !.status = "queued", !.claim = 0, !.error = None]
<1>1. turn \in [TurnId -> TurnRow] /\ HoldsClaim(t, token) /\ AttemptsFit(t)
  BY DEF TableInv, TableTypes, GiveBack
<1>2. turn[t].error = None
  BY <1>1 DEF AttemptsFit, Fits, HoldsClaim
<1>3. turn' = [turn EXCEPT ![t] = row]
  BY <1>1, <1>2 DEF GiveBack, TurnRow
<1>4. /\ attempts' = [attempts EXCEPT ![t][token] = IF "queued" = "queued" THEN "abandoned" ELSE "queued"]
      /\ leaseOver' = [leaseOver EXCEPT ![t] = FALSE]
      /\ conversation' = [conversation EXCEPT ![turn[t].conversation].status =
                            IF "queued" = "queued" THEN "busy" ELSE "ready"]
      /\ UNCHANGED <<due, operation, outbox, invocation>>
  BY DEF GiveBack, SetAttempt
<1>5. None \in ErrorCode /\ "queued" \in {"queued"} \cup TerminalStatus
      /\ ((None # None) <=> ("queued" = "failed"))
  BY DEF ErrorCode
<1> QED
  BY <1>1, <1>3, <1>4, <1>5, EndTables

-----------------------------------------------------------------------------
(* Accepting a turn *)

\* Turn t may be number n of conversation c, after the turn `after`.
FitsAfter(c, n, after) ==
  /\ \A u \in TurnsOf(c) : ~Pending(u) /\ turn[u].sequence < n
  /\ after # None => /\ after \in TurnsOf(c) /\ turn[after].sequence + 1 = n
                     /\ turn[after].status \in TerminalStatus

\* What the two transactions that accept a turn write.
Inserted(t, c, n, k, f, o) ==
  /\ turn[t].status = "absent"
  /\ turn' = [turn EXCEPT ![t] = [NoTurn EXCEPT !.status = "queued",
                !.conversation = c, !.sequence = n]]
  /\ operation' = [operation EXCEPT ![k] = [fingerprint |-> f, turn |-> t]]
  /\ outbox' = [outbox EXCEPT ![t] = "open"]
  /\ UNCHANGED <<leaseOver, attempts, invocation>>
  /\ conversation' = [conversation EXCEPT ![c] = [status |-> "busy", owner |-> o]]
  /\ due' \in [ConversationId -> BOOLEAN]

LEMMA InsertTables ==
  ASSUME TableInv, NEW t \in TurnId, NEW c \in ConversationId, NEW n \in 1..MaxTurns,
         NEW k \in Key, NEW f \in Fingerprint, NEW o \in Owner,
         FitsAfter(c, n, f.after), Inserted(t, c, n, k, f, o)
  PROVE  /\ TableInv'
         /\ \A d \in ConversationId \ {c} :
              /\ conversation'[d] = conversation[d] /\ TurnsOf(d)' = TurnsOf(d)
              /\ \A u \in TurnsOf(d) : turn'[u] = turn[u]
         /\ \A j \in Key \ {k} : operation'[j] = operation[j]
         /\ Backlog' \subseteq Backlog \cup {t}
         /\ \A p \in Owner :
              CallerBacklog(p)' \subseteq IF p = o THEN CallerBacklog(p) \cup {t} ELSE CallerBacklog(p)
<1> USE DEF FitsAfter, Inserted
<1> DEFINE row == [NoTurn EXCEPT !.status = "queued", !.conversation = c, !.sequence = n]
<1>1. TableTypes /\ TurnsHaveHomes /\ OneActive /\ LastExists /\ OperationsLead
      /\ \A u \in TurnId : AttemptsFit(u)
  BY DEF TableInv
<1>2. row \in TurnRow /\ row.status = "queued" /\ row.conversation = c /\ row.sequence = n
      /\ row.claim = 0 /\ row.error = None
  <2>1. n \in 0..MaxTurns /\ n \in Nat /\ 0 \in 0..AttemptBound
    BY LimitAssumption
  <2> QED
    BY <2>1 DEF NoTurn, TurnRow, PendingStatus, ErrorCode
<1>3. turn' = [turn EXCEPT ![t] = row]
  OBVIOUS
<1> HIDE DEF row
<1>4. turn[t].conversation = None /\ None \notin ConversationId
  BY <1>1, NoneAssumption DEF TurnsHaveHomes
<1>5. /\ turn'[t] = row /\ \A u \in TurnId \ {t} : turn'[u] = turn[u]
      /\ \A d \in ConversationId \ {c} : conversation'[d] = conversation[d]
      /\ conversation'[c] = [status |-> "busy", owner |-> o]
      /\ \A j \in Key \ {k} : operation'[j] = operation[j]
      /\ operation'[k] = [fingerprint |-> f, turn |-> t]
  BY <1>1, <1>3 DEF TableTypes
<1>6. TableTypes'
  <2>1. conversation' \in [ConversationId -> ConversationRow]
    BY <1>1 DEF TableTypes, ConversationRow, LiveStatus
  <2>2. turn' \in [TurnId -> TurnRow]
    BY <1>1, <1>2, <1>3 DEF TableTypes
  <2>3. operation' \in [Key -> [fingerprint : Fingerprint, turn : TurnId] \cup {NoOperation}]
    BY <1>1 DEF TableTypes
  <2>4. outbox' \in [TurnId -> {"none", "open", "sealed"}]
    BY <1>1 DEF TableTypes
  <2> QED
    BY <1>1, <2>1, <2>2, <2>3, <2>4 DEF TableTypes
<1>7. TurnsOf(c)' = TurnsOf(c) \cup {t} /\ t \notin TurnsOf(c)
      /\ \A d \in ConversationId \ {c} : TurnsOf(d)' = TurnsOf(d) /\ t \notin TurnsOf(d)
  <2>1. \A u \in TurnId : turn'[u].conversation = IF u = t THEN c ELSE turn[u].conversation
    BY <1>2, <1>5
  <2> QED
    BY <1>4, <2>1 DEF TurnsOf
<1>8. TurnsHaveHomes'
  <2> SUFFICES ASSUME NEW u \in TurnId
               PROVE  /\ turn'[u].status \in {"absent", "deleted"} => turn'[u].conversation = None
                      /\ turn'[u].status \in PendingStatus \cup TerminalStatus =>
                           /\ turn'[u].conversation \in ConversationId
                           /\ conversation'[turn'[u].conversation].status \in There
                      /\ turn'[u].status \in PendingStatus =>
                           conversation'[turn'[u].conversation].status = "busy"
    BY DEF TurnsHaveHomes, There
  <2>1. conversation'[c].status = "busy"
    BY <1>5
  <2>2. CASE u = t
    BY <1>2, <1>5, <2>1, <2>2 DEF There, LiveStatus
  <2>3. CASE u # t
    <3>1. turn'[u] = turn[u]
      BY <1>5, <2>3
    <3>2. CASE turn[u].conversation = c
      BY <1>1, <2>1, <3>1, <3>2 DEF TurnsHaveHomes, There, LiveStatus
    <3>3. CASE turn[u].conversation # c
      <4>1. turn[u].conversation \in ConversationId =>
              conversation'[turn[u].conversation] = conversation[turn[u].conversation]
        BY <1>5, <3>3
      <4> QED
        BY <1>1, <3>1, <4>1 DEF TurnsHaveHomes, There
    <3> QED
      BY <3>2, <3>3
  <2> QED
    BY <2>2, <2>3
<1>9. OneActive'
  <2>1. ASSUME NEW u \in TurnId, NEW v \in TurnId, Pending(u)', Pending(v)',
               turn'[u].conversation = turn'[v].conversation
        PROVE  u = v
    <3>1. \A w \in TurnId \ {t} : Pending(w)' => Pending(w) /\ turn[w].conversation # c
      BY <1>5 DEF Pending, TurnsOf
    <3>2. CASE u = t \/ v = t
      BY <1>2, <1>5, <2>1, <3>1, <3>2
    <3>3. CASE u # t /\ v # t
      BY <1>1, <1>5, <2>1, <3>1, <3>3 DEF OneActive
    <3> QED
      BY <3>2, <3>3
  <2>2. ASSUME NEW d \in ConversationId, conversation'[d].status = "busy"
        PROVE  \E u \in TurnsOf(d)' : Pending(u)'
    <3>1. CASE d = c
      BY <1>2, <1>5, <1>7, <3>1 DEF Pending, PendingStatus
    <3>2. CASE d # c
      <4>1. conversation[d].status = "busy"
        BY <1>5, <2>2, <3>2
      <4>2. PICK u \in TurnsOf(d) : Pending(u)
        BY <1>1, <4>1 DEF OneActive
      <4>3. u \in TurnId \ {t}
        BY <1>7, <3>2, <4>2 DEF TurnsOf
      <4> QED
        BY <1>5, <1>7, <3>2, <4>2, <4>3 DEF Pending
    <3> QED
      BY <3>1, <3>2
  <2> QED
    BY <2>1, <2>2 DEF OneActive
<1>10. \A d \in ConversationId \ {c} : \A u \in TurnsOf(d) : turn'[u] = turn[u]
  BY <1>5, <1>7 DEF TurnsOf
<1>11. /\ \A u \in TurnsOf(c) : turn'[u] = turn[u] /\ turn[u].sequence < n /\ turn[u].sequence \in Nat
       /\ n \in Nat
  <2>1. \A u \in TurnsOf(c) : u \in TurnId \ {t}
    BY <1>7 DEF TurnsOf
  <2>2. \A u \in TurnId : turn[u].sequence \in Nat
    BY <1>1, LimitAssumption DEF TableTypes, TurnRow
  <2> QED
    BY <1>5, <2>1, <2>2
<1>12. LastExists'
  <2>1. ASSUME NEW d \in ConversationId, conversation'[d].status \in There
        PROVE  \E u \in TurnId : IsLast(u, d)'
    <3>1. CASE d = c
      <4>1. IsLast(t, c)'
        <5>1. \A u \in TurnsOf(c)' : turn'[u].sequence <= turn'[t].sequence
          BY <1>2, <1>5, <1>7, <1>11
        <5> QED
          BY <1>7, <5>1 DEF IsLast
      <4> QED
        BY <3>1, <4>1
    <3>2. CASE d # c
      <4>1. PICK u \in TurnId : IsLast(u, d)
        BY <1>1, <1>5, <2>1, <3>2 DEF LastExists, There
      <4> QED
        BY <1>7, <1>10, <3>2, <4>1 DEF IsLast
    <3> QED
      BY <3>1, <3>2
  <2>2. ASSUME NEW d \in ConversationId, NEW u \in TurnsOf(d)', NEW v \in TurnsOf(d)',
               turn'[u].sequence = turn'[v].sequence
        PROVE  u = v
    <3>1. CASE d = c
      BY <1>1, <1>2, <1>5, <1>7, <1>11, <2>2, <3>1 DEF LastExists
    <3>2. CASE d # c
      BY <1>1, <1>7, <1>10, <2>2, <3>2 DEF LastExists
    <3> QED
      BY <3>1, <3>2
  <2> QED
    BY <2>1, <2>2 DEF LastExists, There
<1>13. ASSUME NEW u \in TurnId PROVE AttemptsFit(u)'
  <2>1. CASE u = t
    BY <1>1, <1>2, <1>5, <2>1 DEF AttemptsFit, Fits
  <2>2. CASE u # t
    BY <1>1, <1>5, <2>2 DEF AttemptsFit
  <2> QED
    BY <2>1, <2>2
<1>14. OperationsLead'
  <2> SUFFICES ASSUME NEW j \in Key, operation'[j] # NoOperation
               PROVE  LET u == operation'[j].turn IN
                      /\ turn'[u].status \in PendingStatus \cup TerminalStatus
                      /\ operation'[j].fingerprint.after # None =>
                           /\ turn'[operation'[j].fingerprint.after].conversation
                                = turn'[u].conversation
                           /\ turn'[operation'[j].fingerprint.after].sequence + 1
                                = turn'[u].sequence
                           /\ turn'[operation'[j].fingerprint.after].status \in TerminalStatus
    BY DEF OperationsLead
  <2>1. CASE j = k
    <3>1. operation'[j].turn = t /\ operation'[j].fingerprint = f
      BY <1>5, <2>1
    <3>2. turn'[t].status = "queued" /\ turn'[t].conversation = c /\ turn'[t].sequence = n
      BY <1>2, <1>5
    <3>3. f.after # None => turn'[f.after] = turn[f.after] /\ turn[f.after].conversation = c
      BY <1>11 DEF TurnsOf
    <3> QED
      BY <3>1, <3>2, <3>3 DEF PendingStatus
  <2>2. CASE j # k
    <3>1. operation'[j] = operation[j]
      BY <1>5, <2>2
    <3>2. operation[j].turn \in TurnId
          /\ (operation[j].fingerprint.after # None => operation[j].fingerprint.after \in TurnId)
      BY <1>1, <2>2, <3>1 DEF TableTypes, Fingerprint
    <3>3. turn[operation[j].turn].status \in PendingStatus \cup TerminalStatus
          /\ (operation[j].fingerprint.after # None =>
                turn[operation[j].fingerprint.after].status \in TerminalStatus)
      BY <1>1, <3>1 DEF OperationsLead
    <3>4. operation[j].turn # t /\ (operation[j].fingerprint.after # None =>
                                      operation[j].fingerprint.after # t)
      BY <3>3 DEF PendingStatus, TerminalStatus
    <3> QED
      BY <1>1, <1>5, <3>1, <3>2, <3>4 DEF OperationsLead
  <2> QED
    BY <2>1, <2>2
<1>15. \A u \in TurnId \ {t} : u \in Backlog' =>
         Pending(u) /\ turn[u].conversation \in ConversationId \ {c} /\ turn'[u] = turn[u]
  BY <1>1, <1>5 DEF Backlog, Pending, TurnsHaveHomes, TurnsOf
<1>16. \A u \in TurnId \ {t} : u \in Backlog' => u \in Backlog
  BY <1>5, <1>15 DEF Backlog, Live
<1>17. \A u \in TurnId \ {t}, p \in Owner : u \in CallerBacklog(p)' => u \in CallerBacklog(p)
  BY <1>5, <1>15, <1>16 DEF CallerBacklog
<1>18. \A p \in Owner \ {o} : t \notin CallerBacklog(p)'
  BY <1>2, <1>5 DEF CallerBacklog
<1>19. Backlog' \subseteq TurnId /\ \A p \in Owner : CallerBacklog(p)' \subseteq TurnId
  BY DEF Backlog, CallerBacklog
<1>20. TableInv'
  BY <1>6, <1>8, <1>9, <1>12, <1>13, <1>14 DEF TableInv
<1>21. Backlog' \subseteq Backlog \cup {t}
  BY <1>16, <1>19
<1>22. \A p \in Owner :
         CallerBacklog(p)' \subseteq IF p = o THEN CallerBacklog(p) \cup {t} ELSE CallerBacklog(p)
  BY <1>17, <1>18, <1>19
<1> QED
  BY <1>5, <1>7, <1>10, <1>20, <1>21, <1>22

-----------------------------------------------------------------------------
(* What the open transactions know *)

LEMMA SessionTyped ==
  ASSUME SessionTypes, NEW s \in Session, session[s].phase # "idle"
  PROVE  /\ session[s] \in [phase : {"started", "locked", "admitted"}, request : Request]
         /\ session[s].request.fingerprint \in Fingerprint
         /\ RowOf(s) \in ConversationId \cup {None} /\ AfterOf(s) \in TurnId \cup {None}
         /\ KeyOf(s) \in Key /\ KeyOwner[KeyOf(s)] \in Owner
<1>1. session[s] \in [phase : {"started", "locked", "admitted"}, request : Request]
  BY DEF SessionTypes, IdleSession
<1>2. session[s].request \in Request
  BY <1>1
<1> QED
  BY <1>1, <1>2, KeyAssumption DEF Request, Fingerprint, RowOf, AfterOf, KeyOf

\* Where the backlog loses turns, it stays finite and within its limits.
LEMMA BacklogFewer ==
  ASSUME BacklogFinite, Backlog' \subseteq Backlog,
         \A o \in Owner : CallerBacklog(o)' \subseteq CallerBacklog(o)
  PROVE  BacklogFinite' /\ \A o \in Owner : ~BacklogFull(o) => ~BacklogFull(o)'
<1>1. IsFiniteSet(Backlog) /\ IsFiniteSet(Backlog')
      /\ Cardinality(Backlog) \in Nat /\ Cardinality(Backlog') \in Nat
      /\ Cardinality(Backlog') <= Cardinality(Backlog)
  BY FS_Subset, FS_CardinalityType DEF BacklogFinite
<1>2. \A o \in Owner :
        /\ IsFiniteSet(CallerBacklog(o)) /\ IsFiniteSet(CallerBacklog(o)')
        /\ Cardinality(CallerBacklog(o)) \in Nat /\ Cardinality(CallerBacklog(o)') \in Nat
        /\ Cardinality(CallerBacklog(o)') <= Cardinality(CallerBacklog(o))
  <2> SUFFICES ASSUME NEW o \in Owner
      PROVE /\ IsFiniteSet(CallerBacklog(o)) /\ IsFiniteSet(CallerBacklog(o)')
            /\ Cardinality(CallerBacklog(o)) \in Nat /\ Cardinality(CallerBacklog(o)') \in Nat
            /\ Cardinality(CallerBacklog(o)') <= Cardinality(CallerBacklog(o))
    OBVIOUS
  <2>1. CallerBacklog(o) \subseteq Backlog
    BY DEF CallerBacklog
  <2>2. IsFiniteSet(CallerBacklog(o))
    BY <1>1, <2>1, FS_Subset
  <2> QED
    BY <2>2, FS_Subset, FS_CardinalityType
<1>3. GlobalLimit \in Nat /\ CallerLimit \in Nat
  BY LimitAssumption
<1>4. BacklogFinite'
  BY <1>1, <1>2, <1>3 DEF BacklogFinite, BacklogBounded
<1>5. \A o \in Owner : ~BacklogFull(o) => ~BacklogFull(o)'
  BY <1>1, <1>2, <1>3 DEF BacklogFull
<1> QED
  BY <1>4, <1>5

\* A step that touches no locked conversation and uses no key leaves every open
\* transaction with what it knows, and may end some of them.
LEMMA SessionsKeep ==
  ASSUME StoreInv, SessionTypes',
         \A s \in Session : session'[s] = session[s] \/ session'[s] = IdleSession,
         \A d \in ConversationId :
           \/ RowFree(d)
           \/ /\ conversation'[d] = conversation[d] /\ TurnsOf(d)' = TurnsOf(d)
              /\ \A t \in TurnsOf(d) : turn'[t] = turn[t],
         \A k \in Key : operation[k] = NoOperation => operation'[k] = NoOperation,
         \A t \in TurnId : /\ t \in Backlog' => t \in Backlog
                           /\ \A o \in Owner : t \in CallerBacklog(o)' => t \in CallerBacklog(o)
  PROVE  SessionInv' /\ BacklogFinite'
<1>1. BacklogFinite' /\ \A o \in Owner : ~BacklogFull(o) => ~BacklogFull(o)'
  <2>1. Backlog' \subseteq TurnId /\ \A o \in Owner : CallerBacklog(o)' \subseteq TurnId
    BY DEF Backlog, CallerBacklog
  <2>2. Backlog' \subseteq Backlog /\ \A o \in Owner : CallerBacklog(o)' \subseteq CallerBacklog(o)
    BY <2>1
  <2> QED
    BY <2>2, BacklogFewer DEF StoreInv
<1>2. SessionTypes /\ LocksExclude /\ \A s \in Session : SessionKnows(s)
  BY DEF StoreInv, SessionInv
<1>3. \A s \in Session : session'[s].phase # "idle" => session'[s] = session[s]
  BY DEF IdleSession
<1>4. LocksExclude'
  BY <1>2, <1>3 DEF LocksExclude, KeyOf, RowOf
<1>5. ASSUME NEW s \in Session PROVE SessionKnows(s)'
  <2>1. CASE session'[s].phase = "idle"
    BY <2>1 DEF SessionKnows
  <2>2. CASE session'[s].phase # "idle"
    <3>1. session'[s] = session[s] /\ session[s].phase # "idle"
      BY <1>3, <2>2
    <3>2. RowOf(s)' = RowOf(s) /\ AfterOf(s)' = AfterOf(s) /\ KeyOf(s)' = KeyOf(s)
      BY <3>1 DEF RowOf, AfterOf, KeyOf
    <3>3. /\ RowOf(s) \in ConversationId \cup {None} /\ AfterOf(s) \in TurnId \cup {None}
          /\ KeyOf(s) \in Key /\ KeyOwner[KeyOf(s)] \in Owner
      BY <1>2, <3>1, SessionTyped
    <3>4. SessionKnows(s)
      BY <1>2
    <3>5. ASSUME session[s].phase \in {"locked", "admitted"}, RowOf(s) # None
          PROVE  /\ conversation'[RowOf(s)] = conversation[RowOf(s)]
                 /\ TurnsOf(RowOf(s))' = TurnsOf(RowOf(s))
                 /\ \A t \in TurnsOf(RowOf(s)) : turn'[t] = turn[t]
      <4>1. ~RowFree(RowOf(s))
        BY <3>5 DEF RowFree, HoldsRow, RowOf
      <4>2. PICK d \in ConversationId : d = RowOf(s)
        BY <3>3, <3>5
      <4>3. /\ conversation'[d] = conversation[d] /\ TurnsOf(d)' = TurnsOf(d)
            /\ \A t \in TurnsOf(d) : turn'[t] = turn[t]
        BY <4>1, <4>2
      <4>4. TurnsOf(RowOf(s))' = TurnsOf(d)'
        BY <3>2, <4>2 DEF TurnsOf
      <4> QED
        BY <4>2, <4>3, <4>4
    <3>6. session[s].phase \in {"locked", "admitted"} =>
            /\ operation'[KeyOf(s)] = NoOperation
            /\ RowOf(s) # None =>
                 conversation'[RowOf(s)] = [status |-> "ready", owner |-> KeyOwner[KeyOf(s)]]
      BY <3>3, <3>4, <3>5 DEF SessionKnows
    <3>7. ASSUME session[s].phase = "admitted"
          PROVE  ~BacklogFull(KeyOwner[KeyOf(s)])'
      <4>1. ~BacklogFull(KeyOwner[KeyOf(s)])
        BY <3>4, <3>7 DEF SessionKnows
      <4>2. PICK o \in Owner : o = KeyOwner[KeyOf(s)]
        BY <3>3
      <4>3. ~BacklogFull(o)'
        BY <1>1, <4>1, <4>2
      <4> QED
        BY <3>2, <4>2, <4>3 DEF BacklogFull, CallerBacklog
    <3>8. ASSUME session[s].phase = "admitted", RowOf(s) # None
          PROVE  IsLast(AfterOf(s), RowOf(s))' /\ turn'[AfterOf(s)].sequence < MaxTurns
      <4>1. IsLast(AfterOf(s), RowOf(s)) /\ turn[AfterOf(s)].sequence < MaxTurns
        BY <3>4, <3>8 DEF SessionKnows
      <4> QED
        BY <3>2, <3>5, <3>8, <4>1 DEF IsLast
    <3> QED
      BY <3>1, <3>2, <3>4, <3>6, <3>7, <3>8 DEF SessionKnows
  <2> QED
    BY <2>1, <2>2
<1> QED
  BY <1>1, <1>2, <1>4, <1>5 DEF SessionInv

LEMMA EndingTyped ==
  ASSUME SessionTypes, NEW s \in Session, EndSession(s)
  PROVE  SessionTypes' /\ \A u \in Session : session'[u] = session[u] \/ session'[u] = IdleSession
BY DEF SessionTypes, EndSession

\* A step on a conversation nobody has locked.
LEMMA QuietStep ==
  ASSUME StoreInv, NEW c \in ConversationId, RowFree(c), TableInv', Quiet(c),
         UNCHANGED session \/ \E s \in Session : EndSession(s)
  PROVE  StoreInv'
<1>1. SessionTypes' /\ \A u \in Session : session'[u] = session[u] \/ session'[u] = IdleSession
  BY EndingTyped DEF StoreInv, SessionInv, SessionTypes
<1>2. SessionInv' /\ BacklogFinite'
  BY <1>1, SessionsKeep DEF Quiet
<1> QED
  BY <1>2 DEF StoreInv

LEMMA SameTables ==
  ASSUME TableInv, UNCHANGED tables
  PROVE  TableInv'
<1>1. TableTypes' /\ TurnsHaveHomes'
  BY DEF TableInv, TableTypes, TurnsHaveHomes
<1>2. OneActive' /\ LastExists'
  BY DEF TableInv, OneActive, LastExists, IsLast, TurnsOf, Pending
<1>3. \A t \in TurnId : AttemptsFit(t)'
  BY DEF TableInv, AttemptsFit
<1>4. OperationsLead'
  BY DEF TableInv, OperationsLead
<1> QED
  BY <1>1, <1>2, <1>3, <1>4 DEF TableInv

LEMMA SameBacklog ==
  ASSUME UNCHANGED tables
  PROVE  /\ Backlog' = Backlog /\ \A o \in Owner : CallerBacklog(o)' = CallerBacklog(o)
         /\ \A d : TurnsOf(d)' = TurnsOf(d)
BY DEF Backlog, CallerBacklog, Pending, Live, TurnsOf

\* A transaction ends, having changed nothing.
LEMMA LeaveStep ==
  ASSUME StoreInv, UNCHANGED tables, UNCHANGED session \/ \E s \in Session : EndSession(s)
  PROVE  StoreInv'
<1>1. SessionTypes' /\ \A u \in Session : session'[u] = session[u] \/ session'[u] = IdleSession
  BY EndingTyped DEF StoreInv, SessionInv, SessionTypes
<1>2. SessionInv' /\ BacklogFinite'
  BY <1>1, SameBacklog, SessionsKeep
<1> QED
  BY <1>2, SameTables DEF StoreInv

\* A transaction goes on, having changed nothing.
LEMMA EnterStep ==
  ASSUME StoreInv, UNCHANGED tables, NEW s \in Session,
         NEW x \in [phase : {"started", "locked", "admitted"}, request : Request],
         session' = [session EXCEPT ![s] = x],
         SessionKnows(s)',
         \A u \in Session \ {s} : session[u].phase # "idle" =>
           /\ KeyOf(u) # x.request.key
           /\ ~(session[u].phase = "admitted" /\ x.phase = "admitted")
           /\ session[u].phase \in {"locked", "admitted"} /\ x.phase \in {"locked", "admitted"}
                /\ RowOf(u) # None => RowOf(u) # x.request.fingerprint.conversation
  PROVE  StoreInv'
<1>1. SessionTypes /\ LocksExclude /\ \A u \in Session : SessionKnows(u)
  BY DEF StoreInv, SessionInv
<1>2. SessionTypes' /\ session'[s] = x /\ \A u \in Session \ {s} : session'[u] = session[u]
  BY <1>1 DEF SessionTypes
<1>3. LocksExclude'
  <2> SUFFICES ASSUME NEW u \in Session, NEW v \in Session, u # v
               PROVE /\ session'[u].phase # "idle" /\ session'[v].phase # "idle" =>
                          session'[u].request.key # session'[v].request.key
                     /\ ~(session'[u].phase = "admitted" /\ session'[v].phase = "admitted")
                     /\ session'[u].phase \in {"locked", "admitted"}
                          /\ session'[v].phase \in {"locked", "admitted"}
                          /\ session'[u].request.fingerprint.conversation # None =>
                          session'[u].request.fingerprint.conversation
                            # session'[v].request.fingerprint.conversation
    BY DEF LocksExclude, KeyOf, RowOf
  <2>1. CASE u = s
    BY <1>2, <2>1 DEF KeyOf, RowOf
  <2>2. CASE v = s
    BY <1>2, <2>2 DEF KeyOf, RowOf
  <2>3. CASE u # s /\ v # s
    BY <1>1, <1>2, <2>3 DEF LocksExclude, KeyOf, RowOf
  <2> QED
    BY <2>1, <2>2, <2>3
<1>4. ASSUME NEW u \in Session \ {s} PROVE SessionKnows(u)'
  <2>1. session'[u] = session[u] /\ SessionKnows(u)
    BY <1>1, <1>2
  <2>2. RowOf(u)' = RowOf(u) /\ AfterOf(u)' = AfterOf(u) /\ KeyOf(u)' = KeyOf(u)
    BY <2>1 DEF RowOf, AfterOf, KeyOf
  <2>3. BacklogFull(KeyOwner[KeyOf(u)])' <=> BacklogFull(KeyOwner[KeyOf(u)])
    BY <2>2 DEF BacklogFull, CallerBacklog, Backlog, Pending, Live
  <2>4. IsLast(AfterOf(u), RowOf(u))' <=> IsLast(AfterOf(u), RowOf(u))
    BY <2>2 DEF IsLast, TurnsOf
  <2> QED
    BY <2>1, <2>2, <2>3, <2>4 DEF SessionKnows
<1>5. BacklogFinite'
  BY SameBacklog DEF StoreInv, BacklogFinite, BacklogBounded
<1> QED
  BY <1>2, <1>3, <1>4, <1>5, SameTables DEF StoreInv, SessionInv

LEMMA StartStep ==
  ASSUME StoreInv, NEW s \in Session, NEW q \in Request, Start(s, q)
  PROVE  StoreInv'
<1> DEFINE x == [phase |-> "started", request |-> q]
<1>1. SessionTypes /\ x \in [phase : {"started", "locked", "admitted"}, request : Request]
      /\ session' = [session EXCEPT ![s] = x] /\ UNCHANGED tables
  BY DEF StoreInv, SessionInv, Start
<1>2. \A u \in Session \ {s} : session[u].phase # "idle" => KeyOf(u) # x.request.key
  BY DEF Start, OperationLockFree, KeyOf
<1>3. session'[s] = x
  BY <1>1 DEF SessionTypes
<1>4. RowOf(s)' = None <=> AfterOf(s)' = None
  BY <1>3, NoneAssumption DEF Start, IsRequest, TurnsOf, RowOf, AfterOf
<1>5. SessionKnows(s)'
  BY <1>3, <1>4 DEF SessionKnows
<1> QED
  BY <1>1, <1>2, <1>5, EnterStep

\* The same for a phase a transaction goes on to.
LEMMA PhaseStep ==
  ASSUME StoreInv, UNCHANGED tables, NEW s \in Session, session[s].phase # "idle",
         NEW phase \in {"locked", "admitted"}, EnterPhase(s, phase),
         RowOf(s) = None => phase = "admitted",
         operation[KeyOf(s)] = NoOperation,
         RowOf(s) # None =>
           /\ conversation[RowOf(s)] = [status |-> "ready", owner |-> KeyOwner[KeyOf(s)]]
           /\ session[s].phase # "started" \/ RowFree(RowOf(s)),
         phase = "admitted" =>
           /\ AdmissionLockFree /\ ~BacklogFull(KeyOwner[KeyOf(s)])
           /\ RowOf(s) # None =>
                IsLast(AfterOf(s), RowOf(s)) /\ turn[AfterOf(s)].sequence < MaxTurns
  PROVE  StoreInv'
<1> DEFINE x == [session[s] EXCEPT !.phase = phase]
<1>1. SessionTypes /\ LocksExclude /\ SessionKnows(s)
  BY DEF StoreInv, SessionInv
<1>2. /\ session[s] \in [phase : {"started", "locked", "admitted"}, request : Request]
      /\ RowOf(s) \in ConversationId \cup {None} /\ KeyOf(s) \in Key
  BY <1>1, SessionTyped
<1>3. x \in [phase : {"started", "locked", "admitted"}, request : Request]
      /\ x.phase = phase /\ x.request = session[s].request
  BY <1>2
<1>4. session' = [session EXCEPT ![s] = x] /\ session'[s] = x
  BY <1>1 DEF EnterPhase, SessionTypes
<1> HIDE DEF x
<1>5. RowOf(s)' = RowOf(s) /\ AfterOf(s)' = AfterOf(s) /\ KeyOf(s)' = KeyOf(s)
      /\ session'[s].phase = phase
  BY <1>3, <1>4 DEF RowOf, AfterOf, KeyOf
<1>6. SessionKnows(s)'
  <2>1. RowOf(s) = None <=> AfterOf(s) = None
    BY <1>1 DEF SessionKnows
  <2>2. phase = "admitted" => ~BacklogFull(KeyOwner[KeyOf(s)])'
    BY <1>5 DEF BacklogFull, CallerBacklog, Backlog, Pending, Live
  <2>3. phase = "admitted" /\ RowOf(s) # None =>
          IsLast(AfterOf(s), RowOf(s))' /\ turn'[AfterOf(s)].sequence < MaxTurns
    BY <1>5 DEF IsLast, TurnsOf
  <2> QED
    BY <1>5, <2>1, <2>2, <2>3 DEF SessionKnows
<1>7. ASSUME NEW u \in Session \ {s}, session[u].phase # "idle"
      PROVE  /\ KeyOf(u) # x.request.key
             /\ ~(session[u].phase = "admitted" /\ x.phase = "admitted")
             /\ session[u].phase \in {"locked", "admitted"} /\ x.phase \in {"locked", "admitted"}
                  /\ RowOf(u) # None => RowOf(u) # x.request.fingerprint.conversation
  <2>1. KeyOf(u) # KeyOf(s)
    BY <1>1, <1>7 DEF LocksExclude
  <2>2. ~(session[u].phase = "admitted" /\ phase = "admitted")
    BY DEF AdmissionLockFree
  <2>3. session[u].phase \in {"locked", "admitted"} /\ RowOf(u) # None => RowOf(u) # RowOf(s)
    <3>1. CASE session[s].phase = "started" /\ RowOf(s) # None
      BY <3>1 DEF RowFree, HoldsRow, RowOf
    <3>2. CASE session[s].phase # "started"
      <4>1. session[s].phase \in {"locked", "admitted"}
        BY <1>2, <3>2
      <4> QED
        BY <1>1, <1>7, <4>1 DEF LocksExclude
    <3> QED
      BY <3>1, <3>2
  <2> QED
    BY <1>3, <2>1, <2>2, <2>3 DEF KeyOf, RowOf
<1> QED
  BY <1>3, <1>4, <1>6, <1>7, EnterStep

-----------------------------------------------------------------------------
(* Every action keeps the invariant *)

\* Expiring a conversation is fencing it.
LEMMA ExpireTables ==
  ASSUME TableInv, NEW c \in ConversationId, ExpireIfDue(c)
  PROVE  TableInv' /\ Quiet(c)
BY FenceTables DEF ExpireIfDue, FencedStatus

\* The admitted transaction inserts, and ends.
LEMMA InsertStep ==
  ASSUME StoreInv, NEW s \in Session, session[s].phase = "admitted", EndSession(s),
         NEW t \in TurnId, NEW c \in ConversationId, NEW n \in 1..MaxTurns,
         RowOf(s) # None => c = RowOf(s),
         RowOf(s) = None => conversation[c].status = "absent",
         FitsAfter(c, n, AfterOf(s)), InsertTurn(s, t, c, n),
         conversation' = [conversation EXCEPT ![c] =
                            [status |-> "busy", owner |-> KeyOwner[KeyOf(s)]]],
         due' \in [ConversationId -> BOOLEAN]
  PROVE  StoreInv'
<1> DEFINE f == session[s].request.fingerprint  k == KeyOf(s)  o == KeyOwner[k]
<1>1. /\ TableInv /\ BacklogFinite /\ SessionTypes /\ LocksExclude
      /\ \A u \in Session : SessionKnows(u)
  BY DEF StoreInv, SessionInv
<1>2. f \in Fingerprint /\ k \in Key /\ o \in Owner /\ AfterOf(s) = f.after
  BY <1>1, SessionTyped DEF AfterOf
<1>3. Inserted(t, c, n, k, f, o) /\ FitsAfter(c, n, f.after)
  BY <1>2 DEF InsertTurn, KeyOf, Inserted
<1> HIDE DEF f, k, o
<1>4. /\ TableInv'
      /\ \A d \in ConversationId \ {c} :
           /\ conversation'[d] = conversation[d] /\ TurnsOf(d)' = TurnsOf(d)
           /\ \A u \in TurnsOf(d) : turn'[u] = turn[u]
      /\ \A j \in Key \ {k} : operation'[j] = operation[j]
      /\ Backlog' \subseteq Backlog \cup {t}
      /\ \A p \in Owner :
           CallerBacklog(p)' \subseteq IF p = o THEN CallerBacklog(p) \cup {t} ELSE CallerBacklog(p)
  BY <1>1, <1>2, <1>3, InsertTables
<1>5. SessionTypes' /\ session'[s] = IdleSession /\ \A u \in Session \ {s} : session'[u] = session[u]
  BY <1>1 DEF SessionTypes, EndSession
<1>6. LocksExclude'
  <2>1. \A u \in Session : session'[u].phase # "idle" => session'[u] = session[u]
    BY <1>5 DEF IdleSession
  <2> QED
    BY <1>1, <2>1 DEF LocksExclude, KeyOf, RowOf
<1>7. ASSUME NEW u \in Session PROVE SessionKnows(u)'
  <2>1. CASE u = s
    BY <1>5, <2>1 DEF SessionKnows, IdleSession
  <2>2. CASE u # s
    <3>1. session'[u] = session[u] /\ SessionKnows(u) /\ session[u].phase # "admitted"
      BY <1>1, <1>5, <2>2 DEF LocksExclude
    <3>2. RowOf(u)' = RowOf(u) /\ AfterOf(u)' = AfterOf(u) /\ KeyOf(u)' = KeyOf(u)
      BY <3>1 DEF RowOf, AfterOf, KeyOf
    <3>3. ASSUME session[u].phase = "locked"
          PROVE  /\ operation'[KeyOf(u)] = NoOperation
                 /\ RowOf(u) # None => conversation'[RowOf(u)] = conversation[RowOf(u)]
      <4>1. KeyOf(u) \in Key \ {k} /\ RowOf(u) \in ConversationId \cup {None}
        BY <1>1, <2>2, <3>3, SessionTyped DEF LocksExclude, k
      <4>2. RowOf(u) # None => RowOf(u) # c
        <5>1. CASE RowOf(s) = None
          <6>1. RowOf(u) # None => conversation[RowOf(u)].status = "ready"
            BY <3>1, <3>3 DEF SessionKnows
          <6> QED
            BY <5>1, <6>1
        <5>2. CASE RowOf(s) # None
          BY <1>1, <2>2, <3>3, <5>2 DEF LocksExclude
        <5> QED
          BY <5>1, <5>2
      <4> QED
        BY <1>4, <3>1, <3>3, <4>1, <4>2 DEF SessionKnows
    <3> QED
      BY <3>1, <3>2, <3>3 DEF SessionKnows
  <2> QED
    BY <2>1, <2>2
<1>8. BacklogFinite'
  <2>1. ~BacklogFull(o)
    BY <1>1 DEF SessionKnows, o, k
  <2>2. GlobalLimit \in Nat /\ CallerLimit \in Nat
    BY LimitAssumption
  <2>3. IsFiniteSet(Backlog') /\ Cardinality(Backlog') <= GlobalLimit
    <3>1. IsFiniteSet(Backlog) /\ Cardinality(Backlog) < GlobalLimit /\ Cardinality(Backlog) \in Nat
      BY <1>1, <2>1, <2>2, FS_CardinalityType DEF BacklogFinite, BacklogFull
    <3>2. IsFiniteSet(Backlog \cup {t}) /\ Cardinality(Backlog \cup {t}) <= Cardinality(Backlog) + 1
          /\ Cardinality(Backlog \cup {t}) \in Nat
      <4>1. IsFiniteSet(Backlog \cup {t})
            /\ Cardinality(Backlog \cup {t}) =
                 IF t \in Backlog THEN Cardinality(Backlog) ELSE Cardinality(Backlog) + 1
        BY <3>1, FS_AddElement
      <4> QED
        BY <3>1, <4>1
    <3>3. IsFiniteSet(Backlog') /\ Cardinality(Backlog') <= Cardinality(Backlog \cup {t})
          /\ Cardinality(Backlog') \in Nat
      BY <1>4, <3>2, FS_Subset, FS_CardinalityType
    <3> QED
      BY <2>2, <3>1, <3>2, <3>3
  <2>4. ASSUME NEW p \in Owner PROVE Cardinality(CallerBacklog(p)') <= CallerLimit
    <3>1. CallerBacklog(p) \subseteq Backlog
      BY DEF CallerBacklog
    <3>2. IsFiniteSet(CallerBacklog(p)) /\ Cardinality(CallerBacklog(p)) \in Nat
          /\ Cardinality(CallerBacklog(p)) <= CallerLimit
      BY <1>1, <3>1, FS_Subset, FS_CardinalityType DEF BacklogFinite, BacklogBounded
    <3>3. CASE p # o
      <4>1. CallerBacklog(p)' \subseteq CallerBacklog(p)
        BY <1>4, <3>3
      <4>2. Cardinality(CallerBacklog(p)') <= Cardinality(CallerBacklog(p))
            /\ Cardinality(CallerBacklog(p)') \in Nat
        BY <3>2, <4>1, FS_Subset, FS_CardinalityType
      <4> QED
        BY <2>2, <3>2, <4>2
    <3>4. CASE p = o
      <4>1. CallerBacklog(p)' \subseteq CallerBacklog(p) \cup {t}
        BY <1>4, <3>4
      <4>2. Cardinality(CallerBacklog(p)) < CallerLimit
        BY <2>1, <2>2, <3>2, <3>4 DEF BacklogFull
      <4>3. IsFiniteSet(CallerBacklog(p) \cup {t})
            /\ Cardinality(CallerBacklog(p) \cup {t}) <= Cardinality(CallerBacklog(p)) + 1
            /\ Cardinality(CallerBacklog(p) \cup {t}) \in Nat
        <5>1. IsFiniteSet(CallerBacklog(p) \cup {t})
              /\ Cardinality(CallerBacklog(p) \cup {t}) =
                   IF t \in CallerBacklog(p) THEN Cardinality(CallerBacklog(p))
                   ELSE Cardinality(CallerBacklog(p)) + 1
          BY <3>2, FS_AddElement
        <5> QED
          BY <3>2, <5>1
      <4>4. Cardinality(CallerBacklog(p)') <= Cardinality(CallerBacklog(p) \cup {t})
            /\ Cardinality(CallerBacklog(p)') \in Nat
        BY <4>1, <4>3, FS_Subset, FS_CardinalityType
      <4> QED
        BY <2>2, <3>2, <4>2, <4>3, <4>4
    <3> QED
      BY <3>3, <3>4
  <2> QED
    BY <2>3, <2>4 DEF BacklogFinite, BacklogBounded
<1> QED
  BY <1>4, <1>5, <1>6, <1>7, <1>8 DEF StoreInv, SessionInv

LEMMA OpenStep ==
  ASSUME StoreInv, NEW s \in Session, NEW c \in ConversationId, NEW t \in TurnId,
         OpenConversation(s, c, t)
  PROVE  StoreInv'
<1>1. TableTypes /\ TurnsHaveHomes /\ SessionTypes /\ SessionKnows(s)
  BY DEF StoreInv, TableInv, SessionInv
<1>2. session[s].phase = "admitted" /\ RowOf(s) = None /\ AfterOf(s) = None
      /\ conversation[c].status = "absent"
  BY <1>1 DEF OpenConversation, RowOf, SessionKnows
<1>3. TurnsOf(c) = {}
  <2> SUFFICES ASSUME NEW u \in TurnsOf(c) PROVE FALSE
    OBVIOUS
  <2>1. u \in TurnId /\ turn[u].conversation = c /\ turn[u] \in TurnRow /\ c # None
    BY <1>1, NoneAssumption DEF TurnsOf, TableTypes
  <2>2. turn[u].status \notin {"absent", "deleted"}
    BY <1>1, <2>1 DEF TurnsHaveHomes
  <2>3. turn[u].status \in PendingStatus \cup TerminalStatus
    BY <2>1, <2>2 DEF TurnRow
  <2>4. conversation[c].status \in LiveStatus \cup FencedStatus
    BY <1>1, <2>1, <2>3 DEF TurnsHaveHomes
  <2> QED
    BY <1>2, <2>4 DEF LiveStatus, FencedStatus
<1>4. 1 \in 1..MaxTurns
  BY LimitAssumption
<1>5. /\ EndSession(s) /\ turn[t].status = "absent" /\ InsertTurn(s, t, c, 1)
      /\ conversation' = [conversation EXCEPT ![c] =
                            [status |-> "busy", owner |-> KeyOwner[KeyOf(s)]]]
      /\ due' \in [ConversationId -> BOOLEAN] /\ FitsAfter(c, 1, AfterOf(s))
  BY <1>1, <1>2, <1>3 DEF OpenConversation, InsertTurn, KeyOf, TableTypes, FitsAfter
<1> QED
  BY <1>2, <1>3, <1>4, <1>5, InsertStep

LEMMA ContinueStep ==
  ASSUME StoreInv, NEW s \in Session, NEW t \in TurnId, ContinueConversation(s, t)
  PROVE  StoreInv'
<1> DEFINE c == RowOf(s)  after == AfterOf(s)  n == turn[Last(c)].sequence + 1
<1>1. TableInv /\ TableTypes /\ TurnsHaveHomes /\ OneActive /\ LastExists
      /\ SessionTypes /\ SessionKnows(s)
  BY DEF StoreInv, TableInv, SessionInv
<1>2. session[s].phase = "admitted" /\ c # None /\ c \in ConversationId
      /\ conversation[c] = [status |-> "ready", owner |-> KeyOwner[KeyOf(s)]]
      /\ IsLast(after, c) /\ turn[after].sequence < MaxTurns
  BY <1>1, SessionTyped DEF ContinueConversation, RowOf, SessionKnows
<1>3. after = Last(c)
  <2>1. IsLast(Last(c), c)
    BY <1>1, <1>2, LastIsLast DEF LiveStatus
  <2> QED
    BY <1>1, <1>2, <2>1, LastIsOne
<1>4. \A u \in TurnsOf(c) : /\ ~Pending(u) /\ turn[u].status \in TerminalStatus
                            /\ turn[u].sequence \in Nat /\ u \in TurnId
  <2> SUFFICES ASSUME NEW u \in TurnsOf(c)
               PROVE  /\ ~Pending(u) /\ turn[u].status \in TerminalStatus
                      /\ turn[u].sequence \in Nat /\ u \in TurnId
    OBVIOUS
  <2>1. u \in TurnId /\ turn[u] \in TurnRow /\ turn[u].conversation = c
    BY <1>1 DEF TurnsOf, TableTypes
  <2>2. ~Pending(u)
    BY <1>1, <1>2, <2>1 DEF TurnsHaveHomes, Pending
  <2>3. turn[u].status \notin {"absent", "deleted"}
    BY <1>1, <1>2, <2>1 DEF TurnsHaveHomes
  <2>4. turn[u].sequence \in Nat
    BY <2>1, LimitAssumption DEF TurnRow
  <2> QED
    BY <2>1, <2>2, <2>3, <2>4 DEF TurnRow, Pending
<1>5. after \in TurnsOf(c) /\ \A u \in TurnsOf(c) : turn[u].sequence <= turn[after].sequence
  BY <1>2 DEF IsLast
<1>6. n \in 1..MaxTurns /\ n = turn[after].sequence + 1 /\ \A u \in TurnsOf(c) : turn[u].sequence < n
  BY <1>2, <1>3, <1>4, <1>5, LimitAssumption
<1>7. InsertTurn(s, t, c, n) /\ EndSession(s) /\ turn[t].status = "absent"
      /\ due' \in [ConversationId -> BOOLEAN]
  BY <1>1 DEF ContinueConversation, InsertTurn, RowOf, TableTypes
<1>10. FitsAfter(c, n, after)
  BY <1>4, <1>5, <1>6 DEF FitsAfter
<1>8. conversation' = [conversation EXCEPT ![c] =
                         [status |-> "busy", owner |-> KeyOwner[KeyOf(s)]]]
  <2>1. conversation' = [conversation EXCEPT ![c].status = "busy"]
    BY DEF ContinueConversation, RowOf
  <2>2. [conversation[c] EXCEPT !.status = "busy"] = [status |-> "busy", owner |-> KeyOwner[KeyOf(s)]]
    BY <1>2
  <2>3. conversation' = [conversation EXCEPT ![c] = [conversation[c] EXCEPT !.status = "busy"]]
    BY <2>1
  <2> QED
    BY <2>2, <2>3
<1> HIDE DEF c, after, n
<1>9. c = RowOf(s) /\ after = AfterOf(s)
  BY DEF c, after
<1> QED
  BY <1>2, <1>6, <1>7, <1>8, <1>9, <1>10, InsertStep

LEMMA AnswerStep ==
  ASSUME StoreInv, NEW s \in Session, AnswerKnownKey(s)
  PROVE  StoreInv'
<1> DEFINE q == session[s].request  known == operation[q.key]  c == turn[known.turn].conversation
<1>1. /\ TableInv /\ TableTypes /\ TurnsHaveHomes /\ OperationsLead /\ SessionTypes
      /\ session[s].phase # "idle" /\ known # NoOperation /\ EndSession(s)
  BY DEF StoreInv, TableInv, SessionInv, AnswerKnownKey
<1>2. c \in ConversationId
  <2>1. q.key \in Key
    BY <1>1, SessionTyped DEF KeyOf
  <2>2. known.turn \in TurnId /\ turn[known.turn].status \in PendingStatus \cup TerminalStatus
    BY <1>1, <2>1 DEF TableTypes, OperationsLead
  <2> QED
    BY <1>1, <2>2 DEF TurnsHaveHomes
<1>3. UNCHANGED tables \/ (RowFree(c) /\ ExpireIfDue(c))
  BY DEF AnswerKnownKey
<1> HIDE DEF q, known, c
<1>4. CASE UNCHANGED tables
  BY <1>1, <1>4, LeaveStep
<1>5. CASE RowFree(c) /\ ExpireIfDue(c)
  <2>1. TableInv' /\ Quiet(c)
    BY <1>1, <1>2, <1>5, ExpireTables
  <2> QED
    BY <1>1, <1>2, <1>5, <2>1, QuietStep
<1> QED
  BY <1>3, <1>4, <1>5

LEMMA LockStep ==
  ASSUME StoreInv, NEW s \in Session, LockConversation(s)
  PROVE  StoreInv'
<1> DEFINE c == RowOf(s)
<1>1. /\ TableInv /\ SessionTypes /\ session[s].phase = "started" /\ c # None /\ RowFree(c)
      /\ operation[KeyOf(s)] = NoOperation
  BY DEF StoreInv, SessionInv, LockConversation, RowOf, KeyOf
<1>2. c \in ConversationId
  BY <1>1, SessionTyped
<1>3. \/ /\ conversation[c] = [status |-> "ready", owner |-> KeyOwner[KeyOf(s)]]
         /\ EnterPhase(s, "locked") /\ UNCHANGED tables
      \/ EndSession(s) /\ (ExpireIfDue(c) \/ UNCHANGED tables)
  BY DEF LockConversation, RowOf, KeyOf
<1> HIDE DEF c
<1>4. CASE /\ conversation[c] = [status |-> "ready", owner |-> KeyOwner[KeyOf(s)]]
           /\ EnterPhase(s, "locked") /\ UNCHANGED tables
  <2>1. c = RowOf(s) /\ session[s].phase # "idle"
    BY <1>1 DEF c
  <2> QED
    BY <1>1, <1>4, <2>1, PhaseStep
<1>5. CASE EndSession(s) /\ UNCHANGED tables
  BY <1>5, LeaveStep
<1>6. CASE EndSession(s) /\ ExpireIfDue(c)
  <2>1. TableInv' /\ Quiet(c)
    BY <1>1, <1>2, <1>6, ExpireTables
  <2> QED
    BY <1>1, <1>2, <1>6, <2>1, QuietStep
<1> QED
  BY <1>3, <1>4, <1>5, <1>6

LEMMA AdmitStep ==
  ASSUME StoreInv, NEW s \in Session, Admit(s)
  PROVE  StoreInv'
<1>1. /\ SessionTypes /\ SessionKnows(s) /\ UNCHANGED tables /\ LastExists
      /\ \/ session[s].phase = "locked"
         \/ session[s].phase = "started" /\ RowOf(s) = None /\ operation[KeyOf(s)] = NoOperation
      /\ AdmissionLockFree
  BY DEF StoreInv, SessionInv, TableInv, Admit, RowOf, KeyOf
<1>2. \/ EndSession(s)
      \/ /\ EnterPhase(s, "admitted")
         /\ ~BacklogFull(KeyOwner[KeyOf(s)])
         /\ RowOf(s) # None => AfterOf(s) = Last(RowOf(s)) /\ turn[AfterOf(s)].sequence < MaxTurns
  BY DEF Admit, FollowsLast, RowOf, KeyOf, AfterOf
<1>3. /\ session[s].phase # "idle" /\ operation[KeyOf(s)] = NoOperation
      /\ RowOf(s) # None =>
           /\ conversation[RowOf(s)] = [status |-> "ready", owner |-> KeyOwner[KeyOf(s)]]
           /\ session[s].phase # "started" /\ RowOf(s) \in ConversationId
  BY <1>1, SessionTyped DEF SessionKnows
<1>4. CASE EndSession(s)
  BY <1>1, <1>4, LeaveStep
<1>5. CASE /\ EnterPhase(s, "admitted")
           /\ ~BacklogFull(KeyOwner[KeyOf(s)])
           /\ RowOf(s) # None => AfterOf(s) = Last(RowOf(s)) /\ turn[AfterOf(s)].sequence < MaxTurns
  <2>1. RowOf(s) # None => IsLast(AfterOf(s), RowOf(s)) /\ turn[AfterOf(s)].sequence < MaxTurns
    <3>1. RowOf(s) # None => conversation[RowOf(s)].status \in LiveStatus \cup FencedStatus
      BY <1>3 DEF LiveStatus
    <3> QED
      BY <1>1, <1>3, <1>5, <3>1, LastIsLast
  <2> QED
    BY <1>1, <1>3, <1>5, <2>1, PhaseStep
<1> QED
  BY <1>2, <1>4, <1>5

\* A read, a deletion or a sweep of one conversation.
LEMMA RowStep ==
  ASSUME StoreInv, NEW c \in ConversationId, Read(c) \/ Delete(c) \/ CleanUp(c)
  PROVE  StoreInv'
<1>1. TableInv /\ RowFree(c) /\ UNCHANGED session
  BY DEF StoreInv, Read, Delete, CleanUp
<1>2. TableInv' /\ Quiet(c)
  <2>1. CASE ExpireIfDue(c)
    BY <1>1, <2>1, ExpireTables
  <2>2. CASE Live(c) /\ Fence(c, "deleting")
    BY <1>1, <2>2, FenceTables DEF FencedStatus
  <2>3. CASE conversation[c].status \in FencedStatus /\ Purge(c)
    BY <1>1, <2>3, PurgeTables
  <2> QED
    BY <2>1, <2>2, <2>3 DEF Read, Delete, CleanUp
<1> QED
  BY <1>1, <1>2, QuietStep

\* A call of a worker, whatever it does to a turn it finds as it expects.
LEMMA CallStep ==
  ASSUME StoreInv, NEW t \in TurnId,
         LET c == turn[t].conversation IN
         /\ c # None /\ RowFree(c) /\ UNCHANGED session
         /\ ExpireIfDue(c) \/ (TableInv' /\ Quiet(c))
  PROVE  StoreInv'
<1> DEFINE c == turn[t].conversation
<1>1. TableInv /\ c \in ConversationId
  BY DEF StoreInv, TableInv, TableTypes, TurnRow
<1> HIDE DEF c
<1>2. TableInv' /\ Quiet(c)
  BY <1>1, ExpireTables DEF c
<1>3. RowFree(c) /\ UNCHANGED session
  BY DEF c
<1> QED
  BY <1>1, <1>2, <1>3, QuietStep

LEMMA ClaimStep ==
  ASSUME StoreInv, NEW t \in TurnId, Claim(t)
  PROVE  StoreInv'
<1>1. StartAttempt(t) => TableInv' /\ Quiet(turn[t].conversation)
  BY StartTables DEF StoreInv
<1> QED
  BY <1>1, CallStep DEF Claim, WithTurn

LEMMA ReleaseStep ==
  ASSUME StoreInv, NEW t \in TurnId, NEW token, ReleaseClaim(t, token)
  PROVE  StoreInv'
<1>1. GiveBack(t, token) => TableInv' /\ Quiet(turn[t].conversation)
  BY GiveBackTables DEF StoreInv
<1> QED
  BY <1>1, CallStep DEF ReleaseClaim, WithTurn

LEMMA CompleteStep ==
  ASSUME StoreInv, NEW t \in TurnId, NEW token, NEW st \in TerminalStatus, NEW error \in ErrorCode,
         (error # None) <=> (st = "failed"), CompleteClaim(t, token, st, error)
  PROVE  StoreInv'
<1>1. Finish(t, token, st, error) => TableInv' /\ Quiet(turn[t].conversation)
  BY FinishTables DEF StoreInv
<1> QED
  BY <1>1, CallStep DEF CompleteClaim, WithTurn

\* Time changes nothing the invariant is about.
LEMMA TimeStep ==
  ASSUME StoreInv, Passing
  PROVE  StoreInv'
<1>1. /\ UNCHANGED <<conversation, turn, attempts, operation, outbox, invocation, session>>
      /\ due' \in [ConversationId -> BOOLEAN] /\ leaseOver' \in [TurnId -> BOOLEAN]
  BY DEF StoreInv, TableInv, TableTypes, Passing, DeadlinePasses, LeaseEnds
<1>2. TableInv'
  <2>1. TableTypes' /\ TurnsHaveHomes'
    BY <1>1 DEF StoreInv, TableInv, TableTypes, TurnsHaveHomes
  <2>2. OneActive' /\ LastExists'
    BY <1>1 DEF StoreInv, TableInv, OneActive, LastExists, IsLast, TurnsOf, Pending
  <2>3. \A t \in TurnId : AttemptsFit(t)'
    BY <1>1 DEF StoreInv, TableInv, AttemptsFit
  <2>4. OperationsLead'
    BY <1>1 DEF StoreInv, TableInv, OperationsLead
  <2> QED
    BY <2>1, <2>2, <2>3, <2>4 DEF TableInv
<1>3. SessionTypes'
  BY <1>1 DEF StoreInv, SessionInv, SessionTypes
<1>4. /\ Backlog' = Backlog /\ \A o \in Owner : CallerBacklog(o)' = CallerBacklog(o)
      /\ \A d : TurnsOf(d)' = TurnsOf(d)
  BY <1>1 DEF Backlog, CallerBacklog, Pending, Live, TurnsOf
<1>5. SessionInv' /\ BacklogFinite'
  BY <1>1, <1>3, <1>4, SessionsKeep
<1> QED
  BY <1>2, <1>5 DEF StoreInv

-----------------------------------------------------------------------------
(* The theorems *)

LEMMA InvInit == Init => StoreInv
<1> SUFFICES ASSUME Init PROVE StoreInv
  OBVIOUS
<1>1. TableTypes
  <2>1. <<>> \in Seq(AttemptStatus)
    BY EmptySeq
  <2> QED
    BY <2>1, RowTypes DEF Init, TableTypes
<1>2. TurnsHaveHomes
  BY DEF Init, TurnsHaveHomes, NoTurn, PendingStatus, TerminalStatus
<1>3. OneActive /\ LastExists
  <2>1. \A c \in ConversationId : TurnsOf(c) = {}
    BY NoneAssumption DEF Init, TurnsOf, NoTurn
  <2> QED
    BY <2>1 DEF Init, OneActive, LastExists, NoTurn, NoConversation, Pending, PendingStatus,
                LiveStatus, FencedStatus
<1>4. \A t \in TurnId : AttemptsFit(t)
  <2>1. Len(<<>>) = 0 /\ AttemptBound \in Nat
    BY LimitAssumption
  <2> QED
    BY <2>1 DEF Init, AttemptsFit, Fits, NoTurn
<1>5. OperationsLead
  BY DEF Init, OperationsLead
<1>6. BacklogFinite
  <2>1. Backlog = {} /\ \A o \in Owner : CallerBacklog(o) = {}
    BY DEF Init, Backlog, CallerBacklog, Pending, NoTurn, PendingStatus
  <2> QED
    BY <2>1, FS_EmptySet, LimitAssumption DEF BacklogFinite, BacklogBounded
<1>7. SessionInv
  BY DEF Init, SessionInv, SessionTypes, LocksExclude, SessionKnows, IdleSession
<1> QED
  BY <1>1, <1>2, <1>3, <1>4, <1>5, <1>6, <1>7 DEF StoreInv, TableInv

LEMMA InvNext == StoreInv /\ [Next]_storeVars => StoreInv'
<1> SUFFICES ASSUME StoreInv, [Next]_storeVars PROVE StoreInv'
  OBVIOUS
<1>1. ASSUME NEW s \in Session, AnswerKnownKey(s) PROVE StoreInv'
  BY <1>1, AnswerStep
<1>2. ASSUME NEW s \in Session, NEW q \in Request, Start(s, q) PROVE StoreInv'
  BY <1>2, StartStep
<1>3. ASSUME NEW s \in Session, LockConversation(s) PROVE StoreInv'
  BY <1>3, LockStep
<1>4. ASSUME NEW s \in Session, Admit(s) PROVE StoreInv'
  BY <1>4, AdmitStep
<1>5. ASSUME NEW s \in Session, NEW t \in TurnId, ContinueConversation(s, t) PROVE StoreInv'
  BY <1>5, ContinueStep
<1>6. ASSUME NEW s \in Session, NEW t \in TurnId, NEW c \in ConversationId,
             OpenConversation(s, c, t)
      PROVE  StoreInv'
  BY <1>6, OpenStep
<1>7. ASSUME NEW c \in ConversationId, Read(c) \/ Delete(c) \/ CleanUp(c) PROVE StoreInv'
  BY <1>7, RowStep
<1>8. CASE WorkerCall
  <2>1. ASSUME NEW t \in TurnId, Claim(t) PROVE StoreInv'
    BY <2>1, ClaimStep
  <2>2. ASSUME NEW t \in TurnId, NEW token \in 1..AttemptBound, ReleaseClaim(t, token)
        PROVE  StoreInv'
    BY <2>2, ReleaseStep
  <2>3. ASSUME NEW t \in TurnId, NEW token \in 1..AttemptBound,
               CompleteClaim(t, token, "succeeded", None)
        PROVE  StoreInv'
    <3>1. "succeeded" \in TerminalStatus /\ None \in ErrorCode
          /\ ((None # None) <=> ("succeeded" = "failed"))
      BY DEF TerminalStatus, ErrorCode
    <3> QED
      BY <2>3, <3>1, CompleteStep
  <2>4. ASSUME NEW t \in TurnId, NEW token \in 1..AttemptBound,
               NEW error \in {"OTHER", "DEPENDENCY_FAILURE_AFTER_COMMIT"},
               CompleteClaim(t, token, "failed", error)
        PROVE  StoreInv'
    <3>1. "failed" \in TerminalStatus /\ error \in ErrorCode
          /\ ((error # None) <=> ("failed" = "failed"))
      BY NoneAssumption DEF TerminalStatus, ErrorCode
    <3> QED
      BY <2>4, <3>1, CompleteStep
  <2> QED
    BY <1>8, <2>1, <2>2, <2>3, <2>4 DEF WorkerCall
<1>9. CASE Passing
  BY <1>9, TimeStep
<1>10. CASE UNCHANGED storeVars
  BY <1>10, LeaveStep
<1> QED
  BY <1>1, <1>2, <1>3, <1>4, <1>5, <1>6, <1>7, <1>8, <1>9, <1>10 DEF Next, ApiStep

LEMMA InvHolds == Spec => []StoreInv
BY InvInit, InvNext, PTL DEF Spec

LEMMA ConsistentWhenInv == StoreInv => ConversationsConsistent
<1> SUFFICES ASSUME StoreInv PROVE ConversationsConsistent
  OBVIOUS
<1>1. /\ TableTypes /\ TurnsHaveHomes /\ OneActive /\ LastExists
      /\ (\A t \in TurnId : AttemptsFit(t)) /\ TableInv /\ SessionTypes
      /\ \A s \in Session : SessionKnows(s)
  BY DEF StoreInv, TableInv, SessionInv
<1>2. TypeOK
  BY <1>1, TypeParts
<1>3. BusyMeansOneActiveTurn
  <2> SUFFICES ASSUME NEW c \in ConversationId
               PROVE  Cardinality({t \in TurnsOf(c) : Pending(t)}) =
                        IF conversation[c].status = "busy" THEN 1 ELSE 0
    BY DEF BusyMeansOneActiveTurn
  <2>1. CASE conversation[c].status = "busy"
    <3>1. PICK t \in TurnsOf(c) : Pending(t)
      BY <1>1, <2>1 DEF OneActive
    <3>2. {u \in TurnsOf(c) : Pending(u)} = {t}
      BY <1>1, <3>1 DEF OneActive, TurnsOf
    <3> QED
      BY <2>1, <3>2, FS_Singleton
  <2>2. CASE conversation[c].status # "busy"
    <3>1. {u \in TurnsOf(c) : Pending(u)} = {}
      BY <1>1, <2>2 DEF TurnsHaveHomes, TurnsOf, Pending
    <3> QED
      BY <2>2, <3>1, FS_EmptySet
  <2> QED
    BY <2>1, <2>2
<1>4. ClaimOwnsRunningAttempt
  <2> SUFFICES ASSUME NEW t \in TurnId
               PROVE  {i \in DOMAIN attempts[t] : attempts[t][i] = "running"} =
                        IF turn[t].status = "running"
                        THEN {turn[t].claim} \cap {Len(attempts[t])} ELSE {}
    BY DEF ClaimOwnsRunningAttempt
  <2>1. attempts[t] \in Seq(AttemptStatus) /\ Fits(turn[t], attempts[t])
    BY <1>1 DEF TableTypes, AttemptsFit
  <2>2. DOMAIN attempts[t] = 1..Len(attempts[t]) /\ Len(attempts[t]) \in Nat
    BY <2>1, LenProperties
  <2>3. CASE turn[t].status = "running"
    <3>1. turn[t].claim = Len(attempts[t]) /\ Len(attempts[t]) \in DOMAIN attempts[t]
          /\ attempts[t][Len(attempts[t])] = "running"
          /\ \A i \in DOMAIN attempts[t] : attempts[t][i] = "running" => i = Len(attempts[t])
      BY <2>1, <2>2, <2>3 DEF Fits
    <3> QED
      BY <2>3, <3>1
  <2>4. CASE turn[t].status # "running"
    BY <2>1, <2>2, <2>4 DEF Fits
  <2> QED
    BY <2>3, <2>4
<1>5. InsertsCannotConflict
  <2> SUFFICES ASSUME NEW s \in Session, session[s].phase = "admitted"
               PROVE  /\ operation[KeyOf(s)] = NoOperation
                      /\ RowOf(s) # None =>
                           /\ conversation[RowOf(s)].status = "ready"
                           /\ AfterOf(s) = Last(RowOf(s)) /\ ~Pending(AfterOf(s))
    BY DEF InsertsCannotConflict, KeyOf, RowOf, AfterOf
  <2>1. SessionKnows(s) /\ RowOf(s) \in ConversationId \cup {None}
    BY <1>1, SessionTyped
  <2>2. ASSUME RowOf(s) # None PROVE AfterOf(s) = Last(RowOf(s)) /\ ~Pending(AfterOf(s))
    <3>1. RowOf(s) \in ConversationId /\ conversation[RowOf(s)].status = "ready"
          /\ IsLast(AfterOf(s), RowOf(s))
      BY <2>1, <2>2 DEF SessionKnows
    <3>2. IsLast(Last(RowOf(s)), RowOf(s))
      BY <1>1, <3>1, LastIsLast DEF LiveStatus
    <3>3. AfterOf(s) \in TurnId /\ turn[AfterOf(s)].conversation = RowOf(s)
      BY <3>1 DEF IsLast, TurnsOf
    <3>4. ~Pending(AfterOf(s))
      BY <1>1, <3>1, <3>3 DEF TurnsHaveHomes, Pending
    <3> QED
      BY <1>1, <3>1, <3>2, <3>4, LastIsOne
  <2> QED
    BY <2>1, <2>2 DEF SessionKnows
<1>6. BacklogBounded
  BY DEF StoreInv, BacklogFinite
<1> QED
  BY <1>2, <1>3, <1>4, <1>5, <1>6 DEF ConversationsConsistent

\* Every table keeps its types; every transaction finds the conversations,
\* their turns and their attempts in agreement, the backlog within its limits,
\* and room for what it is about to insert.
THEOREM ConversationsStayConsistent == Spec => []ConversationsConsistent
BY InvHolds, ConsistentWhenInv, PTL

\* A continuation follows the turn its caller named, which is concluded and
\* just before it: no two turns follow the same one, whoever raced for it.
THEOREM HistoryStaysLinear == Spec => []HistoryIsLinear
<1>1. StoreInv => HistoryIsLinear
  BY DEF StoreInv, TableInv, OperationsLead, HistoryIsLinear
<1> QED
  BY <1>1, InvHolds, PTL

\* A step changes one conversation, its turns that are not concluded yet, and
\* leaves a fenced one as it is unless it deletes its rows.
Own(d) ==
  /\ \A c \in ConversationId \ {d} :
       /\ conversation'[c] = conversation[c]
       /\ \A t \in TurnsOf(c) : turn'[t] = turn[t] /\ attempts'[t] = attempts[t]
  /\ \A t \in TurnId : turn[t].status \in TerminalStatus =>
       turn'[t] = turn[t] \/ turn'[t].status = "deleted"
  /\ conversation[d].status \notin FencedStatus \/ conversation'[d].status = "deleted"

LEMMA FenceOwn ==
  ASSUME TableInv, NEW c \in ConversationId, Live(c), NEW st \in FencedStatus, Fence(c, st)
  PROVE  Own(c)
<1>1. /\ \A t \in TurnId :
           turn'[t] = IF t \in TurnsOf(c) /\ Pending(t) THEN FailedByFence(t) ELSE turn[t]
      /\ \A d \in ConversationId \ {c} : conversation'[d] = conversation[d]
  BY FenceEffect
<1>2. \A d \in ConversationId \ {c} : \A t \in TurnsOf(d) :
        turn'[t] = turn[t] /\ attempts'[t] = attempts[t]
  BY <1>1 DEF TurnsOf, Fence
<1>3. \A t \in TurnId : turn[t].status \in TerminalStatus => turn'[t] = turn[t]
  BY <1>1 DEF Pending, PendingStatus, TerminalStatus
<1> QED
  BY <1>1, <1>2, <1>3 DEF Own, Live, LiveStatus, FencedStatus

LEMMA PurgeOwn ==
  ASSUME TableInv, NEW c \in ConversationId, Purge(c)
  PROVE  Own(c)
<1>1. conversation \in [ConversationId -> ConversationRow]
  BY DEF TableInv, TableTypes
<1>2. /\ \A d \in ConversationId \ {c} : conversation'[d] = conversation[d]
      /\ conversation'[c].status = "deleted"
  BY <1>1 DEF Purge, NoConversation
<1>3. \A d \in ConversationId \ {c} : \A t \in TurnsOf(d) :
        turn'[t] = turn[t] /\ attempts'[t] = attempts[t]
  BY DEF TurnsOf, Purge
<1>4. \A t \in TurnId : turn'[t] = turn[t] \/ turn'[t].status = "deleted"
  BY DEF Purge, NoTurn
<1> QED
  BY <1>2, <1>3, <1>4 DEF Own

\* One turn that is not concluded changes, and its conversation with it.
LEMMA OneTurnOwn ==
  ASSUME TableInv, NEW c \in ConversationId, conversation[c].status \notin FencedStatus,
         NEW t \in TurnId, turn[t].conversation \in {c, None}, turn[t].status \notin TerminalStatus,
         \A u \in TurnId \ {t} : turn'[u] = turn[u] /\ attempts'[u] = attempts[u],
         \A d \in ConversationId \ {c} : conversation'[d] = conversation[d]
  PROVE  Own(c)
BY NoneAssumption DEF Own, TurnsOf

LEMMA StepIsOwn ==
  ASSUME StoreInv, [Next]_storeVars
  PROVE  UNCHANGED <<conversation, turn, attempts>> \/ \E d \in ConversationId : Own(d)
<1> DEFINE Goal == UNCHANGED <<conversation, turn, attempts>> \/ \E d \in ConversationId : Own(d)
<1>1. TableInv /\ TableTypes /\ TurnsHaveHomes /\ OperationsLead /\ SessionTypes
  BY DEF StoreInv, TableInv, SessionInv
<1>2. ASSUME NEW c \in ConversationId, ExpireIfDue(c) PROVE Goal
  BY <1>1, <1>2, FenceOwn DEF ExpireIfDue, FencedStatus
<1>3. ASSUME NEW t \in TurnId, NEW c \in ConversationId, NEW n, NEW s,
             conversation[c].status \notin FencedStatus, InsertTurn(s, t, c, n),
             \A d \in ConversationId \ {c} : conversation'[d] = conversation[d]
      PROVE  Goal
  <2>1. turn[t].status \notin TerminalStatus /\ turn[t].conversation \in {c, None}
        /\ \A u \in TurnId \ {t} : turn'[u] = turn[u] /\ attempts'[u] = attempts[u]
    BY <1>1, <1>3 DEF InsertTurn, TerminalStatus, TurnsHaveHomes, TableTypes
  <2> QED
    BY <1>1, <1>3, <2>1, OneTurnOwn
<1>4. ASSUME NEW t \in TurnId, NEW row, NEW st, NEW c, c = turn[t].conversation,
             Pending(t), Live(c), c # None,
             \A u \in TurnId \ {t} : turn'[u] = turn[u] /\ attempts'[u] = attempts[u],
             \A d \in ConversationId \ {c} : conversation'[d] = conversation[d]
      PROVE  Goal
  <2>1. c \in ConversationId
    BY <1>1, <1>4 DEF TableTypes, TurnRow
  <2>2. conversation[c].status \notin FencedStatus /\ turn[t].status \notin TerminalStatus
    BY <1>4 DEF Live, LiveStatus, FencedStatus, Pending, PendingStatus, TerminalStatus
  <2> QED
    BY <1>1, <1>4, <2>1, <2>2, OneTurnOwn
<1>5. CASE \E s \in Session : AnswerKnownKey(s)
  <2>1. PICK s \in Session : AnswerKnownKey(s)
    BY <1>5
  <2> DEFINE known == operation[session[s].request.key]
  <2>2. session[s].phase # "idle" /\ known # NoOperation
        /\ (UNCHANGED tables \/ ExpireIfDue(turn[known.turn].conversation))
    BY <2>1 DEF AnswerKnownKey
  <2>3. session[s].request.key \in Key
    BY <1>1, <2>2, SessionTyped DEF KeyOf
  <2>4. turn[known.turn].conversation \in ConversationId
    <3>1. known.turn \in TurnId /\ turn[known.turn].status \in PendingStatus \cup TerminalStatus
      BY <1>1, <2>2, <2>3 DEF TableTypes, OperationsLead
    <3> QED
      BY <1>1, <3>1 DEF TurnsHaveHomes
  <2> QED
    BY <1>2, <2>2, <2>4
<1>6. CASE \E s \in Session : LockConversation(s)
  <2>1. PICK s \in Session : LockConversation(s)
    BY <1>6
  <2>2. session[s].phase # "idle" /\ RowOf(s) # None
        /\ (UNCHANGED tables \/ ExpireIfDue(RowOf(s)))
    BY <2>1 DEF LockConversation, RowOf
  <2>3. RowOf(s) \in ConversationId
    BY <1>1, <2>2, SessionTyped
  <2> QED
    BY <1>2, <2>2, <2>3
<1>7. CASE \E s \in Session, t \in TurnId : ContinueConversation(s, t)
  <2>1. PICK s \in Session, t \in TurnId : ContinueConversation(s, t)
    BY <1>7
  <2>2. session[s].phase = "admitted" /\ RowOf(s) # None
        /\ InsertTurn(s, t, RowOf(s), turn[Last(RowOf(s))].sequence + 1)
        /\ conversation' = [conversation EXCEPT ![RowOf(s)].status = "busy"]
    BY <2>1 DEF ContinueConversation, RowOf
  <2>3. RowOf(s) \in ConversationId /\ SessionKnows(s)
    BY <1>1, <2>2, SessionTyped DEF StoreInv, SessionInv
  <2>4. conversation[RowOf(s)].status \notin FencedStatus
    BY <2>2, <2>3 DEF SessionKnows, FencedStatus
  <2>5. \A d \in ConversationId \ {RowOf(s)} : conversation'[d] = conversation[d]
    BY <1>1, <2>2 DEF TableTypes
  <2> QED
    BY <1>3, <2>2, <2>3, <2>4, <2>5
<1>8. CASE \E s \in Session, t \in TurnId, c \in ConversationId : OpenConversation(s, c, t)
  <2>1. PICK s \in Session, t \in TurnId, c \in ConversationId : OpenConversation(s, c, t)
    BY <1>8
  <2>2. conversation[c].status \notin FencedStatus /\ InsertTurn(s, t, c, 1)
        /\ \A d \in ConversationId \ {c} : conversation'[d] = conversation[d]
    BY <1>1, <2>1 DEF OpenConversation, FencedStatus, TableTypes
  <2> QED
    BY <1>3, <2>2
<1>9. CASE \E c \in ConversationId : Read(c) \/ Delete(c) \/ CleanUp(c)
  <2>1. PICK c \in ConversationId : Read(c) \/ Delete(c) \/ CleanUp(c)
    BY <1>9
  <2>2. CASE Live(c) /\ Fence(c, "deleting")
    BY <1>1, <2>2, FenceOwn DEF FencedStatus
  <2>3. CASE Purge(c)
    BY <1>1, <2>3, PurgeOwn
  <2> QED
    BY <1>2, <2>1, <2>2, <2>3 DEF Read, Delete, CleanUp
<1>10. ASSUME NEW t \in TurnId, NEW token,
              \/ WithTurn(t, StartAttempt(t)) \/ WithTurn(t, GiveBack(t, token))
              \/ \E st, error : WithTurn(t, Finish(t, token, st, error))
       PROVE  Goal
  <2> DEFINE c == turn[t].conversation
  <2>1. c # None /\ c \in ConversationId
    BY <1>1, <1>10 DEF WithTurn, TableTypes, TurnRow
  <2>2. CASE ExpireIfDue(c)
    BY <1>2, <2>1, <2>2
  <2>3. CASE Live(c) /\ (\/ StartAttempt(t) \/ GiveBack(t, token)
                         \/ \E st, error : Finish(t, token, st, error))
    <3>1. Pending(t) /\ \A u \in TurnId \ {t} : turn'[u] = turn[u] /\ attempts'[u] = attempts[u]
      BY <1>1, <2>3 DEF StartAttempt, GiveBack, Finish, Claimable, HoldsClaim, SetAttempt,
                        Pending, PendingStatus, TableTypes
    <3>2. \A d \in ConversationId \ {c} : conversation'[d] = conversation[d]
      BY <1>1, <2>3 DEF StartAttempt, GiveBack, Finish, TableTypes
    <3> QED
      BY <1>4, <2>1, <2>3, <3>1, <3>2
  <2> QED
    BY <1>10, <2>2, <2>3 DEF WithTurn, Usable
<1>11. CASE WorkerCall
  BY <1>10, <1>11 DEF WorkerCall, Claim, ReleaseClaim, CompleteClaim
<1>12. CASE \/ \E s \in Session : Admit(s) \/ \E q \in Request : Start(s, q)
            \/ Passing \/ UNCHANGED storeVars
  BY <1>12 DEF Admit, Start, Passing, DeadlinePasses, LeaseEnds
<1> QED
  BY <1>5, <1>6, <1>7, <1>8, <1>9, <1>11, <1>12 DEF Next, ApiStep

\* Whatever still runs for a deleted or expired conversation, its row, turns
\* and attempts stay as fencing left them until they are deleted; and a turn
\* that has been answered keeps its answer.
THEOREM WhatIsWrittenStays == Spec => NothingIsTakenBack
<1>1. ASSUME StoreInv, [Next]_storeVars
      PROVE  /\ \A c \in ConversationId : conversation[c].status \in FencedStatus =>
                  \/ conversation'[c].status = "deleted"
                  \/ /\ conversation'[c] = conversation[c]
                     /\ \A t \in TurnsOf(c) : turn'[t] = turn[t] /\ attempts'[t] = attempts[t]
             /\ \A t \in TurnId : turn[t].status \in TerminalStatus =>
                  turn'[t] = turn[t] \/ turn'[t].status = "deleted"
  BY <1>1, StepIsOwn DEF Own
<1> QED
  BY <1>1, InvHolds, PTL DEF Spec, NothingIsTakenBack, FencedStaysFenced, AnswersAreFinal
=============================================================================
