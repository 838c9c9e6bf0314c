--------------------------- MODULE OperationsProofs ---------------------------
(***************************************************************************)
(* What operations rely on, for any sizes: what is kept about finished     *)
(* runs (RunObservation), a recovery of the queue (QueueRecovery), the     *)
(* sweeps of a retention cleaner (RetentionSweep) and the scenes they are  *)
(* part of (RunOperations); the release gate (ReleaseReadiness); the       *)
(* processes of the service from their start to their exit (RuntimeRoles)  *)
(* and the monitor that watches them (AvailabilityMonitor).  The parts     *)
(* share no variable and no constant; they are together because they are   *)
(* what an operator looks at.                                              *)
(***************************************************************************)
EXTENDS AvailabilityMonitor, ReleaseReadiness, RunOperations, FiniteSetTheorems,
        SequenceTheorems, WellFoundedInduction, TLAPS

-----------------------------------------------------------------------------
(* Facts about numbers.                                                    *)

LEMMA SmallestOf ==
  ASSUME NEW S, S \subseteq Nat, S # {}
  PROVE  \E n \in S : \A m \in S : n <= m
<1>1. PICK n \in S : \A m \in S : ~(<<m, n>> \in OpToRel(<, Nat))
  BY NatLessThanWellFounded, WFMin
<1>2. \A m \in S : ~(m < n)
  BY <1>1 DEF OpToRel
<1> QED
  BY <1>2

LEMMA GreatestOf ==
  ASSUME NEW N \in Nat, NEW S, S \subseteq 0..N, S # {}
  PROVE  \E n \in S : \A m \in S : m <= n
<1> DEFINE T == {N - m : m \in S}
<1>1. T \subseteq Nat /\ T # {}
  <2>1. \A m \in S : N - m \in Nat
    OBVIOUS
  <2> QED
    BY <2>1
<1>2. PICK t \in T : \A u \in T : t <= u
  <2> HIDE DEF T
  <2> QED
    BY <1>1, SmallestOf
<1>3. PICK n \in S : t = N - n
  OBVIOUS
<1>4. \A m \in S : N - n <= N - m
  BY <1>2, <1>3
<1> QED
  BY <1>4

-----------------------------------------------------------------------------
(* Facts about orders and sequences.                                       *)

StrictOrder(R, S) ==
  /\ \A x \in S : <<x, x>> \notin R
  /\ \A x, y, z \in S : <<x, y>> \in R /\ <<y, z>> \in R => <<x, z>> \in R
  /\ \A x, y \in S : x # y => <<x, y>> \in R \/ <<y, x>> \in R

(* A finite set that is not empty has a last member.                       *)
LEMMA LastMember ==
  ASSUME NEW S, IsFiniteSet(S), S # {}, NEW R, StrictOrder(R, S)
  PROVE  \E x \in S : \A y \in S : y # x => <<y, x>> \in R
<1> DEFINE After(x) == {y \in S : <<x, y>> \in R}
           T == {After(x) : x \in S}
<1>1. T \subseteq FiniteSubsetsOf(S) /\ T # {}
  <2>1. T \subseteq SUBSET S /\ T # {}
    OBVIOUS
  <2> HIDE DEF T
  <2> QED
    BY <2>1, FS_FiniteSubsetsOfFinite
<1>2. \A x, y \in S : <<x, y>> \in R => <<After(y), After(x)>> \in StrictSubsetOrdering(S)
  <2> SUFFICES ASSUME NEW x \in S, NEW y \in S, <<x, y>> \in R
               PROVE  <<After(y), After(x)>> \in StrictSubsetOrdering(S)
    OBVIOUS
  <2>1. After(y) \subseteq After(x) /\ y \in After(x) /\ y \notin After(y)
    BY DEF StrictOrder
  <2>2. After(y) \subseteq S /\ After(x) \subseteq S
    OBVIOUS
  <2> HIDE DEF After
  <2> QED
    BY <2>1, <2>2 DEF StrictSubsetOrdering
<1> HIDE DEF After
<1>3. PICK m \in T : \A n \in T : ~(<<n, m>> \in StrictSubsetOrdering(S))
  <2> HIDE DEF T
  <2> QED
    BY <1>1, WFMin, FS_StrictSubsetOrderingWellFounded
<1>4. PICK x \in S : m = After(x)
  OBVIOUS
<1>5. \A y \in S : <<x, y>> \notin R
  BY <1>2, <1>3, <1>4
<1> QED
  BY <1>5 DEF StrictOrder

(* A finite set can be put in order.                                       *)
LEMMA OrderExists ==
  ASSUME NEW S, IsFiniteSet(S), NEW R, StrictOrder(R, S)
  PROVE  \E s \in [1..Cardinality(S) -> S] :
           \A i, j \in 1..Cardinality(S) : i < j => <<s[i], s[j]>> \in R
<1> DEFINE HasOrder(U) == \E s \in [1..Cardinality(U) -> U] :
             \A i, j \in 1..Cardinality(U) : i < j => <<s[i], s[j]>> \in R
           T == {U \in SUBSET S : ~HasOrder(U)}
<1> SUFFICES ASSUME T # {}
             PROVE  FALSE
  BY DEF HasOrder
<1>1. T \subseteq FiniteSubsetsOf(S)
  BY FS_FiniteSubsetsOfFinite DEF T
<1>2. PICK U \in T : \A V \in T : ~(<<V, U>> \in StrictSubsetOrdering(S))
  <2> HIDE DEF T
  <2> QED
    BY <1>1, WFMin, FS_StrictSubsetOrderingWellFounded
<1>3. U \subseteq S /\ IsFiniteSet(U) /\ ~HasOrder(U)
  <2>1. U \subseteq S /\ ~HasOrder(U)
    BY <1>2
  <2> QED
    BY <2>1, FS_Subset
<1>4. U # {}
  <2> SUFFICES ASSUME U = {}
               PROVE  HasOrder(U)
    BY <1>3
  <2>1. Cardinality(U) = 0
    BY FS_EmptySet
  <2>2. [i \in 1..0 |-> i] \in [1..0 -> {}]
    OBVIOUS
  <2> QED
    BY <2>1, <2>2
<1>5. StrictOrder(R, U)
  BY <1>3 DEF StrictOrder
<1>6. PICK x \in U : \A y \in U : y # x => <<y, x>> \in R
  BY <1>3, <1>4, <1>5, LastMember
<1> DEFINE V == U \ {x}
<1>7. V \subseteq U /\ x \in U \ V /\ V \in SUBSET S
  BY <1>3, <1>6
<1>8. Cardinality(V) \in Nat /\ Cardinality(U) = Cardinality(V) + 1
  <2>1. IsFiniteSet(V) /\ Cardinality(V) = Cardinality(U) - 1
    BY <1>3, <1>6, FS_RemoveElement
  <2>2. Cardinality(U) \in Nat /\ Cardinality(V) \in Nat
    BY <1>3, <2>1, FS_CardinalityType
  <2> QED
    BY <2>1, <2>2
<1>9. HasOrder(V)
  <2>1. <<V, U>> \in StrictSubsetOrdering(S)
    BY <1>3, <1>7 DEF StrictSubsetOrdering
  <2> QED
    BY <1>2, <1>7, <2>1
<1>10. PICK s \in [1..Cardinality(V) -> V] :
          \A i, j \in 1..Cardinality(V) : i < j => <<s[i], s[j]>> \in R
  BY <1>9
<1> DEFINE n == Cardinality(V)
           t == [i \in 1..(n + 1) |-> IF i <= n THEN s[i] ELSE x]
<1>11. \A i \in 1..n : s[i] \in V
  BY <1>10
<1> HIDE DEF V, n
<1>12. n \in Nat /\ Cardinality(U) = n + 1
  BY <1>8 DEF n
<1>13. t \in [1..(n + 1) -> U]
  BY <1>11, <1>12, <1>7, <1>6
<1>14. \A i, j \in 1..(n + 1) : i < j => <<t[i], t[j]>> \in R
  <2> SUFFICES ASSUME NEW i \in 1..(n + 1), NEW j \in 1..(n + 1), i < j
               PROVE  <<t[i], t[j]>> \in R
    OBVIOUS
  <2>1. i \in 1..n /\ t[i] = s[i]
    BY <1>12
  <2>2. CASE j \in 1..n
    BY <1>10, <1>12, <2>1, <2>2 DEF n
  <2>3. CASE j = n + 1
    <3>1. t[j] = x
      BY <1>12, <2>3
    <3>2. s[i] \in U /\ s[i] # x
      BY <1>11, <2>1, <1>7
    <3> QED
      BY <3>1, <3>2, <2>1, <1>6
  <2> QED
    BY <1>12, <2>2, <2>3
<1> HIDE DEF t
<1> QED
  BY <1>3, <1>12, <1>13, <1>14

(* An order of a set has every member of it, and has it once.              *)
LEMMA OrderIsComplete ==
  ASSUME NEW S, IsFiniteSet(S), NEW R, StrictOrder(R, S),
         NEW n \in Nat, n = Cardinality(S), NEW s, s \in [1..n -> S],
         \A i, j \in 1..n : i < j => <<s[i], s[j]>> \in R
  PROVE  /\ \A i, j \in 1..n : s[i] = s[j] => i = j
         /\ \A x \in S : \E i \in 1..n : s[i] = x
<1>2. \A i, j \in 1..n : s[i] = s[j] => i = j
  <2> SUFFICES ASSUME NEW i \in 1..n, NEW j \in 1..n, s[i] = s[j], i < j
               PROVE  FALSE
    OBVIOUS
  <2> QED
    BY DEF StrictOrder
<1>3. s \in Injection(1..n, S)
  BY <1>2 DEF Injection, IsInjective
<1>4. IsFiniteSet(1..n) /\ Cardinality(1..n) = n
  BY FS_Interval
<1>5. s \in Surjection(1..n, S)
  BY <1>3, <1>4, FS_Injection
<1> QED
  BY <1>2, <1>5 DEF Surjection

-----------------------------------------------------------------------------
(***************************************************************************)
(* One recovery, for any number of runs, any batch size and any numbers of *)
(* failed calls and of steps of the others.                                *)
(***************************************************************************)

ReasonName == {"stuck_queued", "recent_queued", "expired_lease", "active_lease"}
CommandType == [trigger : {"none", "manual", "periodic"}, mode : {"stale", "all"},
                dryRun : BOOLEAN]
CandidateRow == [run : RunNumber, reason : ReasonName, unsent : BOOLEAN]
ItemRow == [run : RunNumber, reason : ReasonName, unsent : BOOLEAN, state : QueueState,
            action : {"none", "deferred", "would_enqueue", "duplicate", "enqueued", "failed"},
            outbox : {"none", "would_acknowledge", "acknowledged", "failed"}]
AuditRow == [status : {"running", "completed", "failed"}, counters : [CounterName -> Nat],
             items : SUBSET ItemRow]

RecoveryTypes ==
  /\ runStatus \in [RunNumber -> {"absent", "queued", "leased", "expired", "done"}]
  /\ stuck \subseteq RunNumber /\ jobs \in [RunNumber -> QueueState]
  /\ command \in CommandType
  /\ phase \in {"idle", "select", "begin", "inspect", "item", "record", "over"}
  /\ cursor \in 0..Runs
  /\ candidates \in Seq(CandidateRow) /\ items \in Seq(ItemRow)
  /\ inspected \in [RunNumber -> QueueState] /\ counters \in [CounterName -> Nat]
  /\ audits \in Seq(AuditRow)
  /\ untouched \subseteq RunNumber /\ created \subseteq RunNumber

Walking == phase \in {"begin", "inspect", "item", "record"}

(* The command works through its candidates in their order, an audit row   *)
(* at hand.                                                                *)
Steps ==
  /\ phase = "idle" => candidates = <<>> /\ cursor = 0
  /\ result = "finished" => phase = "over"
  /\ Len(items) <= Len(candidates)
  /\ \A i \in 1..Len(items) : items[i].run = candidates[i].run
  /\ \A i, j \in 1..Len(candidates) : candidates[i].run = candidates[j].run => i = j
  /\ phase \in {"inspect", "item", "record"} => audits # <<>>
  /\ phase \in {"begin", "inspect"} => items = <<>>
  /\ phase = "record" => items # <<>>

(* What nobody else has worked on waits as it did, and a job seen for it   *)
(* is still there.                                                         *)
UntouchedWaits ==
  /\ \A r \in untouched : Runnable(r)
  /\ \A i \in 1..Len(candidates) :
       candidates[i].run \in untouched => candidates[i].reason # "active_lease"
  /\ phase \in {"item", "record"} =>
       \A r \in untouched : inspected[r] = "runnable" => jobs[r] = "runnable"

InScope(r) == command.mode = "all" \/ r \in stuck \/ runStatus[r] = "expired"
Failed(x) == "failed" \in {x.action, x.outbox}
CleanSoFar == Sound /\ (phase = "record" => ~Failed(items[Len(items)]))
StillToCome(r) == \E i \in 1..Len(candidates) : i > Len(items) /\ candidates[i].run = r

(* A run in scope has a job, or is a candidate still to come, or lies      *)
(* behind the cursor of the next batch.                                    *)
NoGap ==
  ~command.dryRun /\ CleanSoFar =>
    \A r \in untouched : InScope(r) =>
      /\ phase = "select" => jobs[r] = "runnable" \/ r > cursor
      /\ Walking => jobs[r] = "runnable" \/ StillToCome(r) \/ (cursor # 0 /\ r > cursor)
      /\ result = "finished" => jobs[r] = "runnable"

LastAudit == audits[Len(audits)]

RecoveryInv == RecoveryTypes /\ Steps /\ UntouchedWaits /\ NoGap
-----------------------------------------------------------------------------
(* Selection: which runs a batch takes, and in which order.                *)

LEMMA SubsetOfRuns ==
  ASSUME NEW S, S \subseteq RunNumber
  PROVE  IsFiniteSet(S) /\ Cardinality(S) \in Nat
<1>1. IsFiniteSet(RunNumber)
  BY RecoveryAssumption, FS_Interval DEF RunNumber
<1>2. IsFiniteSet(S)
  BY <1>1, FS_Subset
<1> QED
  BY <1>2, FS_CardinalityType

LEMMA RunOrderExists ==
  ASSUME NEW S, S \subseteq RunNumber
  PROVE  \E s \in [1..Cardinality(S) -> S] :
           \A i, j \in 1..Cardinality(S) : i < j => s[i] < s[j]
<1> DEFINE R == {p \in S \X S : p[1] < p[2]}
<1>1. \A x, y \in S : <<x, y>> \in R <=> x < y
  OBVIOUS
<1>2. IsFiniteSet(S) /\ \A x \in S : x \in Int
  <2>1. IsFiniteSet(S)
    BY SubsetOfRuns
  <2>2. RunNumber \subseteq Int
    BY RecoveryAssumption DEF RunNumber
  <2> QED
    BY <2>1, <2>2
<1> HIDE DEF R
<1>3. StrictOrder(R, S)
  BY <1>1, <1>2 DEF StrictOrder
<1>4. PICK s \in [1..Cardinality(S) -> S] :
        \A i, j \in 1..Cardinality(S) : i < j => <<s[i], s[j]>> \in R
  BY <1>2, <1>3, OrderExists
<1>5. \A i \in 1..Cardinality(S) : s[i] \in S
  BY <1>4
<1> QED
  BY <1>1, <1>4, <1>5

LEMMA BatchInOrder ==
  ASSUME NEW S, S \subseteq RunNumber
  PROVE  /\ InOrder(S) \in [1..Cardinality(S) -> S]
         /\ \A i, j \in 1..Cardinality(S) : InOrder(S)[i] = InOrder(S)[j] => i = j
         /\ \A r \in S : \E i \in 1..Cardinality(S) : InOrder(S)[i] = r
<1> DEFINE n == Cardinality(S)
           s == InOrder(S)
<1>1. IsFiniteSet(S) /\ n \in Nat
  BY SubsetOfRuns
<1>2. s \in [1..n -> S] /\ \A i, j \in 1..n : i < j => s[i] < s[j]
  BY RunOrderExists DEF InOrder
<1> HIDE DEF s, n
<1>3. \A i \in 1..n : s[i] \in Int
  <2>1. \A i \in 1..n : s[i] \in S
    BY <1>2
  <2>2. \A r \in S : r \in Int
    BY DEF RunNumber
  <2> QED
    BY <2>1, <2>2
<1>4. \A i, j \in 1..n : s[i] = s[j] => i = j
  BY <1>1, <1>2, <1>3
<1>5. s \in Injection(1..n, S)
  BY <1>2, <1>4 DEF Injection, IsInjective
<1>6. s \in Surjection(1..n, S)
  <2>1. IsFiniteSet(1..n) /\ Cardinality(1..n) = n
    BY <1>1, FS_Interval
  <2> QED
    BY <1>1, <1>5, <2>1, FS_Injection DEF n
<1>7. \A r \in S : \E i \in 1..n : s[i] = r
  BY <1>6 DEF Surjection
<1> QED
  BY <1>2, <1>4, <1>7 DEF n, s

(* A wanted run that is not in the batch lies behind all that are.         *)
LEMMA BatchTakesTheFirst ==
  ASSUME NEW r \in RunNumber, Wanted(r), r \notin Batch
  PROVE  Batch # {} /\ \A q \in Batch : q < r
<1> DEFINE W == {q \in RunNumber : Wanted(q)}
           Upto(q) == {p \in 1..q : Wanted(p)}
<1>1. \A q \in RunNumber : Upto(q) \subseteq RunNumber /\ Upto(q) \in SUBSET RunNumber
  BY RecoveryAssumption DEF RunNumber
<1>2. \A q \in RunNumber : IsFiniteSet(Upto(q)) /\ Cardinality(Upto(q)) \in Nat
  <2> HIDE DEF Upto
  <2> QED
    BY <1>1, SubsetOfRuns
<1>3. \A q \in RunNumber : q \in Batch <=> Wanted(q) /\ Cardinality(Upto(q)) <= BatchSize
  BY DEF Batch
<1>4. ASSUME NEW q \in Batch, ~(q < r) PROVE FALSE
  <2>1. q \in RunNumber /\ r <= q
    BY <1>4 DEF Batch, RunNumber
  <2>2. Upto(r) \in SUBSET Upto(q)
    BY <2>1 DEF RunNumber
  <2>3. Cardinality(Upto(r)) <= Cardinality(Upto(q))
    <3> HIDE DEF Upto
    <3> QED
      BY <1>2, <2>1, <2>2, FS_Subset
  <2> HIDE DEF Upto
  <2> QED
    BY <1>2, <1>3, <1>4, <2>1, <2>3, RecoveryAssumption
<1>5. PICK m \in W : \A q \in W : m <= q
  <2>1. W \subseteq Nat /\ W # {}
    BY DEF RunNumber
  <2> HIDE DEF W
  <2> QED
    BY <2>1, SmallestOf
<1>6. Upto(m) = {m}
  BY <1>5, RecoveryAssumption DEF RunNumber
<1>7. Cardinality(Upto(m)) = 1
  BY <1>6, FS_Singleton
<1>8. m \in Batch
  <2> HIDE DEF Upto
  <2> QED
    BY <1>3, <1>5, <1>7, RecoveryAssumption
<1> QED
  BY <1>4, <1>8

(* The next cursor is the last run of the batch, or 0 when all are taken.  *)
LEMMA NextCursorIsBehind ==
  /\ NextCursor(Batch) \in 0..Runs
  /\ \A r \in RunNumber : Wanted(r) /\ r \notin Batch =>
       NextCursor(Batch) # 0 /\ r > NextCursor(Batch)
<1>1. CASE \E r \in RunNumber : Wanted(r) /\ r \notin Batch
  <2>1. Batch # {} /\ Batch \subseteq 0..Runs /\ Batch \subseteq RunNumber
    BY <1>1, BatchTakesTheFirst DEF Batch, RunNumber
  <2>2. \E r \in Batch : \A q \in Batch : q <= r
    <3> HIDE DEF Batch
    <3> QED
      BY <2>1, GreatestOf, RecoveryAssumption
  <2>3. NextCursor(Batch) \in Batch
    BY <1>1, <2>2 DEF NextCursor
  <2>4. NextCursor(Batch) # 0 /\ NextCursor(Batch) \in 0..Runs
    <3>1. NextCursor(Batch) \in RunNumber
      BY <2>1, <2>3
    <3> QED
      BY <3>1, RecoveryAssumption DEF RunNumber
  <2> QED
    BY <2>3, <2>4, BatchTakesTheFirst
<1>2. CASE ~\E r \in RunNumber : Wanted(r) /\ r \notin Batch
  BY <1>2, RecoveryAssumption DEF NextCursor
<1> QED
  BY <1>1, <1>2
-----------------------------------------------------------------------------
(* No run is left behind.                                                  *)

LEMMA RecoveryStarts == RecoveryInit => RecoveryInv
<1> SUFFICES ASSUME RecoveryInit PROVE RecoveryInv
  OBVIOUS
<1>1. RecoveryTypes
  <2>1. NoCounters \in [CounterName -> Nat]
    BY DEF NoCounters
  <2>2. stuck \subseteq RunNumber
    BY DEF RecoveryInit
  <2> QED
    BY <2>1, <2>2, EmptySeq, RecoveryAssumption
       DEF RecoveryInit, RecoveryTypes, CommandType, QueueState
<1>2. Steps
  BY EmptySeq DEF RecoveryInit, Steps
<1>3. UntouchedWaits /\ NoGap
  BY DEF RecoveryInit, UntouchedWaits, NoGap
<1> QED
  BY <1>1, <1>2, <1>3 DEF RecoveryInv

LEMMA AuditAt ==
  ASSUME RecoveryTypes, NEW i \in 1..Len(audits)
  PROVE  audits[i] \in AuditRow
BY ElementOfSeq DEF RecoveryTypes

(* An audit row that says of a failure is not taken back.                  *)
LEMMA SoundBefore ==
  ASSUME RecoveryTypes, Sound', Len(audits) <= Len(audits'), audits' \in Seq(AuditRow),
         \A i \in 1..Len(audits) : audits[i].items \subseteq audits'[i].items
  PROVE  Sound
<1> SUFFICES ASSUME NEW a \in Range(audits), NEW x \in a.items
             PROVE  "failed" \notin {x.action, x.outbox}
  BY DEF Sound
<1>1. PICK i \in 1..Len(audits) : a = audits[i]
  BY DEF Range, RecoveryTypes
<1>2. audits'[i] \in Range(audits') /\ x \in audits'[i].items
  BY <1>1 DEF Range, RecoveryTypes
<1> QED
  BY <1>2 DEF Sound

LEMMA StartRecoveryKeeps ==
  ASSUME RecoveryInv, NEW c \in Command, StartRecovery(c)
  PROVE  RecoveryInv'
<1> USE DEF RecoveryInv
<1>1. RecoveryTypes'
  <2>1. c \in CommandType
    <3>1. CASE c \in [trigger : {"manual"}, mode : {"stale", "all"}, dryRun : BOOLEAN]
      BY <3>1 DEF CommandType
    <3>2. CASE c = [trigger |-> "periodic", mode |-> "stale", dryRun |-> FALSE]
      BY <3>2 DEF CommandType
    <3> QED
      BY <3>1, <3>2 DEF Command
  <2>2. {r \in RunNumber : Runnable(r)} \subseteq RunNumber
    OBVIOUS
  <2> QED
    BY <2>1, <2>2 DEF RecoveryTypes, StartRecovery, worldVars, batchVars
<1>2. Steps'
  BY DEF Steps, StartRecovery, worldVars, batchVars, RecoveryTypes
<1>3. candidates' = <<>> /\ cursor' = 0 /\ result' # "finished"
  BY DEF Steps, StartRecovery, batchVars
<1>4. UntouchedWaits'
  BY <1>3, EmptySeq DEF UntouchedWaits, StartRecovery, worldVars, Runnable
<1>5. NoGap'
  BY <1>3 DEF NoGap, StartRecovery, worldVars, Walking, RunNumber, InScope
<1> QED
  BY <1>1, <1>2, <1>4, <1>5

LEMMA SelectKeeps ==
  ASSUME RecoveryInv, Select
  PROVE  RecoveryInv'
<1> USE DEF RecoveryInv
<1> DEFINE n == Cardinality(Batch)
           row(i) == [run |-> InOrder(Batch)[i], reason |-> Reason(InOrder(Batch)[i]),
                      unsent |-> InOrder(Batch)[i] \in unsent]
<1>1. Batch \subseteq RunNumber /\ n \in Nat
  BY SubsetOfRuns DEF Batch
<1>2. candidates' = [i \in 1..n |-> row(i)]
  BY DEF Select
<1>3. \A r \in RunNumber : Reason(r) \in ReasonName
  BY DEF Reason, ReasonName
<1>4. \A i \in 1..n : InOrder(Batch)[i] \in Batch
  BY <1>1, BatchInOrder
<1>5. \A i \in 1..n : row(i) \in CandidateRow
  BY <1>1, <1>3, <1>4 DEF CandidateRow
<1>6. \A i \in 1..n : row(i).run = InOrder(Batch)[i] /\ row(i).reason = Reason(row(i).run)
  OBVIOUS
<1> HIDE DEF n, row
<1>7. candidates' \in Seq(CandidateRow) /\ Len(candidates') = n
  BY <1>1, <1>2, <1>5, IsASeq, LenProperties
<1>8. \A i \in 1..n : /\ candidates'[i].run = InOrder(Batch)[i]
                      /\ candidates'[i].reason = Reason(candidates'[i].run)
  BY <1>2, <1>6
<1>9. /\ \A i, j \in 1..n : candidates'[i].run = candidates'[j].run => i = j
      /\ \A r \in Batch : \E i \in 1..n : candidates'[i].run = r
  BY <1>1, <1>8, BatchInOrder DEF n
<1>10. RecoveryTypes'
  <2>1. NoCounters \in [CounterName -> Nat]
    BY DEF NoCounters
  <2> QED
    BY <1>7, <2>1, NextCursorIsBehind, EmptySeq DEF RecoveryTypes, Select, worldVars
<1>11. /\ phase = "select" /\ items' = <<>> /\ result # "finished"
       /\ (phase' = "begin" /\ result' = result) \/ (phase' = "over" /\ result' = "finished")
  <2>1. result # "finished"
    BY DEF Select, Steps
  <2> QED
    BY <2>1 DEF Select
<1>12. Steps'
  BY <1>1, <1>7, <1>9, <1>11, EmptySeq DEF Steps
<1>13. UNCHANGED <<runStatus, stuck, unsent, jobs, command, audits, untouched>>
  BY DEF Select, worldVars
<1>14. UntouchedWaits'
  <2>1. \A r \in untouched : Reason(r) # "active_lease"
    BY DEF UntouchedWaits, Runnable, Reason
  <2>2. \A r \in untouched' : Runnable(r)'
    BY <1>13 DEF UntouchedWaits, Runnable
  <2> QED
    BY <1>7, <1>8, <1>11, <1>13, <2>1, <2>2 DEF UntouchedWaits
<1>15. NoGap'
  <2> SUFFICES ASSUME ~command'.dryRun, CleanSoFar', NEW r \in untouched', InScope(r)'
               PROVE  /\ phase' # "select"
                      /\ Walking' => \/ jobs'[r] = "runnable" \/ StillToCome(r)'
                                     \/ cursor' # 0 /\ r > cursor'
                      /\ result' = "finished" => jobs'[r] = "runnable"
    BY DEF NoGap
  <2>1. r \in untouched /\ InScope(r) /\ r \in RunNumber /\ ~command.dryRun
    BY <1>13 DEF InScope, RecoveryTypes
  <2>2. CleanSoFar
    BY <1>11, <1>13 DEF CleanSoFar, Sound
  <2>3. jobs[r] = "runnable" \/ r > cursor
    BY <1>11, <2>1, <2>2 DEF NoGap
  <2>4. jobs[r] = "runnable" \/ Wanted(r)
    BY <2>1, <2>3 DEF Wanted, UntouchedWaits, Runnable, InScope, Reason
  <2>5. r \in Batch => StillToCome(r)'
    BY <1>1, <1>7, <1>9, <1>11, EmptySeq DEF StillToCome
  <2>6. Wanted(r) => r \in Batch \/ (cursor' # 0 /\ r > cursor')
    BY <2>1, NextCursorIsBehind DEF Select
  <2>7. phase' = "over" => Batch = {} /\ \A q \in RunNumber : ~Wanted(q)
    <3> SUFFICES ASSUME phase' = "over", NEW q \in RunNumber, Wanted(q) PROVE FALSE
      BY <1>11 DEF Select
    <3>1. Batch = {}
      BY DEF Select
    <3> QED
      BY <3>1, BatchTakesTheFirst
  <2> QED
    BY <1>11, <1>13, <2>1, <2>4, <2>5, <2>6, <2>7 DEF Steps
<1> QED
  BY <1>10, <1>12, <1>14, <1>15

LEMMA BeginAuditKeeps ==
  ASSUME RecoveryInv, BeginAudit
  PROVE  RecoveryInv'
<1> USE DEF RecoveryInv
<1>1. NewAudit \in AuditRow
  BY DEF NewAudit, AuditRow, NoCounters
<1>2. /\ UNCHANGED <<runStatus, stuck, jobs, command, cursor, candidates, inspected, items,
                     counters, result, untouched, created>>
      /\ phase = "begin" /\ phase' = "inspect" /\ audits' = Append(audits, NewAudit)
  BY DEF BeginAudit, worldVars, batchVars
<1>3. RecoveryTypes'
  BY <1>1, <1>2, AppendProperties DEF RecoveryTypes
<1>4. audits' # <<>>
  BY <1>1, <1>2, AppendProperties DEF RecoveryTypes
<1>5. Steps'
  BY <1>2, <1>4 DEF Steps
<1>6. UntouchedWaits'
  BY <1>2 DEF UntouchedWaits, Runnable
<1>7. CleanSoFar' => CleanSoFar
  <2>1. \A i \in 1..Len(audits) : audits'[i] = audits[i]
    BY <1>1, <1>2, AppendProperties DEF RecoveryTypes
  <2>2. Len(audits) <= Len(audits')
    BY <1>1, <1>2, AppendProperties DEF RecoveryTypes
  <2> QED
    BY <1>2, <1>3, <2>1, <2>2, SoundBefore DEF CleanSoFar, RecoveryTypes
<1>8. NoGap'
  BY <1>2, <1>7 DEF NoGap, InScope, Walking, StillToCome
<1> QED
  BY <1>3, <1>5, <1>6, <1>8

LEMMA InspectKeeps ==
  ASSUME RecoveryInv, InspectJobs
  PROVE  RecoveryInv'
<1> USE DEF RecoveryInv
<1>1. /\ UNCHANGED <<runStatus, stuck, jobs, command, cursor, candidates, items,
                     counters, audits, result, untouched, created>>
      /\ phase = "inspect" /\ phase' = "item" /\ inspected' = jobs
  BY DEF InspectJobs, worldVars
<1>2. RecoveryTypes'
  BY <1>1 DEF RecoveryTypes
<1>3. Steps'
  BY <1>1 DEF Steps
<1>4. UntouchedWaits'
  BY <1>1 DEF UntouchedWaits, Runnable
<1>5. NoGap'
  BY <1>1 DEF NoGap, InScope, Walking, StillToCome, CleanSoFar, Sound
<1> QED
  BY <1>2, <1>3, <1>4, <1>5

(* What the actions of one item have in common.                            *)
ItemTaken(action, outbox) ==
  /\ AtItem /\ ItemDone(Candidate, action, outbox)
  /\ UNCHANGED <<runStatus, stuck, command, cursor, candidates, inspected, audits, result,
                 untouched>>

LEMMA CandidateAt ==
  ASSUME RecoveryInv, AtItem
  PROVE  /\ Candidate \in CandidateRow
         /\ Len(items) \in Nat /\ Len(candidates) \in Nat
         /\ Len(items) + 1 \in 1..Len(candidates) /\ Candidate = candidates[Len(items) + 1]
<1>1. Len(items) \in Nat /\ Len(candidates) \in Nat
  BY LenProperties DEF RecoveryInv, RecoveryTypes
<1>2. Len(items) + 1 \in 1..Len(candidates)
  BY <1>1 DEF AtItem
<1> QED
  BY <1>1, <1>2, ElementOfSeq DEF RecoveryInv, RecoveryTypes, Candidate

LEMMA ItemAppended ==
  ASSUME RecoveryInv, NEW action, NEW outbox, ItemTaken(action, outbox),
         action \in {"none", "deferred", "would_enqueue", "duplicate", "enqueued", "failed"},
         outbox \in {"none", "would_acknowledge", "acknowledged", "failed"}
  PROVE  /\ items' \in Seq(ItemRow) /\ Len(items') = Len(items) + 1
         /\ \A i \in 1..Len(items) : items'[i] = items[i]
         /\ items'[Len(items')].run = Candidate.run
         /\ items'[Len(items')].action = action /\ items'[Len(items')].outbox = outbox
         /\ items'[Len(items')].state = inspected[Candidate.run]
<1> DEFINE x == [run |-> Candidate.run, reason |-> Candidate.reason,
                 unsent |-> Candidate.unsent, state |-> inspected[Candidate.run],
                 action |-> action, outbox |-> outbox]
<1>1. Candidate \in CandidateRow
  BY CandidateAt DEF ItemTaken
<1>2. x \in ItemRow
  BY <1>1 DEF ItemRow, CandidateRow, RecoveryInv, RecoveryTypes
<1>3. /\ x.run = Candidate.run /\ x.action = action /\ x.outbox = outbox
      /\ x.state = inspected[Candidate.run]
  OBVIOUS
<1>4. items' = Append(items, x)
  BY DEF ItemTaken, ItemDone
<1> HIDE DEF x
<1>5. items \in Seq(ItemRow)
  BY DEF RecoveryInv, RecoveryTypes
<1>6. Len(items') = Len(items) + 1 /\ items'[Len(items')] = x
  BY <1>2, <1>4, <1>5, AppendProperties
<1> QED
  BY <1>2, <1>3, <1>4, <1>5, <1>6, AppendProperties

LEMMA CountTypes ==
  ASSUME RecoveryTypes, NEW names
  PROVE  Count(names) \in [CounterName -> Nat]
BY DEF RecoveryTypes, Count

LEMMA ItemKeeps ==
  ASSUME RecoveryInv, NEW action, NEW outbox, ItemTaken(action, outbox),
         action \in {"none", "deferred", "would_enqueue", "duplicate", "enqueued", "failed"},
         outbox \in {"none", "would_acknowledge", "acknowledged", "failed"},
         jobs' \in [RunNumber -> QueueState], created' \subseteq RunNumber,
         \A r \in untouched : jobs[r] = "runnable" => jobs'[r] = "runnable",
         ~command.dryRun /\ "failed" \notin {action, outbox} /\ Candidate.run \in untouched
           => jobs'[Candidate.run] = "runnable"
  PROVE  RecoveryInv'
<1> USE DEF RecoveryInv
<1>1. /\ UNCHANGED <<runStatus, stuck, command, cursor, candidates, inspected, audits, result,
                     untouched>>
      /\ phase = "item" /\ phase' = "record"
  BY DEF ItemTaken, AtItem, ItemDone
<1>2. AtItem
  BY DEF ItemTaken
<1>3. /\ items' \in Seq(ItemRow) /\ Len(items') = Len(items) + 1
      /\ \A i \in 1..Len(items) : items'[i] = items[i]
      /\ items'[Len(items')].run = Candidate.run
      /\ items'[Len(items')].action = action /\ items'[Len(items')].outbox = outbox
  BY ItemAppended
<1>4. counters' \in [CounterName -> Nat]
  BY CountTypes DEF ItemTaken, ItemDone
<1>5. /\ Len(items) \in Nat /\ Len(candidates) \in Nat
      /\ Len(items) + 1 \in 1..Len(candidates) /\ Candidate = candidates[Len(items) + 1]
  BY <1>2, CandidateAt
<1>6. RecoveryTypes'
  BY <1>1, <1>3, <1>4 DEF RecoveryTypes
<1>7. Steps'
  <2>1. \A i \in 1..Len(items') : items'[i].run = candidates'[i].run
    BY <1>1, <1>3, <1>5 DEF Steps
  <2>2. items' # <<>>
    BY <1>3, <1>5
  <2> QED
    BY <1>1, <1>3, <1>5, <2>1, <2>2 DEF Steps
<1>8. UntouchedWaits'
  BY <1>1 DEF UntouchedWaits, Runnable
<1>9. NoGap'
  <2> SUFFICES ASSUME ~command.dryRun, CleanSoFar', NEW r \in untouched, InScope(r)
               PROVE  \/ jobs'[r] = "runnable" \/ StillToCome(r)'
                      \/ cursor' # 0 /\ r > cursor'
    BY <1>1 DEF NoGap, InScope, Walking, Steps
  <2>1. CleanSoFar /\ "failed" \notin {action, outbox}
    BY <1>1, <1>3 DEF CleanSoFar, Sound, Failed
  <2>2. jobs[r] = "runnable" \/ StillToCome(r) \/ (cursor # 0 /\ r > cursor)
    BY <1>1, <2>1 DEF NoGap, Walking
  <2>3. StillToCome(r) => r = Candidate.run \/ StillToCome(r)'
    BY <1>1, <1>3, <1>5 DEF StillToCome
  <2> QED
    BY <1>1, <2>1, <2>2, <2>3
<1> QED
  BY <1>6, <1>7, <1>8, <1>9

LEMMA DryRunKeeps ==
  ASSUME RecoveryInv, DryRunItem
  PROVE  RecoveryInv'
<1> DEFINE valid == inspected[Candidate.run] = "runnable"
           action == IF valid THEN "none"
                     ELSE IF Candidate.reason = "active_lease" THEN "deferred"
                     ELSE "would_enqueue"
           outbox == IF Candidate.unsent /\ action # "deferred" THEN "would_acknowledge"
                     ELSE "none"
<1>1. ItemTaken(action, outbox) /\ command.dryRun /\ jobs' = jobs /\ created' = created
  BY DEF DryRunItem, ItemTaken, worldVars
<1>2. /\ action \in {"none", "deferred", "would_enqueue", "duplicate", "enqueued", "failed"}
      /\ outbox \in {"none", "would_acknowledge", "acknowledged", "failed"}
  OBVIOUS
<1> HIDE DEF action, outbox
<1> QED
  BY <1>1, <1>2, ItemKeeps DEF RecoveryInv, RecoveryTypes

(* An untouched candidate has a job once its queue is repaired.            *)
LEMMA RepairServes ==
  ASSUME RecoveryInv, AtItem, QueueRepaired(Candidate)
  PROVE  /\ jobs' \in [RunNumber -> QueueState] /\ created' \subseteq RunNumber
         /\ \A r \in untouched : jobs[r] = "runnable" => jobs'[r] = "runnable"
         /\ Candidate.run \in untouched => jobs'[Candidate.run] = "runnable"
<1>1. Candidate \in CandidateRow /\ Candidate.run \in RunNumber
  BY CandidateAt DEF CandidateRow
<1>2. jobs \in [RunNumber -> QueueState] /\ created \subseteq RunNumber
      /\ untouched \subseteq RunNumber
  BY DEF RecoveryInv, RecoveryTypes
<1>3. Candidate.run \in untouched => Candidate.reason # "active_lease"
  BY CandidateAt DEF RecoveryInv, UntouchedWaits
<1>4. Candidate.run \in untouched /\ inspected[Candidate.run] = "runnable"
        => jobs[Candidate.run] = "runnable"
  BY DEF RecoveryInv, UntouchedWaits, AtItem
<1> HIDE DEF Candidate
<1>5. \/ Enqueues(Candidate) /\ jobs' = [jobs EXCEPT ![Candidate.run] = "runnable"]
      \/ ~Enqueues(Candidate) /\ jobs' = jobs
  BY DEF QueueRepaired
<1>6. created' \subseteq RunNumber
  BY <1>1, <1>2 DEF QueueRepaired
<1>7. Candidate.run \in untouched /\ ~Enqueues(Candidate) => jobs[Candidate.run] = "runnable"
  BY <1>3, <1>4 DEF Enqueues, Deferred
<1> QED
  BY <1>1, <1>2, <1>5, <1>6, <1>7 DEF QueueState

LEMMA ActionType ==
  ASSUME NEW x
  PROVE  Action(x) \in {"duplicate", "enqueued", "deferred", "none"}
BY DEF Action

LEMMA RepairKeeps ==
  ASSUME RecoveryInv, RepairItem
  PROVE  RecoveryInv'
<1>1. PICK acknowledges \in BOOLEAN :
        /\ QueueRepaired(Candidate)
        /\ ItemDone(Candidate, Action(Candidate), IF acknowledges THEN "acknowledged" ELSE "none")
  BY DEF RepairItem
<1> DEFINE outbox == IF acknowledges THEN "acknowledged" ELSE "none"
<1>2. ItemTaken(Action(Candidate), outbox) /\ AtItem
  BY <1>1 DEF RepairItem, ItemTaken
<1>3. outbox \in {"none", "would_acknowledge", "acknowledged", "failed"}
  OBVIOUS
<1> HIDE DEF outbox
<1> QED
  BY <1>1, <1>2, <1>3, RepairServes, ActionType, ItemKeeps

LEMMA EnqueueFailsKeeps ==
  ASSUME RecoveryInv, EnqueueFails
  PROVE  RecoveryInv'
<1> DEFINE outbox == IF Candidate.unsent THEN "failed" ELSE "none"
<1>1. ItemTaken("failed", outbox) /\ AtItem
  BY DEF EnqueueFails, ItemTaken
<1>2. outbox \in {"none", "would_acknowledge", "acknowledged", "failed"}
  OBVIOUS
<1>3. /\ jobs' \in [RunNumber -> QueueState] /\ created' \subseteq RunNumber
      /\ \A r \in untouched : jobs[r] = "runnable" => jobs'[r] = "runnable"
  <2>1. CASE QueueRepaired(Candidate)
    BY <1>1, <2>1, RepairServes
  <2>2. CASE UNCHANGED <<jobs, created>>
    BY <2>2 DEF RecoveryInv, RecoveryTypes
  <2>3. CASE /\ jobs[Candidate.run] \in {"terminal", "invalid"}
             /\ jobs' = [jobs EXCEPT ![Candidate.run] = "missing"] /\ UNCHANGED created
    <3>1. jobs \in [RunNumber -> QueueState] /\ created \subseteq RunNumber
          /\ untouched \subseteq RunNumber
      BY DEF RecoveryInv, RecoveryTypes
    <3> HIDE DEF Candidate
    <3> QED
      BY <2>3, <3>1 DEF QueueState
  <2> QED
    BY <2>1, <2>2, <2>3 DEF EnqueueFails
<1> HIDE DEF outbox
<1> QED
  BY <1>1, <1>2, <1>3, ItemKeeps

LEMMA AcknowledgeFailsKeeps ==
  ASSUME RecoveryInv, AcknowledgeFails
  PROVE  RecoveryInv'
<1>1. ItemTaken(Action(Candidate), "failed") /\ AtItem /\ QueueRepaired(Candidate)
  BY DEF AcknowledgeFails, ItemTaken
<1> QED
  BY <1>1, RepairServes, ActionType, ItemKeeps

(* An audit row is written to: its items grow, the other rows stay.        *)
AuditWritten(a) ==
  /\ audits # <<>> /\ a \in AuditRow /\ LastAudit.items \subseteq a.items
  /\ audits' = [audits EXCEPT ![Len(audits)] = a]

LEMMA LastAuditIs ==
  ASSUME RecoveryTypes, audits # <<>>
  PROVE  Len(audits) \in 1..Len(audits) /\ Len(audits) \in Nat /\ LastAudit \in AuditRow
<1>1. Len(audits) \in Nat /\ Len(audits) # 0
  BY LenProperties, EmptySeq DEF RecoveryTypes
<1> QED
  BY <1>1, AuditAt DEF LastAudit

LEMMA WritingKeeps ==
  ASSUME RecoveryTypes, NEW a, AuditWritten(a)
  PROVE  /\ audits' \in Seq(AuditRow) /\ Len(audits') = Len(audits) /\ audits' # <<>>
         /\ audits'[Len(audits)] = a
         /\ \A i \in 1..Len(audits) : i # Len(audits) => audits'[i] = audits[i]
         /\ Sound' => Sound
<1>1. Len(audits) \in 1..Len(audits) /\ LastAudit \in AuditRow /\ Len(audits) \in Nat
  BY LastAuditIs DEF AuditWritten
<1>2. audits \in Seq(AuditRow)
  BY DEF RecoveryTypes
<1>3. audits' \in Seq(AuditRow) /\ Len(audits') = Len(audits)
  BY <1>1, <1>2, ExceptSeq DEF AuditWritten
<1>4. /\ audits'[Len(audits)] = a
      /\ \A i \in 1..Len(audits) : i # Len(audits) => audits'[i] = audits[i]
  BY <1>1, <1>2, ExceptSeq DEF AuditWritten
<1>5. \A i \in 1..Len(audits) : audits[i].items \subseteq audits'[i].items
  BY <1>1, <1>4 DEF AuditWritten, LastAudit
<1>6. Sound' => Sound
  BY <1>1, <1>3, <1>5, SoundBefore
<1> QED
  BY <1>1, <1>3, <1>4, <1>6, EmptySeq

LEMMA RecordKeeps ==
  ASSUME RecoveryInv, RecordItem
  PROVE  RecoveryInv'
<1> USE DEF RecoveryInv
<1> DEFINE a == [LastAudit EXCEPT !.items = @ \union {items[Len(items)]}]
<1>1. /\ UNCHANGED <<runStatus, stuck, jobs, command, cursor, candidates, inspected, items,
                     counters, result, untouched, created>>
      /\ phase = "record" /\ phase' = "item"
  BY DEF RecordItem, worldVars, batchVars
<1>2. audits # <<>> /\ items # <<>> /\ LastAudit \in AuditRow
  BY <1>1, LastAuditIs DEF Steps
<1>3. items[Len(items)] \in ItemRow
  BY <1>2, ElementOfSeq, EmptySeq, LenProperties DEF RecoveryTypes
<1>4. a \in AuditRow /\ LastAudit.items \subseteq a.items /\ items[Len(items)] \in a.items
  BY <1>2, <1>3 DEF AuditRow
<1>5. audits' = [audits EXCEPT ![Len(audits)] = a]
  BY DEF RecordItem, RecordsItem, LastAudit
<1> HIDE DEF a
<1>6. AuditWritten(a)
  BY <1>2, <1>4, <1>5 DEF AuditWritten
<1>7. RecoveryTypes'
  BY <1>1, <1>6, WritingKeeps DEF RecoveryTypes
<1>8. Steps'
  BY <1>1, <1>6, WritingKeeps DEF Steps
<1>9. UntouchedWaits'
  BY <1>1 DEF UntouchedWaits, Runnable
<1>10. CleanSoFar' => CleanSoFar
  <2> SUFFICES ASSUME Sound' PROVE Sound /\ ~Failed(items[Len(items)])
    BY <1>1 DEF CleanSoFar
  <2>1. a \in Range(audits')
    BY <1>6, WritingKeeps, LastAuditIs DEF Range, AuditWritten, RecoveryTypes
  <2> QED
    BY <1>4, <1>6, <2>1, WritingKeeps DEF Sound, Failed
<1>11. NoGap'
  BY <1>1, <1>10 DEF NoGap, InScope, Walking, StillToCome
<1> QED
  BY <1>7, <1>8, <1>9, <1>11

LEMMA CompleteKeeps ==
  ASSUME RecoveryInv, CompleteAudit
  PROVE  RecoveryInv'
<1> USE DEF RecoveryInv
<1> DEFINE a == Completed(LastAudit)
<1>1. /\ UNCHANGED <<runStatus, stuck, jobs, command, cursor, candidates, inspected, items,
                     counters, untouched, created>>
      /\ phase = "item" /\ Len(items) = Len(candidates)
      /\ \/ cursor # 0 /\ phase' = "select" /\ result' = result
         \/ cursor = 0 /\ phase' = "over" /\ result' = "finished"
         \/ phase' = "over" /\ result' = "stopped"
  BY DEF CompleteAudit, worldVars, batchVars
<1>2. audits # <<>> /\ LastAudit \in AuditRow
  BY <1>1, LastAuditIs DEF Steps
<1>3. a \in AuditRow /\ LastAudit.items \subseteq a.items
  BY <1>2 DEF AuditRow, Completed, RecoveryTypes
<1>4. audits' = [audits EXCEPT ![Len(audits)] = a]
  BY DEF CompleteAudit, LastAudit
<1> HIDE DEF a
<1>5. AuditWritten(a)
  BY <1>2, <1>3, <1>4 DEF AuditWritten
<1>6. RecoveryTypes'
  BY <1>1, <1>5, WritingKeeps DEF RecoveryTypes
<1>7. result # "finished"
  BY <1>1 DEF Steps
<1>8. Steps'
  BY <1>1, <1>5, <1>7 DEF Steps
<1>9. UntouchedWaits'
  BY <1>1 DEF UntouchedWaits, Runnable
<1>10. CleanSoFar' => CleanSoFar
  BY <1>1, <1>5, WritingKeeps DEF CleanSoFar
<1>11. \A r \in untouched : ~StillToCome(r)
  BY <1>1 DEF StillToCome, RecoveryTypes
<1>12. NoGap'
  BY <1>1, <1>7, <1>10, <1>11 DEF NoGap, InScope, Walking
<1> QED
  BY <1>6, <1>8, <1>9, <1>12

(* A command that failed or died has nothing to show.                      *)
LEMMA EndKeeps ==
  ASSUME RecoveryInv, phase # "idle", phase' = "over", result' \notin {"finished"},
         audits' \in Seq(AuditRow),
         UNCHANGED <<runStatus, stuck, jobs, command, cursor, candidates, inspected, items,
                     counters, untouched, created>>
  PROVE  RecoveryInv'
<1> USE DEF RecoveryInv
<1>1. RecoveryTypes'
  BY DEF RecoveryTypes
<1>2. Steps'
  BY DEF Steps
<1>3. UntouchedWaits'
  BY DEF UntouchedWaits, Runnable
<1>4. NoGap'
  BY DEF NoGap, Walking
<1> QED
  BY <1>1, <1>2, <1>3, <1>4

LEMMA FailKeeps ==
  ASSUME RecoveryInv, RecoveryFails
  PROVE  RecoveryInv'
<1> USE DEF RecoveryInv
<1>1. audits' \in Seq(AuditRow)
  <2>1. CASE UNCHANGED audits
    BY <2>1 DEF RecoveryTypes
  <2>2. CASE audits' = Append(audits, NewAudit)
    <3>1. NewAudit \in AuditRow
      BY DEF NewAudit, AuditRow, NoCounters
    <3> QED
      BY <2>2, <3>1, AppendProperties DEF RecoveryTypes
  <2>3. ASSUME phase \in {"inspect", "item", "record"},
               NEW close \in {"failed", "running"}, NEW more \in {{}, Unrecorded},
               audits' = [audits EXCEPT ![Len(audits)] = ClosedAs(@, close, more)]
        PROVE  audits' \in Seq(AuditRow)
    <3> DEFINE a == ClosedAs(LastAudit, close, more)
    <3>1. audits # <<>> /\ LastAudit \in AuditRow
      BY <2>3, LastAuditIs DEF Steps
    <3>2. more \subseteq ItemRow
      <4>1. phase = "record" => items[Len(items)] \in ItemRow
        BY ElementOfSeq, EmptySeq, LenProperties DEF RecoveryTypes, Steps
      <4> QED
        BY <4>1 DEF Unrecorded
    <3>3. a \in AuditRow /\ LastAudit.items \subseteq a.items
      BY <3>1, <3>2 DEF AuditRow, ClosedAs
    <3>4. audits' = [audits EXCEPT ![Len(audits)] = a]
      BY <2>3 DEF LastAudit
    <3> HIDE DEF a
    <3> QED
      BY <3>1, <3>3, <3>4, WritingKeeps DEF AuditWritten
  <2>4. CASE phase = "item" /\ audits' = [audits EXCEPT ![Len(audits)] = Completed(@)]
    <3> DEFINE a == Completed(LastAudit)
    <3>1. audits # <<>> /\ LastAudit \in AuditRow
      BY <2>4, LastAuditIs DEF Steps
    <3>2. a \in AuditRow /\ LastAudit.items \subseteq a.items
      BY <3>1 DEF AuditRow, Completed, RecoveryTypes
    <3>3. audits' = [audits EXCEPT ![Len(audits)] = a]
      BY <2>4 DEF LastAudit
    <3> HIDE DEF a
    <3> QED
      BY <3>1, <3>2, <3>3, WritingKeeps DEF AuditWritten
  <2> QED
    BY <2>1, <2>2, <2>3, <2>4 DEF RecoveryFails
<1> QED
  BY <1>1, EndKeeps DEF RecoveryFails, worldVars, batchVars

LEMMA RecoveryDiesKeeps ==
  ASSUME RecoveryInv, CommandDies
  PROVE  RecoveryInv'
BY EndKeeps DEF CommandDies, worldVars, batchVars, RecoveryInv, RecoveryTypes

(* What the others do takes nothing away from a run nobody has worked on.  *)
LEMMA OthersKeep ==
  ASSUME RecoveryInv, OthersOnly,
         runStatus' \in [RunNumber -> {"absent", "queued", "leased", "expired", "done"}],
         stuck' \subseteq stuck, jobs' \in [RunNumber -> QueueState],
         untouched' \subseteq untouched,
         \A r \in untouched' :
           /\ runStatus'[r] = runStatus[r] /\ (r \in stuck' => r \in stuck)
           /\ jobs[r] = "runnable" => jobs'[r] = "runnable"
  PROVE  RecoveryInv'
<1> USE DEF RecoveryInv
<1>1. UNCHANGED <<command, phase, cursor, candidates, inspected, items, counters, audits,
                  result, created>>
  BY DEF OthersOnly, batchVars
<1>2. RecoveryTypes'
  BY <1>1 DEF RecoveryTypes
<1>3. Steps'
  BY <1>1 DEF Steps
<1>4. UntouchedWaits'
  BY <1>1 DEF UntouchedWaits, Runnable
<1>5. NoGap'
  BY <1>1 DEF NoGap, InScope, Walking, StillToCome, CleanSoFar, Sound
<1> QED
  BY <1>2, <1>3, <1>4, <1>5

LEMMA AcceptKeeps ==
  ASSUME RecoveryInv, NEW r \in RunNumber, AcceptRun(r)
  PROVE  RecoveryInv'
<1>1. r \notin untouched
  BY DEF AcceptRun, RecoveryInv, UntouchedWaits, Runnable
<1> QED
  BY <1>1, OthersKeep DEF AcceptRun, RecoveryInv, RecoveryTypes

LEMMA RelayKeeps ==
  ASSUME RecoveryInv, NEW r \in RunNumber, RelayJob(r)
  PROVE  RecoveryInv'
BY OthersKeep DEF RelayJob, RecoveryInv, RecoveryTypes, QueueState

LEMMA ClaimKeeps ==
  ASSUME RecoveryInv, NEW r \in RunNumber, ClaimRun(r)
  PROVE  RecoveryInv'
BY OthersKeep DEF ClaimRun, RecoveryInv, RecoveryTypes

LEMMA EndAttemptKeeps ==
  ASSUME RecoveryInv, NEW r \in RunNumber, NEW s \in {"queued", "done"}, EndAttempt(r, s)
  PROVE  RecoveryInv'
<1>1. r \notin untouched
  BY DEF EndAttempt, RecoveryInv, UntouchedWaits, Runnable
<1>2. jobs' = jobs \/ jobs' = [jobs EXCEPT ![r] = "terminal"]
  BY DEF EndAttempt
<1> QED
  BY <1>1, <1>2, OthersKeep DEF EndAttempt, RecoveryInv, RecoveryTypes, QueueState

LEMMA RecoveryStepKeeps == RecoveryInv /\ [RecoveryNext]_recoveryVars => RecoveryInv'
<1> SUFFICES ASSUME RecoveryInv, [RecoveryNext]_recoveryVars PROVE RecoveryInv'
  OBVIOUS
<1>1. CASE UNCHANGED recoveryVars
  <2>1. UNCHANGED <<runStatus, stuck, jobs, command, phase, cursor, candidates, inspected,
                    items, counters, audits, result, untouched, created>>
    BY <1>1 DEF recoveryVars, worldVars, batchVars
  <2> QED
    BY <2>1 DEF RecoveryInv, RecoveryTypes, Steps, UntouchedWaits, NoGap, Runnable, InScope,
                CleanSoFar, Sound, Walking, StillToCome
<1>2. CASE CommandSteps
  BY <1>2, StartRecoveryKeeps, SelectKeeps, BeginAuditKeeps, InspectKeeps, DryRunKeeps, RepairKeeps,
     EnqueueFailsKeeps, AcknowledgeFailsKeeps, RecordKeeps, CompleteKeeps, FailKeeps, RecoveryDiesKeeps
     DEF CommandSteps
<1>3. CASE RecoveryNext /\ ~CommandSteps
  BY <1>3, AcceptKeeps, RelayKeeps, ClaimKeeps, EndAttemptKeeps DEF RecoveryNext
<1> QED
  BY <1>1, <1>2, <1>3

LEMMA NothingIsLeft == RecoveryInv => NothingLeftBehind
<1> SUFFICES ASSUME RecoveryInv, result = "finished", ~command.dryRun, Sound,
                    NEW r \in untouched,
                    command.mode = "all" \/ r \in stuck \/ runStatus[r] = "expired"
             PROVE  jobs[r] = "runnable"
  BY DEF NothingLeftBehind
<1>1. CleanSoFar
  BY DEF CleanSoFar, RecoveryInv, Steps
<1> QED
  BY <1>1 DEF RecoveryInv, NoGap, InScope

THEOREM RecoveryLeavesNothing == RecoverySpec => []NothingLeftBehind
<1>1. RecoverySpec => []RecoveryInv
  BY RecoveryStarts, RecoveryStepKeeps, PTL DEF RecoverySpec
<1> QED
  BY <1>1, NothingIsLeft, PTL
-----------------------------------------------------------------------------
(* The audit tells what was done.                                          *)

Seen == {items[i] : i \in 1..Len(items)}
Written == {items[i] : i \in 1..Len(items) - 1}
Late == IF phase = "record" \/ (phase = "over" /\ LastAudit.status # "completed")
        THEN {items[Len(items)].run} ELSE {}

Tallies(n, S) ==
  /\ n["found"] = Cardinality(S)
  /\ \A c \in QueueState : n[c] = Cardinality({x \in S : x.state = c})
  /\ \A c \in {"enqueued", "duplicate"} : n[c] = Cardinality({x \in S : x.action = c})
  /\ n["acknowledged"] = Cardinality({x \in S : x.outbox = "acknowledged"})
  /\ n["failed"] = Cardinality({x \in S : "failed" \in {x.action, x.outbox}})

(* The counters are those of the items looked at, of which the audit row   *)
(* lacks the last as long as it is not recorded.                           *)
Counted == Walking => IsFiniteSet(Seen) /\ Tallies(counters, Seen)

RowsOfBatches ==
  /\ phase = "idle" => audits = <<>>
  /\ phase \in {"inspect", "item", "record"} => LastAudit.status = "running"
  /\ phase = "inspect" => LastAudit.items = {}
  /\ phase = "item" => LastAudit.items = Seen
  /\ phase = "record" => LastAudit.items = Written
  /\ \A i \in 1..Len(audits) : audits[i].status = "completed" =>
       Tallies(audits[i].counters, audits[i].items)
  /\ \A i \in 1..Len(audits) :
       i < Len(audits) \/ phase \in {"select", "begin"} \/ result = "finished" =>
         audits[i].status = "completed"

(* A job that the batch put in the queue is named by the row of the batch, *)
(* or its item is the one the command was at.                              *)
JobsAreNamed ==
  created # {} => /\ audits # <<>> /\ phase \notin {"idle", "begin"}
                  /\ created \subseteq {x.run : x \in LastAudit.items} \union Late

Books == Counted /\ RowsOfBatches /\ JobsAreNamed

LEMMA OneMore ==
  ASSUME NEW S, IsFiniteSet(S), NEW x, x \notin S, NEW T, NEW U, T \subseteq S,
         NEW yes \in BOOLEAN, U = IF yes THEN T \union {x} ELSE T
  PROVE  Cardinality(U) = Cardinality(T) + (IF yes THEN 1 ELSE 0)
<1>1. IsFiniteSet(T) /\ Cardinality(T) \in Nat
  BY FS_Subset, FS_CardinalityType
<1>2. CASE yes
  <2>1. U = T \union {x} /\ x \notin T
    BY <1>2
  <2> QED
    BY <1>1, <1>2, <2>1, FS_AddElement
<1>3. CASE ~yes
  BY <1>1, <1>3
<1> QED
  BY <1>2, <1>3

LEMMA OneMoreTally ==
  ASSUME NEW S, IsFiniteSet(S), NEW x, x \notin S, NEW n \in [CounterName -> Nat], Tallies(n, S),
         NEW names,
         "found" \in names, \A c \in QueueState : c \in names <=> x.state = c,
         \A c \in {"enqueued", "duplicate"} : c \in names <=> x.action = c,
         "acknowledged" \in names <=> x.outbox = "acknowledged",
         "failed" \in names <=> "failed" \in {x.action, x.outbox}
  PROVE  Tallies([c \in CounterName |-> n[c] + IF c \in names THEN 1 ELSE 0], S \union {x})
<1> DEFINE m == [c \in CounterName |-> n[c] + IF c \in names THEN 1 ELSE 0]
           T == S \union {x}
<1>1. /\ {"found", "enqueued", "duplicate", "acknowledged", "failed"} \subseteq CounterName
      /\ QueueState \subseteq CounterName
  BY DEF CounterName
<1>2. \A c \in CounterName : m[c] = n[c] + IF c \in names THEN 1 ELSE 0
  OBVIOUS
<1> HIDE DEF m
<1>3. m["found"] = Cardinality(T)
  <2>1. Cardinality(T) = Cardinality(S) + 1 /\ Cardinality(S) \in Nat
    BY FS_AddElement, FS_CardinalityType
  <2> QED
    BY <1>1, <1>2, <2>1 DEF Tallies
<1>4. ASSUME NEW c \in QueueState
      PROVE  m[c] = Cardinality({y \in T : y.state = c})
  <2> DEFINE A == {y \in S : y.state = c}
             B == {y \in T : y.state = c}
             yes == x.state = c
  <2>1. B = IF yes THEN A \union {x} ELSE A
    OBVIOUS
  <2>2. A \subseteq S /\ yes \in BOOLEAN
    OBVIOUS
  <2>3. n[c] = Cardinality(A)
    BY <1>4 DEF Tallies
  <2> HIDE DEF A, B, T, yes
  <2>4. Cardinality(B) = Cardinality(A) + (IF yes THEN 1 ELSE 0)
    BY <2>1, <2>2, OneMore
  <2> QED
    BY <1>1, <1>2, <1>4, <2>3, <2>4 DEF B, T, yes
<1>5. ASSUME NEW c \in {"enqueued", "duplicate"}
      PROVE  m[c] = Cardinality({y \in T : y.action = c})
  <2> DEFINE A == {y \in S : y.action = c}
             B == {y \in T : y.action = c}
             yes == x.action = c
  <2>1. B = IF yes THEN A \union {x} ELSE A
    OBVIOUS
  <2>2. A \subseteq S /\ yes \in BOOLEAN
    OBVIOUS
  <2>3. n[c] = Cardinality(A)
    BY <1>5 DEF Tallies
  <2> HIDE DEF A, B, T, yes
  <2>4. Cardinality(B) = Cardinality(A) + (IF yes THEN 1 ELSE 0)
    BY <2>1, <2>2, OneMore
  <2> QED
    BY <1>1, <1>2, <1>5, <2>3, <2>4 DEF B, T, yes
<1>6. m["acknowledged"] = Cardinality({y \in T : y.outbox = "acknowledged"})
  <2> DEFINE A == {y \in S : y.outbox = "acknowledged"}
             B == {y \in T : y.outbox = "acknowledged"}
             yes == x.outbox = "acknowledged"
  <2>1. B = IF yes THEN A \union {x} ELSE A
    OBVIOUS
  <2>2. A \subseteq S /\ yes \in BOOLEAN
    OBVIOUS
  <2>3. n["acknowledged"] = Cardinality(A)
    BY DEF Tallies
  <2> HIDE DEF A, B, T, yes
  <2>4. Cardinality(B) = Cardinality(A) + (IF yes THEN 1 ELSE 0)
    BY <2>1, <2>2, OneMore
  <2> QED
    BY <1>1, <1>2, <2>3, <2>4 DEF B, T, yes
<1>7. m["failed"] = Cardinality({y \in T : "failed" \in {y.action, y.outbox}})
  <2> DEFINE A == {y \in S : "failed" \in {y.action, y.outbox}}
             B == {y \in T : "failed" \in {y.action, y.outbox}}
             yes == "failed" \in {x.action, x.outbox}
  <2>1. B = IF yes THEN A \union {x} ELSE A
    OBVIOUS
  <2>2. A \subseteq S /\ yes \in BOOLEAN
    OBVIOUS
  <2>3. n["failed"] = Cardinality(A)
    BY DEF Tallies
  <2>4. "failed" \in names <=> yes
    OBVIOUS
  <2> HIDE DEF A, B, T, yes
  <2>5. Cardinality(B) = Cardinality(A) + (IF yes THEN 1 ELSE 0)
    BY <2>1, <2>2, OneMore
  <2> QED
    BY <1>1, <1>2, <2>3, <2>4, <2>5 DEF B, T
<1> QED
  BY <1>3, <1>4, <1>5, <1>6, <1>7 DEF Tallies, m

LEMMA NothingTallied ==
  Tallies(NoCounters, {})
<1>1. \A c \in CounterName : NoCounters[c] = 0
  BY DEF NoCounters
<1>2. /\ {"found", "enqueued", "duplicate", "acknowledged", "failed"} \subseteq CounterName
      /\ QueueState \subseteq CounterName
  BY DEF CounterName
<1>3. /\ \A c \in QueueState : {x \in {} : x.state = c} = {}
      /\ \A c \in {"enqueued", "duplicate"} : {x \in {} : x.action = c} = {}
      /\ {x \in {} : x.outbox = "acknowledged"} = {}
      /\ {x \in {} : "failed" \in {x.action, x.outbox}} = {}
  OBVIOUS
<1> HIDE DEF NoCounters
<1> QED
  BY <1>1, <1>2, <1>3, FS_EmptySet DEF Tallies

LEMMA NothingSeen ==
  items = <<>> => Seen = {} /\ IsFiniteSet(Seen)
BY FS_EmptySet, EmptySeq DEF Seen

LEMMA BooksStart == RecoveryInit => Books
BY EmptySeq DEF RecoveryInit, Books, Counted, Walking, RowsOfBatches, JobsAreNamed

(* Where a step leaves items, rows and jobs of the batch alone.            *)
LEMMA BooksStay ==
  ASSUME RecoveryInv, Books,
         UNCHANGED <<phase, items, counters, audits, result, created>>
  PROVE  Books'
BY DEF Books, Counted, Walking, RowsOfBatches, JobsAreNamed, Seen, Written, Late, LastAudit

LEMMA StartBooks ==
  ASSUME RecoveryInv, Books, NEW c \in Command, StartRecovery(c)
  PROVE  Books'
<1>1. /\ phase = "idle" /\ phase' = "select"
      /\ UNCHANGED <<items, counters, audits, result, created>>
  BY DEF StartRecovery, batchVars
<1>2. audits = <<>> /\ created = {}
  BY <1>1 DEF Books, RowsOfBatches, JobsAreNamed
<1> QED
  BY <1>1, <1>2, EmptySeq DEF Books, Counted, Walking, RowsOfBatches, JobsAreNamed

LEMMA SelectBooks ==
  ASSUME RecoveryInv, Books, Select
  PROVE  Books'
<1>1. /\ phase = "select" /\ phase' \in {"begin", "over"} /\ items' = <<>>
      /\ counters' = NoCounters /\ created' = {} /\ audits' = audits
      /\ UNCHANGED audits
  BY DEF Select
<1>2. Seen' = {} /\ IsFiniteSet(Seen')
  BY <1>1, FS_EmptySet, EmptySeq DEF Seen
<1>3. Counted'
  BY <1>1, <1>2, NothingTallied DEF Counted
<1> QED
  BY <1>1, <1>3 DEF Books, RowsOfBatches, JobsAreNamed

LEMMA BeginBooks ==
  ASSUME RecoveryInv, Books, BeginAudit
  PROVE  Books'
<1>1. /\ phase = "begin" /\ phase' = "inspect" /\ audits' = Append(audits, NewAudit)
      /\ UNCHANGED <<items, counters, result, created>>
  BY DEF BeginAudit, batchVars
<1>2. NewAudit.status = "running" /\ NewAudit.items = {} /\ NewAudit \in AuditRow
  BY DEF NewAudit, AuditRow, NoCounters
<1>3. audits \in Seq(AuditRow) /\ Len(audits) \in Nat /\ result # "finished"
  BY <1>1, LenProperties DEF RecoveryInv, RecoveryTypes, Steps
<1>4. /\ Len(audits') = Len(audits) + 1 /\ audits'[Len(audits')] = NewAudit
      /\ \A i \in 1..Len(audits) : audits'[i] = audits[i]
  BY <1>1, <1>2, <1>3, AppendProperties
<1>5. RowsOfBatches'
  BY <1>1, <1>2, <1>3, <1>4 DEF Books, RowsOfBatches, LastAudit
<1>6. Counted'
  BY <1>1 DEF Books, Counted, Walking, Seen
<1>7. JobsAreNamed'
  BY <1>1 DEF Books, JobsAreNamed
<1> QED
  BY <1>5, <1>6, <1>7 DEF Books

LEMMA InspectBooks ==
  ASSUME RecoveryInv, Books, InspectJobs
  PROVE  Books'
<1>1. /\ phase = "inspect" /\ phase' = "item"
      /\ UNCHANGED <<items, counters, audits, result, created>>
  BY DEF InspectJobs
<1>2. Seen = {} /\ Seen' = Seen
  BY <1>1, NothingSeen DEF RecoveryInv, Steps, Seen
<1> QED
  BY <1>1, <1>2 DEF Books, Counted, Walking, RowsOfBatches, JobsAreNamed, Late, LastAudit

LEMMA ItemBooks ==
  ASSUME RecoveryInv, Books, NEW action, NEW outbox, ItemTaken(action, outbox),
         action \in {"none", "deferred", "would_enqueue", "duplicate", "enqueued", "failed"},
         outbox \in {"none", "would_acknowledge", "acknowledged", "failed"},
         created' \subseteq created \union {Candidate.run}
  PROVE  Books'
<1> DEFINE x == items'[Len(items')]
           names == Sighting(Candidate, inspected[Candidate.run]) \union Effects(action, outbox)
<1>1. /\ UNCHANGED <<candidates, inspected, audits, result>>
      /\ phase = "item" /\ phase' = "record" /\ counters' = Count(names) /\ AtItem
  BY DEF ItemTaken, AtItem, ItemDone
<1>2. /\ items' \in Seq(ItemRow) /\ Len(items') = Len(items) + 1
      /\ \A i \in 1..Len(items) : items'[i] = items[i]
      /\ x.run = Candidate.run /\ x.action = action /\ x.outbox = outbox
      /\ x.state = inspected[Candidate.run]
  BY ItemAppended
<1>3. /\ Candidate \in CandidateRow
      /\ Len(items) \in Nat /\ Len(candidates) \in Nat
      /\ Len(items) + 1 \in 1..Len(candidates) /\ Candidate = candidates[Len(items) + 1]
  BY <1>1, CandidateAt
<1> HIDE DEF x
<1>4. Seen' = Seen \union {x} /\ Written' = Seen
  BY <1>2, <1>3 DEF Seen, Written, x
<1>5. x \notin Seen
  BY <1>2, <1>3 DEF Seen, RecoveryInv, Steps
<1>6. Counted'
  <2>1. IsFiniteSet(Seen) /\ Tallies(counters, Seen)
    BY <1>1 DEF Books, Counted, Walking
  <2>2. inspected[Candidate.run] \in QueueState
    BY <1>3 DEF CandidateRow, RecoveryInv, RecoveryTypes
  <2>3. /\ "found" \in names /\ \A c \in QueueState : c \in names <=> x.state = c
        /\ \A c \in {"enqueued", "duplicate"} : c \in names <=> x.action = c
        /\ "acknowledged" \in names <=> x.outbox = "acknowledged"
        /\ "failed" \in names <=> "failed" \in {x.action, x.outbox}
    BY <1>2, <2>2 DEF Sighting, Effects, CounterName, QueueState
  <2> HIDE DEF names
  <2>4. counters' = [c \in CounterName |-> counters[c] + IF c \in names THEN 1 ELSE 0]
    BY <1>1 DEF Count
  <2>5. counters \in [CounterName -> Nat]
    BY DEF RecoveryInv, RecoveryTypes
  <2>6. Tallies(counters', Seen \union {x})
    BY <1>5, <2>1, <2>3, <2>4, <2>5, OneMoreTally
  <2>7. IsFiniteSet(Seen \union {x})
    BY <2>1, FS_AddElement
  <2> QED
    BY <1>4, <2>6, <2>7 DEF Counted
<1>7. RowsOfBatches'
  BY <1>1, <1>4 DEF Books, RowsOfBatches, LastAudit
<1>8. JobsAreNamed'
  <2>1. audits' # <<>>
    BY <1>1 DEF RecoveryInv, Steps
  <2>2. Late' = {Candidate.run}
    BY <1>1, <1>2 DEF Late, x
  <2>3. created \subseteq {y.run : y \in LastAudit.items}
    BY <1>1 DEF Books, JobsAreNamed, Late
  <2> QED
    BY <1>1, <2>1, <2>2, <2>3 DEF JobsAreNamed, LastAudit
<1> QED
  BY <1>6, <1>7, <1>8 DEF Books

LEMMA DryRunBooks ==
  ASSUME RecoveryInv, Books, DryRunItem
  PROVE  Books'
<1> DEFINE valid == inspected[Candidate.run] = "runnable"
           action == IF valid THEN "none"
                     ELSE IF Candidate.reason = "active_lease" THEN "deferred"
                     ELSE "would_enqueue"
           outbox == IF Candidate.unsent /\ action # "deferred" THEN "would_acknowledge"
                     ELSE "none"
<1>1. ItemTaken(action, outbox) /\ created' = created
  BY DEF DryRunItem, ItemTaken, worldVars
<1>2. /\ action \in {"none", "deferred", "would_enqueue", "duplicate", "enqueued", "failed"}
      /\ outbox \in {"none", "would_acknowledge", "acknowledged", "failed"}
  OBVIOUS
<1> HIDE DEF action, outbox
<1> QED
  BY <1>1, <1>2, ItemBooks

LEMMA RepairBooks ==
  ASSUME RecoveryInv, Books, RepairItem
  PROVE  Books'
<1>1. PICK acknowledges \in BOOLEAN :
        /\ QueueRepaired(Candidate)
        /\ ItemDone(Candidate, Action(Candidate), IF acknowledges THEN "acknowledged" ELSE "none")
  BY DEF RepairItem
<1> DEFINE outbox == IF acknowledges THEN "acknowledged" ELSE "none"
<1>2. ItemTaken(Action(Candidate), outbox)
  BY <1>1 DEF RepairItem, ItemTaken
<1>3. outbox \in {"none", "would_acknowledge", "acknowledged", "failed"}
  OBVIOUS
<1>4. created' \subseteq created \union {Candidate.run}
  BY <1>1 DEF QueueRepaired
<1> HIDE DEF outbox
<1> QED
  BY <1>2, <1>3, <1>4, ActionType, ItemBooks

LEMMA EnqueueFailsBooks ==
  ASSUME RecoveryInv, Books, EnqueueFails
  PROVE  Books'
<1> DEFINE outbox == IF Candidate.unsent THEN "failed" ELSE "none"
<1>1. ItemTaken("failed", outbox)
  BY DEF EnqueueFails, ItemTaken
<1>2. outbox \in {"none", "would_acknowledge", "acknowledged", "failed"}
  OBVIOUS
<1>3. created' \subseteq created \union {Candidate.run}
  BY DEF EnqueueFails, QueueRepaired
<1> HIDE DEF outbox
<1> QED
  BY <1>1, <1>2, <1>3, ItemBooks

LEMMA AcknowledgeFailsBooks ==
  ASSUME RecoveryInv, Books, AcknowledgeFails
  PROVE  Books'
<1>1. ItemTaken(Action(Candidate), "failed")
  BY DEF AcknowledgeFails, ItemTaken
<1>2. created' \subseteq created \union {Candidate.run}
  BY DEF AcknowledgeFails, QueueRepaired
<1> QED
  BY <1>1, <1>2, ActionType, ItemBooks

LEMMA SeenIsWrittenAndLast ==
  ASSUME RecoveryInv, items # <<>>
  PROVE  Seen = Written \union {items[Len(items)]}
<1>1. Len(items) \in Nat /\ Len(items) # 0
  BY LenProperties, EmptySeq DEF RecoveryInv, RecoveryTypes
<1> QED
  BY <1>1 DEF Seen, Written

LEMMA RecordBooks ==
  ASSUME RecoveryInv, Books, RecordItem
  PROVE  Books'
<1> DEFINE a == [LastAudit EXCEPT !.items = @ \union {items[Len(items)]}]
<1>1. /\ UNCHANGED <<items, counters, result, created>>
      /\ phase = "record" /\ phase' = "item"
  BY DEF RecordItem, batchVars
<1>2. /\ audits # <<>> /\ items # <<>> /\ LastAudit \in AuditRow /\ Len(audits) \in Nat
      /\ Len(audits) \in 1..Len(audits) /\ result # "finished" /\ RecoveryTypes
  BY <1>1, LastAuditIs DEF RecoveryInv, Steps
<1>3. items[Len(items)] \in ItemRow
  BY <1>2, ElementOfSeq, EmptySeq, LenProperties DEF RecoveryTypes
<1>4. /\ a \in AuditRow /\ LastAudit.items \subseteq a.items
      /\ a.items = LastAudit.items \union {items[Len(items)]} /\ a.status = LastAudit.status
  BY <1>2, <1>3 DEF AuditRow
<1>5. audits' = [audits EXCEPT ![Len(audits)] = a]
  BY DEF RecordItem, RecordsItem, LastAudit
<1> HIDE DEF a
<1>6. /\ audits'[Len(audits)] = a /\ Len(audits') = Len(audits) /\ audits' # <<>>
      /\ \A i \in 1..Len(audits) : i # Len(audits) => audits'[i] = audits[i]
  BY <1>2, <1>4, <1>5, WritingKeeps DEF AuditWritten
<1>7. LastAudit' = a
  BY <1>6 DEF LastAudit
<1>8. a.items = Seen /\ a.status = "running"
  BY <1>1, <1>2, <1>4, SeenIsWrittenAndLast DEF Books, RowsOfBatches
<1>9. Counted'
  BY <1>1 DEF Books, Counted, Walking, Seen
<1>10. RowsOfBatches'
  <2>1. Seen' = Seen
    BY <1>1 DEF Seen
  <2> QED
    BY <1>1, <1>2, <1>6, <1>7, <1>8, <2>1 DEF Books, RowsOfBatches, LastAudit
<1>11. JobsAreNamed'
  BY <1>1, <1>4, <1>6, <1>7 DEF Books, JobsAreNamed, Late
<1> QED
  BY <1>9, <1>10, <1>11 DEF Books

LEMMA CompletedRow ==
  ASSUME RecoveryInv, Books, phase = "item",
         audits' = [audits EXCEPT ![Len(audits)] = Completed(@)]
  PROVE  /\ Len(audits') = Len(audits) /\ audits' # <<>>
         /\ \A i \in 1..Len(audits) : i # Len(audits) => audits'[i] = audits[i]
         /\ LastAudit' = audits'[Len(audits)] /\ LastAudit'.status = "completed"
         /\ LastAudit'.items = LastAudit.items
         /\ Tallies(LastAudit'.counters, LastAudit'.items)
<1> DEFINE a == Completed(LastAudit)
<1>1. audits # <<>> /\ LastAudit \in AuditRow /\ RecoveryTypes
  BY LastAuditIs DEF RecoveryInv, Steps
<1>2. /\ a \in AuditRow /\ a.items = LastAudit.items /\ a.status = "completed"
      /\ a.counters = counters
  BY <1>1 DEF AuditRow, Completed, RecoveryTypes
<1>3. audits' = [audits EXCEPT ![Len(audits)] = a]
  BY DEF LastAudit
<1> HIDE DEF a
<1>4. /\ audits'[Len(audits)] = a /\ Len(audits') = Len(audits) /\ audits' # <<>>
      /\ \A i \in 1..Len(audits) : i # Len(audits) => audits'[i] = audits[i]
  BY <1>1, <1>2, <1>3, WritingKeeps DEF AuditWritten
<1>5. Tallies(counters, LastAudit.items)
  BY DEF Books, Counted, Walking, RowsOfBatches
<1> QED
  BY <1>2, <1>4, <1>5 DEF LastAudit

LEMMA CompleteBooks ==
  ASSUME RecoveryInv, Books, CompleteAudit
  PROVE  Books'
<1>1. /\ UNCHANGED <<items, counters, created>>
      /\ phase = "item" /\ phase' \in {"select", "over"}
      /\ audits' = [audits EXCEPT ![Len(audits)] = Completed(@)]
  BY DEF CompleteAudit, batchVars
<1>2. /\ Len(audits') = Len(audits) /\ audits' # <<>>
      /\ \A i \in 1..Len(audits) : i # Len(audits) => audits'[i] = audits[i]
      /\ LastAudit' = audits'[Len(audits)] /\ LastAudit'.status = "completed"
      /\ LastAudit'.items = LastAudit.items
      /\ Tallies(LastAudit'.counters, LastAudit'.items)
  BY <1>1, CompletedRow
<1>3. Len(audits) \in Nat
  BY LenProperties DEF RecoveryInv, RecoveryTypes
<1>4. RowsOfBatches'
  <2>1. ASSUME NEW i \in 1..Len(audits) PROVE audits'[i].status = "completed"
    <3>1. i < Len(audits) => audits[i].status = "completed"
      BY DEF Books, RowsOfBatches
    <3>2. i < Len(audits) \/ i = Len(audits)
      BY <1>3
    <3> QED
      BY <1>2, <1>3, <3>1, <3>2
  <2>2. \A i \in 1..Len(audits) : audits'[i].status = "completed" =>
          Tallies(audits'[i].counters, audits'[i].items)
    BY <1>1, <1>2, <1>3 DEF Books, RowsOfBatches
  <2> HIDE DEF Tallies
  <2> QED
    BY <1>1, <1>2, <2>1, <2>2 DEF RowsOfBatches, Tallies
<1>5. JobsAreNamed'
  BY <1>1, <1>2 DEF Books, JobsAreNamed, Late
<1> QED
  BY <1>1, <1>4, <1>5 DEF Books, Counted, Walking

LEMMA FailBooks ==
  ASSUME RecoveryInv, Books, RecoveryFails
  PROVE  Books'
<1>1. /\ UNCHANGED <<items, counters, created>>
      /\ phase' = "over" /\ result' = "failed" /\ phase # "over"
      /\ phase \in {"select", "begin", "inspect", "record", "item"}
  BY DEF RecoveryFails, batchVars
<1>2. audits \in Seq(AuditRow) /\ Len(audits) \in Nat /\ RecoveryTypes
  BY LenProperties DEF RecoveryInv, RecoveryTypes
<1>3. Counted'
  BY <1>1 DEF Counted, Walking
<1>4. CASE phase \in {"select", "begin"} /\ UNCHANGED audits
  BY <1>1, <1>3, <1>4 DEF Books, RowsOfBatches, JobsAreNamed, Late, LastAudit
<1>5. CASE phase = "begin" /\ audits' = Append(audits, NewAudit)
  <2>1. NewAudit.status = "running" /\ NewAudit \in AuditRow
    BY DEF NewAudit, AuditRow, NoCounters
  <2>2. /\ Len(audits') = Len(audits) + 1 /\ audits'[Len(audits')] = NewAudit
        /\ \A i \in 1..Len(audits) : audits'[i] = audits[i]
    BY <1>2, <1>5, <2>1, AppendProperties
  <2> QED
    BY <1>1, <1>2, <1>3, <1>5, <2>1, <2>2 DEF Books, RowsOfBatches, JobsAreNamed
<1>6. ASSUME phase \in {"inspect", "item", "record"},
             NEW close \in {"failed", "running"}, NEW new \in {{}, Unrecorded},
             audits' = [audits EXCEPT ![Len(audits)] = ClosedAs(@, close, new)]
      PROVE  Books'
  <2> DEFINE a == ClosedAs(LastAudit, close, new)
  <2>1. /\ audits # <<>> /\ LastAudit \in AuditRow /\ Len(audits) \in 1..Len(audits)
        /\ (phase = "record" => items # <<>>)
    BY <1>6, LastAuditIs DEF RecoveryInv, Steps
  <2>2. new \subseteq ItemRow
    <3>1. phase = "record" => items[Len(items)] \in ItemRow
      BY <1>2, <2>1, ElementOfSeq, EmptySeq, LenProperties DEF RecoveryTypes
    <3> QED
      BY <3>1 DEF Unrecorded
  <2>3. a \in AuditRow /\ LastAudit.items \subseteq a.items /\ a.status = close
    BY <2>1, <2>2 DEF AuditRow, ClosedAs
  <2>4. audits' = [audits EXCEPT ![Len(audits)] = a]
    BY <1>6 DEF LastAudit
  <2> HIDE DEF a
  <2>5. /\ audits'[Len(audits)] = a /\ Len(audits') = Len(audits) /\ audits' # <<>>
        /\ \A i \in 1..Len(audits) : i # Len(audits) => audits'[i] = audits[i]
    BY <1>2, <2>1, <2>3, <2>4, WritingKeeps DEF AuditWritten
  <2>6. LastAudit' = a
    BY <2>5 DEF LastAudit
  <2>7. RowsOfBatches'
    <3>1. ASSUME NEW i \in 1..Len(audits), i < Len(audits)
          PROVE  audits'[i].status = "completed"
      <4>1. audits[i].status = "completed"
        BY <3>1 DEF Books, RowsOfBatches
      <4> QED
        BY <1>2, <2>5, <3>1, <4>1
    <3>2. \A i \in 1..Len(audits) : audits'[i].status = "completed" =>
            Tallies(audits'[i].counters, audits'[i].items)
      BY <1>1, <1>2, <1>6, <2>3, <2>5 DEF Books, RowsOfBatches
    <3> QED
      BY <1>1, <1>2, <1>6, <2>3, <2>5, <3>1, <3>2 DEF RowsOfBatches, Tallies
  <2>8. JobsAreNamed'
    BY <1>1, <1>6, <2>3, <2>5, <2>6 DEF Books, JobsAreNamed, Late
  <2> QED
    BY <1>3, <2>7, <2>8 DEF Books
<1>7. CASE phase = "item" /\ audits' = [audits EXCEPT ![Len(audits)] = Completed(@)]
  <2>1. /\ Len(audits') = Len(audits) /\ audits' # <<>>
        /\ \A i \in 1..Len(audits) : i # Len(audits) => audits'[i] = audits[i]
        /\ LastAudit' = audits'[Len(audits)] /\ LastAudit'.status = "completed"
        /\ LastAudit'.items = LastAudit.items
        /\ Tallies(LastAudit'.counters, LastAudit'.items)
    BY <1>7, CompletedRow
  <2>2. RowsOfBatches'
    BY <1>1, <1>2, <1>7, <2>1 DEF Books, RowsOfBatches
  <2>3. JobsAreNamed'
    BY <1>1, <1>7, <2>1 DEF Books, JobsAreNamed, Late
  <2> QED
    BY <1>3, <2>2, <2>3 DEF Books
<1> QED
  BY <1>4, <1>5, <1>6, <1>7 DEF RecoveryFails

LEMMA DieBooks ==
  ASSUME RecoveryInv, Books, CommandDies
  PROVE  Books'
<1>1. /\ UNCHANGED <<items, counters, audits, created>>
      /\ phase' = "over" /\ result' = "dead" /\ phase \notin {"idle", "over"}
  BY DEF CommandDies, batchVars
<1>2. phase = "record" => LastAudit.status # "completed"
  BY DEF Books, RowsOfBatches
<1> QED
  BY <1>1, <1>2 DEF Books, Counted, Walking, RowsOfBatches, JobsAreNamed, Late, LastAudit

LEMMA BooksKept ==
  RecoveryInv /\ Books /\ [RecoveryNext]_recoveryVars => Books'
<1> SUFFICES ASSUME RecoveryInv, Books, [RecoveryNext]_recoveryVars PROVE Books'
  OBVIOUS
<1>1. CASE UNCHANGED recoveryVars
  BY <1>1, BooksStay DEF recoveryVars, batchVars
<1>2. CASE CommandSteps
  BY <1>2, StartBooks, SelectBooks, BeginBooks, InspectBooks, DryRunBooks, RepairBooks,
     EnqueueFailsBooks, AcknowledgeFailsBooks, RecordBooks, CompleteBooks, FailBooks, DieBooks
     DEF CommandSteps
<1>3. ASSUME NEW r \in RunNumber,
             AcceptRun(r) \/ RelayJob(r) \/ ClaimRun(r) \/ \E s \in {"queued", "done"} : EndAttempt(r, s)
      PROVE  Books'
  <2>1. OthersOnly
    BY <1>3 DEF AcceptRun, RelayJob, ClaimRun, EndAttempt
  <2> QED
    BY <2>1, BooksStay DEF OthersOnly, batchVars
<1> QED
  BY <1>1, <1>2, <1>3 DEF RecoveryNext

LEMMA BooksTell == RecoveryInv /\ Books => AuditTellsWhatWasDone
<1> SUFFICES ASSUME RecoveryInv, Books PROVE AuditTellsWhatWasDone
  OBVIOUS
<1>1. audits \in Seq(AuditRow)
  BY DEF RecoveryInv, RecoveryTypes
<1>2. ASSUME NEW a \in Range(audits), a.status = "completed" PROVE AddsUp(a)
  <2>1. PICK i \in 1..Len(audits) : a = audits[i]
    BY <1>1 DEF Range
  <2>2. Tallies(a.counters, a.items)
    BY <1>2, <2>1 DEF Books, RowsOfBatches
  <2> QED
    BY <2>2 DEF Tallies, AddsUp, Tally
<1>3. result = "finished" => \A a \in Range(audits) : a.status = "completed"
  BY <1>1 DEF Range, Books, RowsOfBatches
<1>4. ASSUME created # {}
      PROVE  LET last == audits[Len(audits)]
                 missing == created \ {x.run : x \in last.items}
             IN Cardinality(missing) <= (IF last.status = "completed" THEN 0 ELSE 1)
  <2> DEFINE missing == created \ {x.run : x \in LastAudit.items}
  <2>1. missing \subseteq Late
    BY <1>4 DEF Books, JobsAreNamed
  <2>2. LastAudit.status = "completed" => Late = {}
    BY DEF Late, Books, RowsOfBatches
  <2>3. missing = {} \/ missing = {items[Len(items)].run}
    BY <2>1 DEF Late
  <2> HIDE DEF missing
  <2>4. Cardinality(missing) <= (IF LastAudit.status = "completed" THEN 0 ELSE 1)
    <3>1. missing = {} => Cardinality(missing) = 0
      BY FS_EmptySet
    <3>2. missing # {} => Cardinality(missing) = 1 /\ LastAudit.status # "completed"
      BY <2>1, <2>2, <2>3, FS_Singleton
    <3> QED
      BY <3>1, <3>2
  <2> QED
    BY <2>4 DEF missing, LastAudit
<1> QED
  BY <1>2, <1>3, <1>4 DEF AuditTellsWhatWasDone

THEOREM RecoveryAuditTells == RecoverySpec => []AuditTellsWhatWasDone
<1>1. RecoverySpec => [](RecoveryInv /\ Books)
  BY RecoveryStarts, RecoveryStepKeeps, BooksStart, BooksKept, PTL DEF RecoverySpec
<1> QED
  BY <1>1, BooksTell, PTL

-----------------------------------------------------------------------------
(***************************************************************************)
(* The sweeps of a retention cleaner, for any number of rows, any sizes of *)
(* batches and limits, any ages and any number of faults and of steps of   *)
(* the others.                                                             *)
(***************************************************************************)

AttemptRow == [number : Nat, day : Nat]
RunRow == [status : {"active", "finished", "gone"}, finished : Nat, input : BOOLEAN,
           result : BOOLEAN, open : BOOLEAN, ended : Nat, unsent : BOOLEAN,
           tries : SUBSET AttemptRow, made : Nat]
ConversationRow == [status : {"live", "deleting", "expired", "gone"}, expires : Nat, by : Nat,
                    who : {"none", "owner", "caller", "cleaner"}]

Walk == [phase : {"idle", "batch", "between"}, asOf : Nat, cursor : 0..Rows, batches : Nat]

SweepTypes ==
  /\ table \in {"runs", "conversations"}
  /\ table = "runs" => rows \in [Id -> RunRow]
  /\ table = "conversations" => rows \in [Id -> ConversationRow]
  /\ today \in Nat /\ others \in 0..OtherBound
  /\ walk \in Walk
  /\ continuation \in [asOf : Nat, cursor : 0..Rows]
  /\ still \subseteq Id

(* A row that a sweep is through with: it is not due, or something else    *)
(* keeps what is left of it.                                               *)
DueRow(t, x, asOf) == IF t = "runs" THEN RunIsDue(x, asOf) ELSE ConversationIsDue(x, asOf)
CleanedRow(t, x, asOf) ==
  IF t = "runs" THEN CleanedRun(x, asOf) ELSE CleanedConversation(x, asOf)
SettledRow(t, x, asOf) ==
  DueRow(t, x, asOf) =>
    /\ t = "runs" /\ MetadataAge <= asOf /\ ~RunIsDeleted(x, asOf)
    /\ CleanedRun(x, asOf) = x

(* What was left alone is settled up to the cursor, that of the sweep and  *)
(* that of the continuation the next one may start from.                   *)
SweptSoFar ==
  /\ still \intersect locked = {}
  /\ sweepResult = "complete" =>
       walk.phase = "idle" /\ \A r \in still : SettledRow(table, rows[r], walk.asOf)
  /\ walk.phase # "idle" =>
       /\ \A r \in still : r <= walk.cursor => SettledRow(table, rows[r], walk.asOf)
       /\ continuation.cursor <= walk.cursor
  /\ \A r \in still : r <= continuation.cursor => SettledRow(table, rows[r], continuation.asOf)

SweepInv == SweepTypes /\ SweptSoFar
-----------------------------------------------------------------------------
(* A row that was cleaned is settled.                                      *)

LEMMA CleanedRunTypes ==
  ASSUME NEW x \in RunRow, NEW asOf \in Nat
  PROVE  CleanedRun(x, asOf) \in RunRow
<1> DEFINE stripped == [x EXCEPT !.input = @ /\ InputAge > asOf,
                                 !.result = @ /\ x.finished + ResultAge > asOf,
                                 !.tries = Recent(x, asOf)]
<1>1. Recent(x, asOf) \subseteq x.tries /\ x.tries \subseteq AttemptRow
  BY DEF Recent, RunRow
<1>2. stripped \in RunRow
  BY <1>1 DEF RunRow
<1>3. [stripped EXCEPT !.status = "gone", !.tries = {}] \in RunRow
  <2> HIDE DEF stripped
  <2> QED
    BY <1>2 DEF RunRow
<1> QED
  BY <1>2, <1>3 DEF CleanedRun

LEMMA CleanedRunIsSettled ==
  ASSUME NEW x \in RunRow, NEW asOf \in Nat
  PROVE  SettledRow("runs", CleanedRun(x, asOf), asOf)
<1> DEFINE y == CleanedRun(x, asOf)
           stripped == [x EXCEPT !.input = @ /\ InputAge > asOf,
                                 !.result = @ /\ x.finished + ResultAge > asOf,
                                 !.tries = Recent(x, asOf)]
<1> SUFFICES ASSUME RunIsDue(y, asOf)
             PROVE  /\ MetadataAge <= asOf /\ ~RunIsDeleted(y, asOf)
                    /\ CleanedRun(y, asOf) = y
  BY DEF SettledRow, DueRow
<1>1. y.status = "finished"
  BY DEF RunIsDue
<1>2. ~RunIsDeleted(x, asOf)
  <2>1. RunIsDeleted(x, asOf) => y = [stripped EXCEPT !.status = "gone", !.tries = {}]
    BY DEF CleanedRun
  <2>2. [stripped EXCEPT !.status = "gone", !.tries = {}].status = "gone"
    BY DEF RunRow
  <2> QED
    BY <1>1, <2>1, <2>2
<1>3. y = stripped
  BY <1>2 DEF CleanedRun
<1>4. /\ y \in RunRow /\ y.finished = x.finished /\ y.open = x.open /\ y.ended = x.ended
      /\ y.unsent = x.unsent /\ y.tries = Recent(x, asOf)
      /\ y.input <=> (x.input /\ InputAge > asOf)
      /\ y.result <=> (x.result /\ x.finished + ResultAge > asOf)
  <2>1. y \in RunRow
    BY CleanedRunTypes
  <2> QED
    BY <1>3, <2>1 DEF RunRow
<1> HIDE DEF y, stripped
<1>5. ~RunIsDeleted(y, asOf)
  BY <1>2, <1>4 DEF RunIsDeleted, KeptByDelivery
<1>6. Recent(y, asOf) = y.tries
  BY <1>4 DEF Recent
<1>7. y.input => InputAge > asOf
  BY <1>4
<1>8. y.result => y.finished + ResultAge > asOf
  BY <1>4
<1>9. asOf \in Int /\ InputAge \in Int /\ ResultAge \in Int /\ y.finished \in Int
  BY SweepAssumption, <1>4 DEF RunRow
<1>10. MetadataAge <= asOf
  BY <1>6, <1>7, <1>8, <1>9 DEF RunIsDue
<1>11. CleanedRun(y, asOf) = y
  <2>1. CleanedRun(y, asOf) = [y EXCEPT !.input = y.input /\ InputAge > asOf,
                                        !.result = y.result /\ y.finished + ResultAge > asOf,
                                        !.tries = Recent(y, asOf)]
    BY <1>5 DEF CleanedRun
  <2>2. /\ (y.input /\ InputAge > asOf) = y.input
        /\ (y.result /\ y.finished + ResultAge > asOf) = y.result
    BY <1>4, <1>7, <1>8 DEF RunRow
  <2>3. CleanedRun(y, asOf) = [y EXCEPT !.input = y.input, !.result = y.result,
                                        !.tries = y.tries]
    BY <1>6, <2>1, <2>2
  <2>4. y = [status |-> y.status, finished |-> y.finished, input |-> y.input,
             result |-> y.result, open |-> y.open, ended |-> y.ended,
             unsent |-> y.unsent, tries |-> y.tries, made |-> y.made]
    BY <1>4 DEF RunRow
  <2>5. [y EXCEPT !.input = y.input, !.result = y.result, !.tries = y.tries] = y
    BY <2>4
  <2> QED
    BY <2>3, <2>5
<1> QED
  BY <1>5, <1>10, <1>11

LEMMA ExpiredByIs ==
  ASSUME NEW x \in ConversationRow, NEW who \in {"caller", "cleaner"}
  PROVE  /\ ExpiredBy(x, who) \in ConversationRow
         /\ ExpiredBy(x, who).status = "expired" /\ ExpiredBy(x, who).who = who
         /\ ExpiredBy(x, who).by = x.expires + DeletionGrace
<1>1. DeletionGrace \in Nat /\ x.expires \in Nat
  BY SweepAssumption DEF ConversationRow
<1>2. x.expires + DeletionGrace \in Nat
  BY <1>1
<1> QED
  BY <1>2 DEF ExpiredBy, ConversationRow

LEMMA CleanedConversationIs ==
  ASSUME NEW x \in ConversationRow, NEW asOf \in Nat
  PROVE  LET y == CleanedConversation(x, asOf)
         IN  /\ y \in ConversationRow /\ ~ConversationIsDue(y, asOf)
             /\ y.status = "live" => x.status = "live"
             /\ x.status = "live" /\ x.expires <= asOf =>
                  y.status # "live" /\ y.who = "cleaner"
             /\ x.status # "live" => y.who = x.who
<1> DEFINE expires == x.status = "live" /\ x.expires <= asOf
           fenced == IF expires THEN ExpiredBy(x, "cleaner") ELSE x
           y == CleanedConversation(x, asOf)
<1>1. /\ fenced \in ConversationRow
      /\ expires => fenced.status = "expired" /\ fenced.who = "cleaner"
      /\ ~expires => fenced = x
  BY ExpiredByIs
<1>2. y = IF Fenced(fenced) /\ fenced.by <= asOf THEN [fenced EXCEPT !.status = "gone"]
          ELSE fenced
  BY DEF CleanedConversation
<1> HIDE DEF fenced, y
<1>3. CASE Fenced(fenced) /\ fenced.by <= asOf
  <2>1. /\ y \in ConversationRow /\ y.status = "gone" /\ y.who = fenced.who
    BY <1>1, <1>2, <1>3 DEF ConversationRow
  <2> QED
    BY <1>1, <2>1 DEF ConversationIsDue, Fenced, y
<1>4. CASE ~(Fenced(fenced) /\ fenced.by <= asOf)
  <2>1. y = fenced
    BY <1>2, <1>4
  <2>2. ~ConversationIsDue(fenced, asOf)
    BY <1>1, <1>4 DEF ConversationIsDue, Fenced
  <2> QED
    BY <1>1, <2>1, <2>2 DEF y
<1> QED
  BY <1>3, <1>4

LEMMA CleanedIsSettled ==
  ASSUME SweepTypes, NEW r \in Id, NEW asOf \in Nat
  PROVE  SettledRow(table, CleanedRow(table, rows[r], asOf), asOf)
<1>1. CASE table = "runs"
  BY <1>1, CleanedRunIsSettled DEF SweepTypes, CleanedRow
<1>2. CASE table # "runs"
  <2>1. rows[r] \in ConversationRow
    BY <1>2 DEF SweepTypes
  <2>2. ~ConversationIsDue(CleanedConversation(rows[r], asOf), asOf)
    BY <2>1, CleanedConversationIs
  <2> QED
    BY <1>2, <2>2 DEF SettledRow, DueRow, CleanedRow
<1> QED
  BY <1>1, <1>2

-----------------------------------------------------------------------------
(* A batch takes the first rows that are due, and the next cursor tells    *)
(* where it ended.                                                         *)

LEMMA SubsetOfIds ==
  ASSUME NEW S, S \subseteq Id
  PROVE  IsFiniteSet(S) /\ Cardinality(S) \in Nat
<1>1. IsFiniteSet(Id)
  BY SweepAssumption, FS_Interval DEF Id
<1>2. IsFiniteSet(S)
  BY <1>1, FS_Subset
<1> QED
  BY <1>2, FS_CardinalityType

LEMMA BatchIsFirst ==
  ASSUME NEW r \in Candidates, r \notin CleanupBatch
  PROVE  CleanupBatch # {} /\ \A q \in CleanupBatch : q < r
<1> DEFINE Upto(q) == {p \in Candidates : p <= q}
<1>1. Candidates \subseteq Id /\ Id \subseteq Int
  BY DEF Candidates, Id
<1> HIDE DEF Candidates
<1>2. \A q : IsFiniteSet(Upto(q)) /\ Cardinality(Upto(q)) \in Nat
  <2>1. \A q : Upto(q) \subseteq Id
    BY <1>1
  <2> HIDE DEF Upto
  <2> QED
    BY <2>1, SubsetOfIds
<1>3. \A q \in Candidates : q \in CleanupBatch <=> Cardinality(Upto(q)) <= SweepBatchSize
  BY DEF CleanupBatch
<1>4. ASSUME NEW q \in CleanupBatch, ~(q < r) PROVE FALSE
  <2>1. q \in Candidates /\ r <= q
    BY <1>1, <1>4 DEF CleanupBatch
  <2>2. Upto(r) \in SUBSET Upto(q)
    <3>1. \A p \in Candidates : p \in Int
      BY <1>1
    <3>2. r \in Int /\ q \in Int
      BY <2>1, <3>1
    <3>3. \A p \in Candidates : p <= r => p <= q
      BY <2>1, <3>1, <3>2
    <3> QED
      BY <3>3
  <2>3. Cardinality(Upto(r)) <= Cardinality(Upto(q))
    <3> HIDE DEF Upto
    <3> QED
      BY <1>2, <2>2, FS_Subset
  <2> HIDE DEF Upto
  <2> QED
    BY SweepAssumption, <1>2, <1>3, <1>4, <2>1, <2>3
<1>5. PICK m \in Candidates : \A q \in Candidates : m <= q
  <2>1. Candidates \subseteq Nat /\ Candidates # {}
    BY <1>1 DEF Id
  <2> QED
    BY <2>1, SmallestOf
<1>6. Upto(m) = {m}
  <2>1. \A p \in Candidates : p \in Int
    BY <1>1
  <2>2. \A p \in Candidates : p <= m => p = m
    BY <1>5, <2>1
  <2>3. m <= m
    BY <2>1
  <2> QED
    BY <1>5, <2>2, <2>3
<1>7. Cardinality(Upto(m)) = 1
  BY <1>6, FS_Singleton
<1>8. m \in CleanupBatch
  <2> HIDE DEF Upto
  <2> QED
    BY SweepAssumption, <1>3, <1>5, <1>7
<1> QED
  BY <1>4, <1>8

LEMMA NextOfBatch ==
  ASSUME SweepTypes
  PROVE  LET next == NextOf(CleanupBatch)
         IN  /\ next \in 0..Rows /\ (next # 0 => next > walk.cursor)
             /\ \A r \in Id \ locked :
                  /\ r > walk.cursor /\ r \notin CleanupBatch
                  /\ Due(r, walk.asOf)
                  => next # 0 /\ r > next
<1> DEFINE next == NextOf(CleanupBatch)
<1>1. CleanupBatch \subseteq 0..Rows /\ CleanupBatch \subseteq Id
      /\ \A q \in CleanupBatch : q > walk.cursor
  BY DEF CleanupBatch, Candidates, Id
<1>2. CleanupBatch # {} => Max(CleanupBatch) \in CleanupBatch
  <2>1. CleanupBatch # {} => \E n \in CleanupBatch : \A m \in CleanupBatch : m <= n
    <3> HIDE DEF CleanupBatch
    <3> QED
      BY SweepAssumption, <1>1, GreatestOf
  <2>2. \A n \in CleanupBatch : \A m \in CleanupBatch : m <= n <=> n >= m
    BY <1>1
  <2> QED
    BY <2>1, <2>2 DEF Max
<1>3. next = 0 \/ (CleanupBatch # {} /\ next = Max(CleanupBatch))
  BY DEF NextOf
<1>4. next \in 0..Rows /\ (next # 0 => next > walk.cursor)
  <2>1. Rows \in Nat
    BY SweepAssumption
  <2>2. next = 0 \/ next \in CleanupBatch
    BY <1>2, <1>3
  <2> HIDE DEF next
  <2>3. CASE next = 0
    BY <2>1, <2>3
  <2>4. CASE next \in CleanupBatch
    BY <1>1, <2>4
  <2> QED
    BY <2>2, <2>3, <2>4
<1>5. ASSUME NEW r \in Id \ locked, r > walk.cursor, r \notin CleanupBatch, Due(r, walk.asOf)
      PROVE  next # 0 /\ r > next
  <2>1. r \in Candidates
    BY <1>5 DEF Candidates
  <2>2. CleanupBatch # {} /\ \A q \in CleanupBatch : q < r
    BY <1>5, <2>1, BatchIsFirst
  <2>3. r > Max(CleanupBatch) /\ Max(CleanupBatch) \in Id
    BY <1>1, <1>2, <2>2 DEF Id
  <2>4. next = Max(CleanupBatch)
    BY <1>5, <2>2, <2>3 DEF NextOf
  <2> QED
    BY <2>3, <2>4 DEF Id
<1> QED
  BY <1>4, <1>5

(* What one transaction does to a row.                                     *)
LEMMA CommittedRows ==
  ASSUME SweepTypes, BatchCommitted
  PROVE  /\ table = "runs" => rows' \in [Id -> RunRow]
         /\ table = "conversations" => rows' \in [Id -> ConversationRow]
         /\ \A r \in Id : rows'[r] = IF r \in CleanupBatch
                                     THEN CleanedRow(table, rows[r], walk.asOf) ELSE rows[r]
<1>1. walk.asOf \in Nat
  BY DEF SweepTypes, Walk
<1>2. rows' = [r \in Id |-> IF r \in CleanupBatch THEN Cleaned(r, walk.asOf) ELSE rows[r]]
  BY DEF BatchCommitted
<1>3. \A r \in Id : Cleaned(r, walk.asOf) = CleanedRow(table, rows[r], walk.asOf)
  BY DEF Cleaned, CleanedRow
<1>4. ASSUME NEW r \in Id
      PROVE  /\ table = "runs" => CleanedRow(table, rows[r], walk.asOf) \in RunRow
             /\ table = "conversations" =>
                  CleanedRow(table, rows[r], walk.asOf) \in ConversationRow
  BY <1>1, CleanedRunTypes, CleanedConversationIs DEF CleanedRow, SweepTypes
<1> HIDE DEF CleanedRow
<1> QED
  BY <1>2, <1>3, <1>4 DEF SweepTypes
-----------------------------------------------------------------------------
(* Every step keeps the sweep sound.                                       *)

LEMMA NoRowIsFirst ==
  /\ 0 \in 0..Rows /\ \A r \in Id : r \in Int /\ ~(r <= 0)
BY SweepAssumption DEF Id

LEMMA BatchSettles ==
  ASSUME SweepInv, walk.phase = "batch", BatchCommitted
  PROVE  LET next == NextOf(CleanupBatch)
         IN  /\ \A r \in still : r <= walk.cursor => rows'[r] = rows[r]
             /\ \A r \in still : next = 0 \/ r <= next => SettledRow(table, rows'[r], walk.asOf)
<1> DEFINE next == NextOf(CleanupBatch)
<1>1. SweepTypes /\ SweptSoFar
  BY DEF SweepInv
<1>2. \A r \in Id : rows'[r] = IF r \in CleanupBatch
                               THEN CleanedRow(table, rows[r], walk.asOf) ELSE rows[r]
  BY <1>1, CommittedRows
<1>3. still \subseteq Id \ locked /\ walk.cursor \in Nat /\ walk.asOf \in Nat /\ next \in Nat
  <2>1. next \in 0..Rows
    BY <1>1, NextOfBatch
  <2> HIDE DEF next
  <2> QED
    BY <1>1, <2>1 DEF SweepTypes, SweptSoFar, Walk
<1>4. \A r \in CleanupBatch : r > walk.cursor
  BY DEF CleanupBatch, Candidates
<1>5. ASSUME NEW r \in still, r <= walk.cursor PROVE rows'[r] = rows[r]
  <2>1. r \in Id /\ r \in Int
    BY <1>3 DEF Id
  <2>2. r \notin CleanupBatch
    BY <1>3, <1>4, <1>5, <2>1
  <2> QED
    BY <1>2, <2>1, <2>2
<1>6. ASSUME NEW r \in still, next = 0 \/ r <= next
      PROVE  SettledRow(table, rows'[r], walk.asOf)
  <2>1. r \in Id \ locked /\ r \in Int
    BY <1>3 DEF Id
  <2>2. CASE r \in CleanupBatch
    <3>1. SettledRow(table, CleanedRow(table, rows[r], walk.asOf), walk.asOf)
      BY <1>1, <1>3, <2>1, CleanedIsSettled
    <3> QED
      BY <1>2, <2>1, <2>2, <3>1
  <2>3. CASE r \notin CleanupBatch /\ r <= walk.cursor
    <3>1. SettledRow(table, rows[r], walk.asOf)
      BY <1>1, <2>3 DEF SweptSoFar
    <3> QED
      BY <1>5, <2>3, <3>1
  <2>4. CASE r \notin CleanupBatch /\ r > walk.cursor
    <3>1. ~Due(r, walk.asOf)
      <4>1. Due(r, walk.asOf) => next # 0 /\ r > next
        BY <1>1, <2>1, <2>4, NextOfBatch
      <4> HIDE DEF next
      <4> QED
        BY <1>3, <1>6, <2>1, <4>1
    <3>2. rows'[r] = rows[r]
      BY <1>2, <2>1, <2>4
    <3> QED
      BY <3>1, <3>2 DEF Due, DueRow, SettledRow
  <2> QED
    BY <1>3, <2>1, <2>2, <2>3, <2>4
<1> QED
  BY <1>5, <1>6

LEMMA StartSweepKeeps ==
  ASSUME SweepInv, StartSweep
  PROVE  SweepInv'
<1>1. SweepTypes'
  <2>1. SweepTime \in Nat /\ continuation.cursor \in 0..Rows /\ 0 \in Nat
    BY DEF SweepInv, SweepTypes, SweepTime
  <2>2. walk' \in Walk
    BY <2>1 DEF StartSweep, Walk
  <2>3. still' \subseteq Id
    BY DEF SweepInv, SweepTypes, StartSweep
  <2> QED
    BY <2>2, <2>3 DEF SweepInv, SweepTypes, StartSweep, sweepWorld
<1>2. continuation.cursor = 0 => \A r \in still' : ~(r <= continuation.cursor)
  BY DEF StartSweep, Id
<1>3. continuation.cursor # 0 => still' = still /\ SweepTime = continuation.asOf
  BY DEF StartSweep, SweepTime
<1>4. \A r \in still' : r <= continuation.cursor =>
        /\ SettledRow(table, rows[r], continuation.asOf)
        /\ SettledRow(table, rows[r], SweepTime)
  BY <1>2, <1>3 DEF SweepInv, SweptSoFar
<1>5. /\ walk'.phase = "batch" /\ walk'.cursor = continuation.cursor /\ walk'.asOf = SweepTime
      /\ continuation' = continuation /\ rows' = rows /\ table' = table /\ locked' = locked
      /\ sweepResult' = "none"
  BY DEF StartSweep, sweepWorld
<1>6. still' \intersect locked' = {}
  BY DEF StartSweep, SweepInv, SweptSoFar, sweepWorld
<1>7. continuation.cursor <= continuation.cursor
  BY DEF SweepInv, SweepTypes
<1> QED
  BY <1>1, <1>4, <1>5, <1>6, <1>7 DEF SweepInv, SweptSoFar

LEMMA CleanBatchKeeps ==
  ASSUME SweepInv, CleanBatch
  PROVE  SweepInv'
<1> DEFINE next == NextOf(CleanupBatch)
<1>1. /\ SweepTypes /\ SweptSoFar /\ walk.phase = "batch" /\ BatchCommitted
      /\ table' = table /\ locked' = locked /\ still' = still /\ today' = today
      /\ others' = others /\ walk.asOf \in Nat /\ walk.cursor \in 0..Rows
      /\ walk.batches \in Nat
  BY DEF SweepInv, SweepTypes, Walk, CleanBatch, sweepWorld
<1>2. /\ next \in 0..Rows /\ (next # 0 => next > walk.cursor)
  BY <1>1, NextOfBatch
<1>3. /\ \A r \in still : r <= walk.cursor => rows'[r] = rows[r]
      /\ \A r \in still : next = 0 \/ r <= next => SettledRow(table, rows'[r], walk.asOf)
  BY <1>1, BatchSettles
<1>4. /\ table = "runs" => rows' \in [Id -> RunRow]
      /\ table = "conversations" => rows' \in [Id -> ConversationRow]
  BY <1>1, CommittedRows
<1>5. IF next = 0 THEN SweepOver("complete", NoContinuation)
      ELSE /\ walk' = [walk EXCEPT !.phase = "between", !.cursor = next, !.batches = @ + 1]
           /\ UNCHANGED <<sweepResult, continuation>>
  BY DEF CleanBatch
<1> HIDE DEF next
<1>6. CASE next = 0
  <2>1. /\ walk' = [walk EXCEPT !.phase = "idle", !.cursor = 0]
        /\ sweepResult' = "complete" /\ continuation' = [asOf |-> 0, cursor |-> 0]
    BY <1>5, <1>6 DEF SweepOver, NoContinuation
  <2>2. /\ walk'.phase = "idle" /\ walk'.asOf = walk.asOf /\ continuation'.cursor = 0
        /\ walk' \in Walk
        /\ continuation' \in [asOf : Nat, cursor : 0..Rows]
    BY <1>1, <2>1, NoRowIsFirst DEF SweepTypes, Walk
  <2>3. SweepTypes'
    BY <1>1, <1>4, <2>2 DEF SweepTypes
  <2>4. \A r \in still : ~(r <= 0)
    BY <1>1, NoRowIsFirst DEF SweepTypes
  <2> QED
    BY <1>1, <1>3, <1>6, <2>1, <2>2, <2>3, <2>4 DEF SweepInv, SweptSoFar
<1>7. CASE next # 0
  <2>1. /\ walk' = [walk EXCEPT !.phase = "between", !.cursor = next, !.batches = @ + 1]
        /\ sweepResult' = sweepResult /\ continuation' = continuation
    BY <1>5, <1>7
  <2>2. /\ walk'.phase = "between" /\ walk'.asOf = walk.asOf /\ walk'.cursor = next
        /\ walk' \in Walk
    <3>1. walk.batches + 1 \in Nat
      BY <1>1
    <3> QED
      BY <1>1, <1>2, <2>1, <3>1 DEF SweepTypes, Walk
  <2>3. SweepTypes'
    BY <1>1, <1>4, <2>1, <2>2 DEF SweepTypes
  <2>4. continuation.cursor \in Int /\ next \in Int /\ walk.cursor \in Int
        /\ continuation.cursor <= walk.cursor
    BY <1>1, <1>2 DEF SweepTypes, SweptSoFar, Walk
  <2>5. \A r \in still : r \in Int
    BY <1>1 DEF SweepTypes, Id
  <2>6. \A r \in still : r <= continuation.cursor => r <= walk.cursor
    BY <2>4, <2>5
  <2>7. \A r \in still : r <= continuation.cursor =>
          SettledRow(table, rows'[r], continuation.asOf)
    BY <1>1, <1>3, <2>6 DEF SweptSoFar
  <2>8. continuation.cursor <= next
    BY <1>2, <1>7, <2>4
  <2>9. sweepResult # "complete"
    BY <1>1 DEF SweptSoFar
  <2>10. SweptSoFar'
    BY <1>1, <1>3, <2>1, <2>2, <2>7, <2>8, <2>9 DEF SweptSoFar
  <2> QED
    BY <2>3, <2>10 DEF SweepInv
<1> QED
  BY <1>6, <1>7

LEMMA BatchFailsKeeps ==
  ASSUME SweepInv, BatchFails
  PROVE  SweepInv'
<1>1. /\ SweepTypes /\ SweptSoFar /\ walk.phase = "batch"
      /\ table' = table /\ locked' = locked /\ still' = still /\ today' = today
      /\ others' = others /\ walk.asOf \in Nat /\ walk.batches \in Nat
      /\ walk' = [walk EXCEPT !.phase = "idle", !.cursor = 0]
      /\ sweepResult' = "failed" /\ continuation' = continuation
  BY DEF SweepInv, SweepTypes, Walk, BatchFails, SweepOver, sweepWorld
<1>2. BatchCommitted \/ rows' = rows
  BY DEF BatchFails
<1>3. /\ \A r \in still : r <= walk.cursor => rows'[r] = rows[r]
      /\ table = "runs" => rows' \in [Id -> RunRow]
      /\ table = "conversations" => rows' \in [Id -> ConversationRow]
  <2>1. CASE BatchCommitted
    BY <1>1, <2>1, BatchSettles, CommittedRows
  <2>2. CASE rows' = rows
    BY <1>1, <2>2 DEF SweepTypes
  <2> QED
    BY <1>2, <2>1, <2>2
<1>4. walk' \in Walk /\ walk'.phase = "idle"
  BY <1>1, NoRowIsFirst DEF SweepTypes, Walk
<1>5. SweepTypes'
  BY <1>1, <1>3, <1>4 DEF SweepTypes
<1>6. continuation.cursor \in Int /\ walk.cursor \in Int
      /\ continuation.cursor <= walk.cursor
  BY <1>1 DEF SweepTypes, SweptSoFar, Walk
<1>7. \A r \in still : r \in Int
  BY <1>1 DEF SweepTypes, Id
<1>8. \A r \in still : r <= continuation.cursor => r <= walk.cursor
  BY <1>6, <1>7
<1>9. \A r \in still : r <= continuation.cursor => SettledRow(table, rows'[r], continuation.asOf)
  BY <1>1, <1>3, <1>8 DEF SweptSoFar
<1>10. SweptSoFar'
  BY <1>1, <1>4, <1>9 DEF SweptSoFar
<1> QED
  BY <1>5, <1>10 DEF SweepInv

LEMMA StopAtLimitKeeps ==
  ASSUME SweepInv, StopAtLimit
  PROVE  SweepInv'
<1>1. /\ SweepTypes /\ SweptSoFar /\ walk.phase = "between"
      /\ table' = table /\ locked' = locked /\ still' = still /\ today' = today
      /\ others' = others /\ rows' = rows
      /\ walk' = [walk EXCEPT !.phase = "idle", !.cursor = 0]
      /\ sweepResult' = "stopped"
      /\ continuation' = [asOf |-> walk.asOf, cursor |-> walk.cursor]
  BY DEF SweepInv, StopAtLimit, SweepOver, sweepWorld
<1>2. /\ walk' \in Walk
      /\ walk'.phase = "idle" /\ continuation' \in [asOf : Nat, cursor : 0..Rows]
      /\ continuation'.asOf = walk.asOf /\ continuation'.cursor = walk.cursor
  <2>1. walk.cursor \in 0..Rows /\ walk.asOf \in Nat
    BY <1>1 DEF SweepTypes, Walk
  <2> QED
    BY <1>1, <2>1, NoRowIsFirst DEF SweepTypes, Walk
<1>3. SweepTypes'
  BY <1>1, <1>2 DEF SweepTypes
<1>4. SweptSoFar'
  BY <1>1, <1>2 DEF SweptSoFar
<1> QED
  BY <1>3, <1>4 DEF SweepInv

LEMMA CleanerGoneKeeps ==
  ASSUME SweepInv, CleanerGone
  PROVE  SweepInv'
<1>1. /\ SweepTypes /\ SweptSoFar
      /\ table' = table /\ locked' = locked /\ still' = still /\ today' = today
      /\ others' = others /\ rows' = rows
      /\ walk' = [walk EXCEPT !.phase = "idle", !.cursor = 0]
      /\ sweepResult' = "none" /\ continuation' = [asOf |-> 0, cursor |-> 0]
  BY DEF SweepInv, CleanerGone, SweepOver, NoContinuation, sweepWorld
<1>2. /\ walk' \in Walk
      /\ walk'.phase = "idle" /\ continuation' \in [asOf : Nat, cursor : 0..Rows]
      /\ continuation'.cursor = 0
  BY <1>1, NoRowIsFirst DEF SweepTypes, Walk
<1>3. SweepTypes'
  BY <1>1, <1>2 DEF SweepTypes
<1>4. \A r \in still : ~(r <= 0)
  BY <1>1, NoRowIsFirst DEF SweepTypes
<1>5. SweptSoFar'
  BY <1>1, <1>2, <1>4 DEF SweptSoFar
<1> QED
  BY <1>3, <1>5 DEF SweepInv

LEMMA QuietSweepSteps ==
  ASSUME SweepInv, GoOn \/ CloseCleaner \/ CleanerStarts \/ NextSweepDay
  PROVE  SweepInv'
<1>1. /\ SweepTypes /\ SweptSoFar
      /\ table' = table /\ locked' = locked /\ still' = still /\ rows' = rows
      /\ others' = others /\ sweepResult' = sweepResult /\ continuation' = continuation
  BY DEF SweepInv, GoOn, CloseCleaner, CleanerStarts, NextSweepDay, sweepWorld
<1>2. today' \in Nat
  BY <1>1 DEF SweepTypes, GoOn, CloseCleaner, CleanerStarts, NextSweepDay, sweepWorld
<1>3. walk' = walk \/ (walk.phase = "between" /\ walk' = [walk EXCEPT !.phase = "batch"])
  BY DEF GoOn, CloseCleaner, CleanerStarts, NextSweepDay
<1>4. /\ walk' \in Walk
      /\ walk'.asOf = walk.asOf /\ walk'.cursor = walk.cursor
      /\ walk'.phase = walk.phase \/ (walk.phase = "between" /\ walk'.phase = "batch")
  BY <1>1, <1>3 DEF SweepTypes, Walk
<1>5. SweepTypes'
  BY <1>1, <1>2, <1>4 DEF SweepTypes
<1>6. SweptSoFar'
  BY <1>1, <1>4 DEF SweptSoFar
<1> QED
  BY <1>5, <1>6 DEF SweepInv

-----------------------------------------------------------------------------
(* What the others do to a row.                                            *)

LEMMA TouchKeeps ==
  ASSUME SweepInv, NEW r \in Id, NEW row, Touch(r, row),
         table = "runs" => row \in RunRow,
         table = "conversations" => row \in ConversationRow
  PROVE  SweepInv'
<1>1. /\ SweepTypes /\ SweptSoFar
      /\ table' = table /\ locked' = locked /\ still' = still \ {r} /\ today' = today
      /\ walk' = walk /\ continuation' = continuation /\ sweepResult' = sweepResult
      /\ rows' = [rows EXCEPT ![r] = row]
      /\ others < OtherBound /\ others' = others + 1
  BY DEF SweepInv, Touch, sweepWorld
<1>2. /\ table = "runs" => rows' \in [Id -> RunRow]
      /\ table = "conversations" => rows' \in [Id -> ConversationRow]
  BY <1>1 DEF SweepTypes
<1>3. others' \in 0..OtherBound
  <2>1. OtherBound \in Nat /\ others \in 0..OtherBound
    BY SweepAssumption, <1>1 DEF SweepTypes
  <2> QED
    BY <1>1, <2>1
<1>4. SweepTypes'
  BY <1>1, <1>2, <1>3 DEF SweepTypes
<1>5. \A q \in still' : q \in still /\ rows'[q] = rows[q]
  BY <1>1 DEF SweepTypes
<1>6. SweptSoFar'
  BY <1>1, <1>5 DEF SweptSoFar
<1> QED
  BY <1>4, <1>6 DEF SweepInv

LEMMA RunRowParts ==
  ASSUME NEW x \in RunRow
  PROVE  /\ x.status \in {"active", "finished", "gone"} /\ x.finished \in Nat
         /\ x.input \in BOOLEAN /\ x.result \in BOOLEAN /\ x.open \in BOOLEAN
         /\ x.ended \in Nat /\ x.unsent \in BOOLEAN /\ x.tries \subseteq AttemptRow
         /\ x.made \in Nat
BY DEF RunRow

LEMMA FreshRow ==
  ASSUME NEW d \in Nat, NEW open \in BOOLEAN
  PROVE  Row("finished", d, open, 0, open, {}) =
           [status |-> "finished", finished |-> d, input |-> TRUE, result |-> TRUE,
            open |-> open, ended |-> 0, unsent |-> open, tries |-> {}, made |-> 0]
BY FS_EmptySet DEF Row

LEMMA RunMovesKeep ==
  ASSUME SweepInv, table = "runs", NEW r \in Id, RunMoves(r)
  PROVE  SweepInv'
<1>1. rows[r] \in RunRow /\ today \in Nat
  BY DEF SweepInv, SweepTypes
<1>2. CASE FinishActiveRun(r)
  <2>1. PICK open \in BOOLEAN : Touch(r, Row("finished", today, open, 0, open, {}))
    BY <1>2 DEF FinishActiveRun
  <2>2. Row("finished", today, open, 0, open, {}) \in RunRow
    <3> DEFINE row == [status |-> "finished", finished |-> today, input |-> TRUE,
                       result |-> TRUE, open |-> open, ended |-> 0, unsent |-> open,
                       tries |-> {}, made |-> 0]
    <3>1. {} \subseteq AttemptRow /\ today \in Nat /\ 0 \in Nat
      BY <1>1
    <3>2. row \in RunRow
      BY <3>1 DEF RunRow
    <3>3. Row("finished", today, open, 0, open, {}) = row
      BY <3>1, FreshRow
    <3> QED
      BY <3>2, <3>3
  <2> QED
    BY <2>1, <2>2, TouchKeeps
<1>3. CASE SendMessage(r)
  <2> DEFINE row == [rows[r] EXCEPT !.unsent = FALSE]
  <2>1. Touch(r, row)
    BY <1>3 DEF SendMessage
  <2>2. row \in RunRow
    BY <1>1 DEF RunRow
  <2> HIDE DEF row
  <2> QED
    BY <2>1, <2>2, TouchKeeps
<1>4. CASE TryDelivery(r)
  <2>1. PICK ends \in BOOLEAN :
          Touch(r, [rows[r] EXCEPT !.tries = @ \union {AttemptOn(rows[r].made + 1, today)},
                                   !.made = @ + 1, !.open = ~ends,
                                   !.ended = IF ends THEN today ELSE @])
    BY <1>4 DEF TryDelivery
  <2> DEFINE row == [rows[r] EXCEPT !.tries = @ \union {AttemptOn(rows[r].made + 1, today)},
                                    !.made = @ + 1, !.open = ~ends,
                                    !.ended = IF ends THEN today ELSE @]
  <2>2. rows[r].tries \union {AttemptOn(rows[r].made + 1, today)} \subseteq AttemptRow
    <3>1. AttemptOn(rows[r].made + 1, today) \in AttemptRow
      BY <1>1, RunRowParts DEF AttemptOn, AttemptRow
    <3> QED
      BY <1>1, <3>1, RunRowParts
  <2>3. row \in RunRow
    <3>1. rows[r].made + 1 \in Nat /\ (~ends) \in BOOLEAN
      BY <1>1, RunRowParts
    <3>2. (IF ends THEN today ELSE rows[r].ended) \in Nat
      BY <1>1, RunRowParts
    <3> QED
      BY <1>1, <2>2, <3>1, <3>2 DEF RunRow
  <2>4. Touch(r, row)
    BY <2>1
  <2> HIDE DEF row
  <2> QED
    BY <2>3, <2>4, TouchKeeps
<1>5. CASE ReplayDelivery(r)
  <2> DEFINE row == [rows[r] EXCEPT !.open = TRUE, !.unsent = TRUE]
  <2>1. Touch(r, row)
    BY <1>5 DEF ReplayDelivery
  <2>2. row \in RunRow
    BY <1>1 DEF RunRow
  <2> HIDE DEF row
  <2> QED
    BY <2>1, <2>2, TouchKeeps
<1> QED
  BY <1>2, <1>3, <1>4, <1>5 DEF RunMoves

LEMMA ConversationMovesKeep ==
  ASSUME SweepInv, table = "conversations", NEW r \in Id, ConversationMoves(r)
  PROVE  SweepInv'
<1>1. /\ rows[r] \in ConversationRow /\ today \in Nat
      /\ ConversationAge \in Nat /\ DeletionGrace \in Nat
  BY SweepAssumption DEF SweepInv, SweepTypes
<1>2. CASE RenewConversation(r)
  <2> DEFINE row == [rows[r] EXCEPT !.expires = today + ConversationAge]
  <2>1. Touch(r, row)
    BY <1>2 DEF RenewConversation
  <2>2. today + ConversationAge \in Nat
    BY <1>1
  <2>3. row \in ConversationRow
    BY <1>1, <2>2 DEF ConversationRow
  <2> HIDE DEF row
  <2> QED
    BY <2>1, <2>3, TouchKeeps
<1>3. CASE DeleteConversation(r)
  <2> DEFINE row == [rows[r] EXCEPT !.status = "deleting", !.by = today + DeletionGrace,
                                    !.who = "owner"]
  <2>1. Touch(r, row)
    BY <1>3 DEF DeleteConversation
  <2>2. today + DeletionGrace \in Nat
    BY <1>1
  <2>3. row \in ConversationRow
    BY <1>1, <2>2 DEF ConversationRow
  <2> HIDE DEF row
  <2> QED
    BY <2>1, <2>3, TouchKeeps
<1>4. CASE ExpireConversation(r)
  <2>1. Touch(r, ExpiredBy(rows[r], "caller"))
    BY <1>4 DEF ExpireConversation
  <2>2. ExpiredBy(rows[r], "caller") \in ConversationRow
    BY <1>1, ExpiredByIs
  <2> QED
    BY <2>1, <2>2, TouchKeeps
<1>5. CASE LockConversation(r)
  <2>1. /\ SweepTypes /\ SweptSoFar
        /\ table' = table /\ locked' = locked \union {r} /\ still' = still \ {r}
        /\ today' = today /\ rows' = rows
        /\ walk' = walk /\ continuation' = continuation /\ sweepResult' = sweepResult
        /\ others < OtherBound /\ others' = others + 1
    BY <1>5 DEF SweepInv, LockConversation
  <2>2. others' \in 0..OtherBound
    <3>1. OtherBound \in Nat /\ others \in 0..OtherBound
      BY SweepAssumption, <2>1 DEF SweepTypes
    <3> QED
      BY <2>1, <3>1
  <2>3. SweepTypes'
    BY <2>1, <2>2 DEF SweepTypes
  <2>4. SweptSoFar'
    BY <2>1 DEF SweptSoFar
  <2> QED
    BY <2>3, <2>4 DEF SweepInv
<1>6. CASE UnlockConversation(r)
  <2>1. /\ SweepTypes /\ SweptSoFar
        /\ table' = table /\ locked' = locked \ {r} /\ still' = still
        /\ today' = today /\ rows' = rows /\ others' = others
        /\ walk' = walk /\ continuation' = continuation /\ sweepResult' = sweepResult
    BY <1>6 DEF SweepInv, UnlockConversation
  <2>2. SweepTypes'
    BY <2>1 DEF SweepTypes
  <2>3. SweptSoFar'
    BY <2>1 DEF SweptSoFar
  <2> QED
    BY <2>2, <2>3 DEF SweepInv
<1> QED
  BY <1>2, <1>3, <1>4, <1>5, <1>6 DEF ConversationMoves

LEMMA SweepInitSound ==
  ASSUME SweepInit
  PROVE  SweepInv
<1>1. ASSUME table = "runs" PROVE rows \in [Id -> RunRow]
  <2>1. \A d \in {0, 1} : FinishedRun(d) \subseteq RunRow
    <3> SUFFICES ASSUME NEW d \in {0, 1} PROVE FinishedRun(d) \subseteq RunRow
      OBVIOUS
    <3>1. {} \subseteq AttemptRow /\ {AttemptOn(1, d)} \subseteq AttemptRow /\ d \in Nat
      BY DEF AttemptOn, AttemptRow
    <3>2. Cardinality({}) = 0 /\ Cardinality({AttemptOn(1, d)}) = 1
      BY FS_EmptySet, FS_Singleton
    <3> QED
      BY <3>1, <3>2 DEF FinishedRun, Row, RunRow
  <2>2. Row("active", 0, FALSE, 0, FALSE, {}) \in RunRow
    BY FS_EmptySet DEF Row, RunRow
  <2> QED
    BY <1>1, <2>1, <2>2 DEF SweepInit
<1>2. ASSUME table = "conversations" PROVE rows \in [Id -> ConversationRow]
  BY <1>2 DEF SweepInit, Conversation, ConversationRow
<1>3. SweepTypes
  <2>1. OtherBound \in Nat /\ Rows \in Nat
    BY SweepAssumption
  <2>2. others \in 0..OtherBound
    BY <2>1 DEF SweepInit
  <2>3. walk \in Walk
    BY <2>1 DEF SweepInit, Walk
  <2> QED
    BY <1>1, <1>2, <2>1, <2>2, <2>3 DEF SweepInit, SweepTypes, NoContinuation
<1>4. SweptSoFar
  BY DEF SweepInit, SweptSoFar
<1> QED
  BY <1>3, <1>4 DEF SweepInv

LEMMA SweepSteps ==
  ASSUME SweepInv, [SweepNext]_sweepVars
  PROVE  SweepInv'
<1>1. CASE StartSweep
  BY <1>1, StartSweepKeeps
<1>2. CASE CleanBatch
  BY <1>2, CleanBatchKeeps
<1>3. CASE StopAtLimit
  BY <1>3, StopAtLimitKeeps
<1>4. CASE BatchFails
  BY <1>4, BatchFailsKeeps
<1>5. CASE CleanerGone
  BY <1>5, CleanerGoneKeeps
<1>6. CASE GoOn \/ CloseCleaner \/ CleanerStarts \/ NextSweepDay
  BY <1>6, QuietSweepSteps
<1>7. CASE table = "runs" /\ \E r \in Id : RunMoves(r)
  BY <1>7, RunMovesKeep
<1>8. CASE table = "conversations" /\ \E r \in Id : ConversationMoves(r)
  BY <1>8, ConversationMovesKeep
<1>9. CASE UNCHANGED sweepVars
  BY <1>9 DEF SweepInv, SweepTypes, SweptSoFar, sweepVars, sweepWorld
<1> QED
  BY <1>1, <1>2, <1>3, <1>4, <1>5, <1>6, <1>7, <1>8, <1>9 DEF SweepNext

LEMMA SweptIsSettled == SweepInv => NothingDueIsSkipped
BY DEF SweepInv, SweptSoFar, NothingDueIsSkipped, SettledRow, DueRow, Due

(* A complete sweep of any number of batches, over any number of limits,   *)
(* failures and restarts, has left nothing that is due                     *)
(* (retention/index.ts:62-93,115-137).                                     *)
THEOREM SweepSkipsNothing == SweepSpec => []NothingDueIsSkipped
<1>1. SweepInit => SweepInv
  BY SweepInitSound
<1>2. SweepInv /\ [SweepNext]_sweepVars => SweepInv'
  BY SweepSteps
<1> QED
  BY <1>1, <1>2, SweptIsSettled, PTL DEF SweepSpec

-----------------------------------------------------------------------------
(* The audit accounts for what is missing.                                 *)

(* A run at day d, after n attempts at most: what is gone has nothing      *)
(* left, an attempt is no younger than the end of the last delivery, and   *)
(* its number is its own.                                                  *)
SoundRun(x, d, n) ==
  /\ x.status = "active" => x.input /\ x.result /\ x.tries = {} /\ x.made = 0
  /\ x.status # "finished" => ~x.open /\ ~x.unsent
  /\ x.status = "gone" => ~x.input /\ ~x.result /\ x.tries = {}
  /\ x.made <= n
  /\ \A a \in x.tries : a.number <= x.made /\ a.number >= 1 /\ a.day <= d
  /\ ~x.open => \A a \in x.tries : a.day <= x.ended
  /\ \A a, b \in x.tries : a.number = b.number => a = b
SoundConversation(x) == x.status = "live" => x.who = "none"

SoundRows ==
  /\ table = "runs" => \A r \in Id : SoundRun(rows[r], today, others + 1)
  /\ table = "conversations" => \A r \in Id : SoundConversation(rows[r])

(* The attempts that were made of a run and are no longer there.           *)
LostOf(r, x) == {<<r, n>> : n \in 1..x.made} \ Tried(r, x.tries)
Lost == UNION {LostOf(r, rows[r]) : r \in Id}

Gone == {r \in Id : rows[r].status = "gone"}
FencedByCleaner == {r \in Id : rows[r].who = "cleaner"}
WithoutInput == {r \in Id : ~rows[r].input}
WithoutResult == {r \in Id : ~rows[r].result}

SweepCounts ==
  /\ counted \in [inputs : Nat, results : Nat, tries : Nat, gone : Nat, expired : Nat]
  /\ counted.gone = Cardinality(Gone)
  /\ table = "conversations" => counted.expired = Cardinality(FencedByCleaner)
  /\ table = "runs" => /\ counted.inputs = Cardinality(WithoutInput)
                       /\ counted.results = Cardinality(WithoutResult)
                       /\ counted.tries = Cardinality(Lost)

SweepBooks == SoundRows /\ SweepCounts

LEMMA DisjointCount ==
  ASSUME NEW S, NEW T, IsFiniteSet(S), IsFiniteSet(T), S \intersect T = {}
  PROVE  /\ Cardinality(S \union T) = Cardinality(S) + Cardinality(T)
         /\ Cardinality(S) \in Nat /\ Cardinality(T) \in Nat
<1>1. Cardinality(S \intersect T) = 0
  BY FS_EmptySet
<1>2. Cardinality(S) \in Nat /\ Cardinality(T) \in Nat
  BY FS_CardinalityType
<1>3. Cardinality(S \union T) = Cardinality(S) + Cardinality(T) - Cardinality(S \intersect T)
  BY FS_Union
<1> QED
  BY <1>1, <1>2, <1>3

LEMMA AttemptsAreFinite ==
  ASSUME SweepInv, SoundRows, table = "runs", NEW S,
         \A p \in S : \E r \in Id : \E k \in 1..rows[r].made : p = <<r, k>>
  PROVE  IsFiniteSet(S)
<1> DEFINE N == others + 1
<1>1. N \in Nat
  BY DEF SweepInv, SweepTypes
<1>2. \A r \in Id : rows[r].made \in Nat /\ rows[r].made <= N
  <2>1. \A r \in Id : rows[r] \in RunRow
    BY DEF SweepInv, SweepTypes
  <2>2. \A r \in Id : rows[r].made <= N
    BY DEF SoundRows, SoundRun
  <2> QED
    BY <2>1, <2>2 DEF RunRow
<1> HIDE DEF N
<1>3. ASSUME NEW r \in Id, NEW k \in 1..rows[r].made PROVE k \in 1..N
  BY <1>1, <1>2
<1>4. S \subseteq Id \X (1..N)
  BY <1>3
<1>5. IsFiniteSet(Id \X (1..N))
  <2>1. IsFiniteSet(Id)
    BY SubsetOfIds
  <2>2. IsFiniteSet(1..N)
    BY <1>1, FS_Interval
  <2> QED
    BY <2>1, <2>2, FS_Product
<1> QED
  BY <1>4, <1>5, FS_Subset

LEMMA LostIsFinite ==
  ASSUME SweepInv, SoundRows, table = "runs"
  PROVE  IsFiniteSet(Lost)
<1>1. \A p \in Lost : \E r \in Id : \E k \in 1..rows[r].made : p = <<r, k>>
  BY DEF Lost, LostOf
<1> QED
  BY <1>1, AttemptsAreFinite

(* A batch takes nothing of a run that its counts do not show.             *)
LEMMA WhatABatchTakes ==
  ASSUME NEW x \in RunRow, NEW asOf \in Nat, NEW d \in Nat, NEW n \in Nat, SoundRun(x, d, n),
         RunIsDue(x, asOf)
  PROVE  LET y == CleanedRun(x, asOf)
         IN  /\ SoundRun(y, d, n) /\ x.status # "gone"
             /\ y.input => x.input
             /\ y.result => x.result
             /\ y.made = x.made /\ y.tries = Recent(x, asOf)
<1> DEFINE stripped == [x EXCEPT !.input = @ /\ InputAge > asOf,
                                 !.result = @ /\ x.finished + ResultAge > asOf,
                                 !.tries = Recent(x, asOf)]
           y == CleanedRun(x, asOf)
<1>1. x.status = "finished"
  BY DEF RunIsDue
<1>2. /\ stripped.status = "finished" /\ stripped.open = x.open /\ stripped.unsent = x.unsent
      /\ stripped.ended = x.ended /\ stripped.made = x.made
      /\ stripped.tries = Recent(x, asOf)
      /\ stripped.input <=> (x.input /\ InputAge > asOf)
      /\ stripped.result <=> (x.result /\ x.finished + ResultAge > asOf)
  BY <1>1 DEF RunRow
<1>3. Recent(x, asOf) \subseteq x.tries
  BY DEF Recent
<1>4. CASE RunIsDeleted(x, asOf)
  <2>1. y = [stripped EXCEPT !.status = "gone", !.tries = {}]
    BY <1>4 DEF CleanedRun
  <2>2. /\ InputAge <= asOf /\ x.finished + ResultAge <= asOf
        /\ ~x.open /\ ~x.unsent /\ ~(x.ended + History > asOf)
    BY <1>4 DEF RunIsDeleted, KeptByDelivery
  <2>3. ~(InputAge > asOf) /\ ~(x.finished + ResultAge > asOf)
    <3>1. InputAge \in Int /\ ResultAge \in Int /\ x.finished \in Int
      BY SweepAssumption DEF RunRow
    <3> QED
      BY <2>2, <3>1
  <2>4. Recent(x, asOf) = {}
    <3>1. SUFFICES ASSUME NEW a \in x.tries PROVE ~(a.day + History > asOf)
      BY DEF Recent
    <3>2. a.day <= x.ended /\ a.day \in Nat /\ x.ended \in Nat /\ History \in Nat
      BY SweepAssumption, <2>2 DEF SoundRun, RunRow, AttemptRow
    <3> QED
      BY <2>2, <3>2
  <2>5. /\ y.status = "gone" /\ y.open = x.open /\ y.unsent = x.unsent /\ y.made = x.made
        /\ y.tries = {} /\ ~y.input /\ ~y.result
    <3> HIDE DEF y
    <3>1. stripped \in RunRow
      <4>1. Recent(x, asOf) \subseteq AttemptRow
        BY <1>3 DEF RunRow
      <4> QED
        BY <4>1 DEF RunRow
    <3> HIDE DEF stripped
    <3> QED
      BY <1>2, <2>1, <2>3, <3>1 DEF RunRow
  <2> HIDE DEF y, stripped
  <2>6. SoundRun(y, d, n)
    BY <2>2, <2>5 DEF SoundRun
  <2> QED
    BY <1>1, <2>4, <2>5, <2>6 DEF y
<1>5. CASE ~RunIsDeleted(x, asOf)
  <2>1. y = stripped
    BY <1>5 DEF CleanedRun
  <2> HIDE DEF y, stripped
  <2>2. SoundRun(y, d, n)
    BY <1>1, <1>2, <1>3, <2>1 DEF SoundRun
  <2> QED
    BY <1>1, <1>2, <2>1, <2>2 DEF y
<1> QED
  BY <1>4, <1>5

LEMMA LostInBatch ==
  ASSUME NEW r \in Id, NEW x \in RunRow, NEW y \in RunRow, NEW asOf \in Nat, NEW d, NEW n,
         SoundRun(x, d, n), y.made = x.made, y.tries = Recent(x, asOf)
  PROVE  /\ LostOf(r, y) = LostOf(r, x) \union Tried(r, x.tries \ Recent(x, asOf))
         /\ LostOf(r, x) \intersect Tried(r, x.tries \ Recent(x, asOf)) = {}
<1> DEFINE kept == Recent(x, asOf)
<1>1. kept \subseteq x.tries
  BY DEF Recent
<1>2. \A a \in x.tries : a.number \in 1..x.made
  <2>1. \A a \in x.tries : a.number \in Nat /\ x.made \in Nat
    BY DEF RunRow, AttemptRow
  <2>2. \A a \in x.tries : a.number <= x.made /\ a.number >= 1
    BY DEF SoundRun
  <2> QED
    BY <2>1, <2>2
<1>3. \A a, b \in x.tries : a.number = b.number => a = b
  BY DEF SoundRun
<1>4. Tried(r, x.tries \ kept) \subseteq Tried(r, x.tries)
  BY DEF Tried
<1>5. LostOf(r, x) \intersect Tried(r, x.tries \ kept) = {}
  BY <1>4 DEF LostOf
<1>6. \A k : <<r, k>> \in Tried(r, kept) <=> \E a \in kept : a.number = k
  BY DEF Tried
<1>7. \A k : <<r, k>> \in Tried(r, x.tries) <=> \E a \in x.tries : a.number = k
  BY DEF Tried
<1>8. \A k : <<r, k>> \in Tried(r, x.tries \ kept) <=> \E a \in x.tries \ kept : a.number = k
  BY DEF Tried
<1> DEFINE made == 1..x.made
<1>9. LostOf(r, y) = {<<r, k>> : k \in made} \ Tried(r, kept)
      /\ LostOf(r, x) = {<<r, k>> : k \in made} \ Tried(r, x.tries)
  BY DEF LostOf
<1> HIDE DEF kept, made
<1>10. \A a \in x.tries : a.number \in made
  BY <1>2 DEF made
<1>11. \A p \in Tried(r, x.tries \ kept) : \E k \in made : p = <<r, k>>
  BY <1>10 DEF Tried
<1>12. ASSUME NEW k \in made
       PROVE  <<r, k>> \in Tried(r, kept) <=>
                <<r, k>> \in Tried(r, x.tries) /\ <<r, k>> \notin Tried(r, x.tries \ kept)
  <2>1. ASSUME <<r, k>> \in Tried(r, kept), <<r, k>> \in Tried(r, x.tries \ kept)
        PROVE  FALSE
    <3>1. PICK a \in kept : a.number = k
      BY <1>6, <2>1
    <3>2. PICK b \in x.tries \ kept : b.number = k
      BY <1>8, <2>1
    <3>3. a = b
      BY <1>1, <1>3, <3>1, <3>2
    <3> QED
      BY <3>1, <3>2, <3>3
  <2>2. <<r, k>> \in Tried(r, kept) => <<r, k>> \in Tried(r, x.tries)
    BY <1>1, <1>6, <1>7
  <2>3. ASSUME <<r, k>> \in Tried(r, x.tries), <<r, k>> \notin Tried(r, x.tries \ kept)
        PROVE  <<r, k>> \in Tried(r, kept)
    <3>1. PICK a \in x.tries : a.number = k
      BY <1>7, <2>3
    <3>2. a \in kept
      BY <1>8, <2>3, <3>1
    <3> QED
      BY <1>6, <3>1, <3>2
  <2> QED
    BY <2>1, <2>2, <2>3
<1>13. LostOf(r, y) = LostOf(r, x) \union Tried(r, x.tries \ kept)
  <2>1. ASSUME NEW p \in LostOf(r, y)
        PROVE  p \in LostOf(r, x) \union Tried(r, x.tries \ kept)
    <3>1. PICK k \in made : p = <<r, k>> /\ p \notin Tried(r, kept)
      BY <1>9
    <3> QED
      BY <1>9, <1>12, <3>1
  <2>2. ASSUME NEW p \in LostOf(r, x) PROVE p \in LostOf(r, y)
    <3>1. PICK k \in made : p = <<r, k>> /\ p \notin Tried(r, x.tries)
      BY <1>9
    <3> QED
      BY <1>9, <1>12, <3>1
  <2>3. ASSUME NEW p \in Tried(r, x.tries \ kept) PROVE p \in LostOf(r, y)
    <3>1. PICK k \in made : p = <<r, k>>
      BY <1>11
    <3>2. p \notin Tried(r, kept)
      BY <1>12, <2>3, <3>1
    <3> QED
      BY <1>9, <3>1, <3>2
  <2> QED
    BY <2>1, <2>2, <2>3
<1> QED
  BY <1>5, <1>13 DEF kept

LEMMA CommittedRunBooks ==
  ASSUME SweepInv, SweepBooks, table = "runs", BatchCommitted, table' = table,
         today' = today, others' = others
  PROVE  SweepBooks'
<1> DEFINE asOf == walk.asOf
           B == CleanupBatch
           I == {r \in B : rows[r].input /\ ~rows'[r].input}
           O == {r \in B : rows[r].result /\ ~rows'[r].result}
           G == {r \in B : rows'[r].status = "gone"}
           T == UNION {Tried(r, rows[r].tries \ Recent(rows[r], walk.asOf)) : r \in B}
<1>1. /\ SweepTypes /\ asOf \in Nat /\ today \in Nat /\ others + 1 \in Nat
      /\ rows \in [Id -> RunRow] /\ rows' \in [Id -> RunRow]
  BY CommittedRows DEF SweepInv, SweepTypes, Walk
<1>2. \A r \in Id : rows'[r] = IF r \in B THEN CleanedRun(rows[r], asOf) ELSE rows[r]
  BY <1>1, CommittedRows DEF CleanedRow
<1>3. B \subseteq Id /\ \A r \in B : RunIsDue(rows[r], asOf)
  BY DEF CleanupBatch, Candidates, Due
<1>4. \A r \in Id : SoundRun(rows[r], today, others + 1)
  BY DEF SweepBooks, SoundRows
<1>5. /\ counted' = [counted EXCEPT !.inputs = @ + Cardinality(I),
                                    !.results = @ + Cardinality(O),
                                    !.tries = @ + Cardinality(T),
                                    !.gone = @ + Cardinality(G)]
  <2> DEFINE after == [r \in Id |-> IF r \in CleanupBatch THEN Cleaned(r, walk.asOf) ELSE rows[r]]
  <2>1. rows' = after /\ counted' = Counts(B, after)
    BY DEF BatchCommitted
  <2> HIDE DEF after
  <2> QED
    BY <2>1 DEF Counts, HowMany
<1> HIDE DEF B
<1>6. \A r \in B : /\ SoundRun(rows'[r], today, others + 1) /\ rows[r].status # "gone"
                   /\ rows'[r].input => rows[r].input
                   /\ rows'[r].result => rows[r].result
                   /\ rows'[r].made = rows[r].made /\ rows'[r].tries = Recent(rows[r], asOf)
  BY <1>1, <1>2, <1>3, <1>4, WhatABatchTakes
<1>7. SoundRows'
  <2>1. \A r \in Id : SoundRun(rows'[r], today, others + 1)
    BY <1>2, <1>4, <1>6
  <2> QED
    BY <2>1 DEF SoundRows
<1>8. /\ WithoutInput' = WithoutInput \union I /\ WithoutInput \intersect I = {}
      /\ WithoutResult' = WithoutResult \union O /\ WithoutResult \intersect O = {}
      /\ Gone' = Gone \union G /\ Gone \intersect G = {}
  BY <1>2, <1>3, <1>6 DEF WithoutInput, WithoutResult, Gone
<1>9. Lost' = Lost \union T /\ Lost \intersect T = {}
  <2>1. \A r \in B :
          /\ LostOf(r, rows'[r]) =
               LostOf(r, rows[r]) \union Tried(r, rows[r].tries \ Recent(rows[r], asOf))
          /\ LostOf(r, rows[r]) \intersect Tried(r, rows[r].tries \ Recent(rows[r], asOf)) = {}
    BY <1>1, <1>3, <1>4, <1>6, LostInBatch
  <2>2. \A r \in Id \ B : LostOf(r, rows'[r]) = LostOf(r, rows[r])
    BY <1>2
  <2>3. Lost' = UNION {LostOf(r, rows'[r]) : r \in Id}
    BY DEF Lost
  <2>4. Lost' = Lost \union T
    <3>1. ASSUME NEW p \in Lost' PROVE p \in Lost \union T
      <4>1. PICK r \in Id : p \in LostOf(r, rows'[r])
        BY <2>3
      <4>2. CASE r \in B
        <5>1. p \in LostOf(r, rows[r]) \/ p \in Tried(r, rows[r].tries \ Recent(rows[r], asOf))
          BY <2>1, <4>1, <4>2
        <5> QED
          BY <4>2, <5>1 DEF Lost
      <4>3. CASE r \notin B
        BY <2>2, <4>1, <4>3 DEF Lost
      <4> QED
        BY <4>2, <4>3
    <3>2. ASSUME NEW p \in Lost PROVE p \in Lost'
      <4>1. PICK r \in Id : p \in LostOf(r, rows[r])
        BY DEF Lost
      <4>2. p \in LostOf(r, rows'[r])
        BY <2>1, <2>2, <4>1
      <4> QED
        BY <2>3, <4>2
    <3>3. ASSUME NEW p \in T PROVE p \in Lost'
      <4>1. PICK r \in B : p \in Tried(r, rows[r].tries \ Recent(rows[r], asOf))
        BY <3>3
      <4>2. p \in LostOf(r, rows'[r])
        BY <2>1, <4>1
      <4> QED
        BY <1>3, <2>3, <4>2
    <3> HIDE DEF T
    <3> QED
      BY <3>1, <3>2, <3>3
  <2>5. Lost \intersect T = {}
    <3>1. SUFFICES ASSUME NEW p, p \in Lost, p \in T PROVE FALSE
      OBVIOUS
    <3>2. PICK r \in B : p \in Tried(r, rows[r].tries \ Recent(rows[r], asOf))
      BY <3>1
    <3>3. PICK q \in Id : p \in LostOf(q, rows[q])
      BY <3>1 DEF Lost
    <3>4. p[1] = r
      BY <3>2 DEF Tried
    <3>5. p[1] = q
      BY <3>3 DEF LostOf
    <3> QED
      BY <2>1, <3>2, <3>3, <3>4, <3>5
  <2> QED
    BY <2>4, <2>5
<1>10. /\ IsFiniteSet(WithoutInput) /\ IsFiniteSet(I) /\ IsFiniteSet(WithoutResult)
       /\ IsFiniteSet(O) /\ IsFiniteSet(Gone) /\ IsFiniteSet(G)
  BY <1>3, SubsetOfIds DEF WithoutInput, WithoutResult, Gone
<1>11. IsFiniteSet(Lost) /\ IsFiniteSet(T)
  <2>1. IsFiniteSet(Lost)
    BY LostIsFinite DEF SweepBooks
  <2>2. ASSUME NEW p \in T
        PROVE  \E r \in Id : \E k \in 1..rows[r].made : p = <<r, k>>
    <3>1. PICK r \in B : p \in Tried(r, rows[r].tries \ Recent(rows[r], asOf))
      BY <2>2
    <3>2. PICK a \in rows[r].tries : p = <<r, a.number>>
      BY <3>1 DEF Tried
    <3>3. a.number <= rows[r].made /\ a.number >= 1
      BY <1>3, <1>4, <3>1, <3>2 DEF SoundRun
    <3>4. a.number \in Nat /\ rows[r].made \in Nat
      <4>1. r \in Id /\ rows[r].tries \subseteq AttemptRow /\ rows[r].made \in Nat
        BY <1>1, <1>3, <3>1, RunRowParts
      <4> QED
        BY <3>2, <4>1 DEF AttemptRow
    <3>5. a.number \in 1..rows[r].made
      BY <3>3, <3>4
    <3> QED
      BY <1>3, <3>1, <3>2, <3>5
  <2> HIDE DEF T
  <2> QED
    BY <2>1, <2>2, AttemptsAreFinite DEF SweepBooks
<1> HIDE DEF I, O, G, T
<1>12. /\ Cardinality(WithoutInput') = Cardinality(WithoutInput) + Cardinality(I)
       /\ Cardinality(WithoutResult') = Cardinality(WithoutResult) + Cardinality(O)
       /\ Cardinality(Gone') = Cardinality(Gone) + Cardinality(G)
       /\ Cardinality(Lost') = Cardinality(Lost) + Cardinality(T)
       /\ {Cardinality(I), Cardinality(O), Cardinality(G), Cardinality(T)} \subseteq Nat
  BY <1>8, <1>9, <1>10, <1>11, DisjointCount
<1>13. SweepCounts'
  <2>1. /\ counted \in [inputs : Nat, results : Nat, tries : Nat, gone : Nat, expired : Nat]
        /\ counted.gone = Cardinality(Gone) /\ counted.inputs = Cardinality(WithoutInput)
        /\ counted.results = Cardinality(WithoutResult) /\ counted.tries = Cardinality(Lost)
    BY DEF SweepBooks, SweepCounts
  <2>2. /\ counted.inputs + Cardinality(I) \in Nat /\ counted.results + Cardinality(O) \in Nat
        /\ counted.tries + Cardinality(T) \in Nat /\ counted.gone + Cardinality(G) \in Nat
    BY <1>12, <2>1
  <2>3. /\ counted' \in [inputs : Nat, results : Nat, tries : Nat, gone : Nat, expired : Nat]
        /\ counted'.inputs = counted.inputs + Cardinality(I)
        /\ counted'.results = counted.results + Cardinality(O)
        /\ counted'.tries = counted.tries + Cardinality(T)
        /\ counted'.gone = counted.gone + Cardinality(G)
    BY <1>5, <2>1, <2>2
  <2> QED
    BY <1>12, <2>1, <2>3 DEF SweepCounts
<1> QED
  BY <1>7, <1>13 DEF SweepBooks

LEMMA CommittedConversationBooks ==
  ASSUME SweepInv, SweepBooks, table = "conversations", BatchCommitted, table' = table
  PROVE  SweepBooks'
<1> DEFINE asOf == walk.asOf
           B == CleanupBatch
           E == {r \in B : rows[r].status = "live"}
           G == {r \in B : rows'[r].status = "gone"}
<1>1. /\ SweepTypes /\ asOf \in Nat /\ rows \in [Id -> ConversationRow] /\ table # "runs"
  BY DEF SweepInv, SweepTypes, Walk
<1>2. \A r \in Id : rows'[r] = IF r \in B THEN CleanedConversation(rows[r], asOf) ELSE rows[r]
  BY <1>1, CommittedRows DEF CleanedRow
<1>3. B \subseteq Id /\ \A r \in B : ConversationIsDue(rows[r], asOf)
  BY <1>1 DEF CleanupBatch, Candidates, Due
<1>4. \A r \in Id : rows[r].status = "live" => rows[r].who = "none"
  BY DEF SweepBooks, SoundRows, SoundConversation
<1>5. counted' = [counted EXCEPT !.expired = @ + Cardinality(E), !.gone = @ + Cardinality(G)]
  <2> DEFINE after == [r \in Id |-> IF r \in CleanupBatch THEN Cleaned(r, walk.asOf) ELSE rows[r]]
  <2>1. rows' = after /\ counted' = Counts(B, after)
    BY DEF BatchCommitted
  <2> HIDE DEF after
  <2> QED
    BY <1>1, <2>1 DEF Counts, HowMany
<1> HIDE DEF B
<1>6. ASSUME NEW r \in B
      PROVE  /\ rows[r].status # "gone"
             /\ rows[r].status = "live" => rows'[r].who = "cleaner"
             /\ rows[r].status # "live" => rows'[r].who = rows[r].who
             /\ rows'[r].status # "live"
  <2>1. /\ rows[r].status # "gone"
        /\ rows[r].status = "live" => rows[r].expires <= asOf
    BY <1>3 DEF ConversationIsDue, Fenced
  <2>2. rows[r] \in ConversationRow /\ rows'[r] = CleanedConversation(rows[r], asOf)
    BY <1>1, <1>2, <1>3
  <2> DEFINE x == rows[r]
             y == CleanedConversation(x, asOf)
  <2>3. x \in ConversationRow /\ asOf \in Nat
    BY <1>1, <2>2
  <2> HIDE DEF x, asOf
  <2>4. /\ y.status = "live" => x.status = "live"
        /\ x.status = "live" /\ x.expires <= asOf => y.status # "live" /\ y.who = "cleaner"
        /\ x.status # "live" => y.who = x.who
    BY <2>3, CleanedConversationIs
  <2> USE DEF x
  <2> HIDE DEF y
  <2> QED
    BY <2>1, <2>2, <2>4 DEF y
<1>8. SoundRows'
  <2>1. \A r \in Id : rows'[r].status = "live" => rows'[r].who = "none"
    BY <1>2, <1>4, <1>6
  <2> QED
    BY <1>1, <2>1 DEF SoundRows, SoundConversation
<1>9. /\ FencedByCleaner' = FencedByCleaner \union E /\ FencedByCleaner \intersect E = {}
      /\ Gone' = Gone \union G /\ Gone \intersect G = {}
  BY <1>2, <1>3, <1>4, <1>6 DEF FencedByCleaner, Gone
<1>10. /\ IsFiniteSet(FencedByCleaner) /\ IsFiniteSet(E) /\ IsFiniteSet(Gone) /\ IsFiniteSet(G)
  BY <1>3, SubsetOfIds DEF FencedByCleaner, Gone
<1> HIDE DEF E, G
<1>11. /\ Cardinality(FencedByCleaner') = Cardinality(FencedByCleaner) + Cardinality(E)
       /\ Cardinality(Gone') = Cardinality(Gone) + Cardinality(G)
       /\ {Cardinality(E), Cardinality(G)} \subseteq Nat
  BY <1>9, <1>10, DisjointCount
<1>12. SweepCounts'
  <2>1. /\ counted \in [inputs : Nat, results : Nat, tries : Nat, gone : Nat, expired : Nat]
        /\ counted.gone = Cardinality(Gone) /\ counted.expired = Cardinality(FencedByCleaner)
    BY DEF SweepBooks, SweepCounts
  <2>2. /\ counted.expired + Cardinality(E) \in Nat /\ counted.gone + Cardinality(G) \in Nat
    BY <1>11, <2>1
  <2>3. /\ counted' \in [inputs : Nat, results : Nat, tries : Nat, gone : Nat, expired : Nat]
        /\ counted'.expired = counted.expired + Cardinality(E)
        /\ counted'.gone = counted.gone + Cardinality(G)
    BY <1>5, <2>1, <2>2
  <2> QED
    BY <1>1, <1>11, <2>1, <2>3 DEF SweepCounts
<1> QED
  BY <1>8, <1>12 DEF SweepBooks

LEMMA SoundLater ==
  ASSUME NEW x \in RunRow, NEW d \in Nat, NEW e \in Nat, d <= e, NEW n \in Nat, NEW m \in Nat,
         n <= m, SoundRun(x, d, n)
  PROVE  SoundRun(x, e, m)
<1>1. x.made \in Nat /\ \A a \in x.tries : a.day \in Nat
  BY DEF RunRow, AttemptRow
<1>2. x.made <= m /\ \A a \in x.tries : a.day <= e
  BY <1>1 DEF SoundRun
<1> QED
  BY <1>2 DEF SoundRun

(* A step that leaves what the audit counts as it was.                     *)
LEMMA TouchKeepsBooks ==
  ASSUME SweepInv, SweepBooks, NEW r \in Id, NEW row, Touch(r, row),
         (row.status = "gone") <=> (rows[r].status = "gone"),
         table = "runs" =>
           /\ SoundRun(row, today, others + 2)
           /\ row.input <=> rows[r].input
           /\ row.result <=> rows[r].result
           /\ LostOf(r, row) = LostOf(r, rows[r]),
         table = "conversations" =>
           /\ SoundConversation(row)
           /\ (row.who = "cleaner") <=> (rows[r].who = "cleaner")
  PROVE  SweepBooks'
<1>1. /\ table' = table /\ today' = today /\ others' = others + 1 /\ counted' = counted
      /\ rows' = [rows EXCEPT ![r] = row] /\ others \in Nat /\ today \in Nat
      /\ others' + 1 = others + 2
  BY DEF SweepInv, SweepTypes, Touch, sweepWorld
<1>2. DOMAIN rows = Id
  BY DEF SweepInv, SweepTypes
<1>3. \A q \in Id : rows'[q] = IF q = r THEN row ELSE rows[q]
  BY <1>1, <1>2
<1>4. SoundRows'
  <2>1. ASSUME table = "runs", NEW q \in Id PROVE SoundRun(rows'[q], today, others + 2)
    <3>1. rows[q] \in RunRow /\ SoundRun(rows[q], today, others + 1)
      BY <2>1 DEF SweepInv, SweepTypes, SweepBooks, SoundRows
    <3>2. SoundRun(rows[q], today, others + 2)
      BY <1>1, <3>1, SoundLater
    <3> QED
      BY <1>3, <2>1, <3>2
  <2>2. ASSUME table = "conversations", NEW q \in Id PROVE SoundConversation(rows'[q])
    BY <1>3, <2>2 DEF SweepBooks, SoundRows
  <2> QED
    BY <1>1, <2>1, <2>2 DEF SoundRows
<1>5. Gone' = Gone
  BY <1>3 DEF Gone
<1>6. table = "conversations" => FencedByCleaner' = FencedByCleaner
  BY <1>3 DEF FencedByCleaner
<1>7. table = "runs" => WithoutInput' = WithoutInput /\ WithoutResult' = WithoutResult
  BY <1>3 DEF WithoutInput, WithoutResult
<1>8. table = "runs" => Lost' = Lost
  <2>1. Lost' = UNION {LostOf(q, rows'[q]) : q \in Id}
    BY DEF Lost
  <2>2. table = "runs" => \A q \in Id : LostOf(q, rows'[q]) = LostOf(q, rows[q])
    BY <1>3
  <2> QED
    BY <2>1, <2>2 DEF Lost
<1> QED
  BY <1>1, <1>4, <1>5, <1>6, <1>7, <1>8 DEF SweepBooks, SweepCounts

LEMMA RunMovesKeepBooks ==
  ASSUME SweepInv, SweepBooks, table = "runs", NEW r \in Id, RunMoves(r)
  PROVE  SweepBooks'
<1> DEFINE x == rows[r]
<1>1. x \in RunRow /\ today \in Nat /\ others \in Nat
  BY DEF SweepInv, SweepTypes
<1>2. SoundRun(x, today, others + 1)
  BY DEF SweepBooks, SoundRows
<1>3. SoundRun(x, today, others + 2)
  BY <1>1, <1>2, SoundLater
<1>4. x.made \in Nat /\ x.made <= others + 1 /\ x.ended \in Nat /\ x.tries \subseteq AttemptRow
  BY <1>1, <1>2 DEF RunRow, SoundRun
<1>5. CASE FinishActiveRun(r)
  <2>1. PICK open \in BOOLEAN : Touch(r, Row("finished", today, open, 0, open, {}))
    BY <1>5 DEF FinishActiveRun
  <2> DEFINE row == Row("finished", today, open, 0, open, {})
  <2>2. /\ row.status = "finished" /\ row.input /\ row.result /\ row.tries = {} /\ row.made = 0
    BY <1>1, FreshRow
  <2>3. x.status = "active" /\ x.input /\ x.result /\ x.tries = {} /\ x.made = 0
    BY <1>2, <1>5 DEF FinishActiveRun, SoundRun
  <2> HIDE DEF row
  <2>4. SoundRun(row, today, others + 2)
    BY <1>1, <2>2 DEF SoundRun
  <2>5. LostOf(r, row) = LostOf(r, x)
    BY <2>2, <2>3 DEF LostOf
  <2>6. Touch(r, row)
    BY <2>1 DEF row
  <2> QED
    BY <2>2, <2>3, <2>4, <2>5, <2>6, TouchKeepsBooks
<1>6. CASE SendMessage(r) \/ ReplayDelivery(r)
  <2> DEFINE row == IF SendMessage(r) THEN [x EXCEPT !.unsent = FALSE]
                    ELSE [x EXCEPT !.open = TRUE, !.unsent = TRUE]
  <2>1. Touch(r, row) /\ x.status = "finished"
    BY <1>2, <1>6 DEF SendMessage, ReplayDelivery, SoundRun, RunRow
  <2>2. /\ row.status = "finished" /\ row.input = x.input /\ row.result = x.result
        /\ row.tries = x.tries /\ row.made = x.made /\ row.ended = x.ended
        /\ row.open = x.open \/ row.open
    BY <1>1, <2>1 DEF RunRow
  <2> HIDE DEF row
  <2>3. SoundRun(row, today, others + 2)
    BY <1>3, <2>2 DEF SoundRun
  <2>4. LostOf(r, row) = LostOf(r, x)
    BY <2>2 DEF LostOf
  <2> QED
    BY <2>1, <2>2, <2>3, <2>4, TouchKeepsBooks
<1>7. CASE TryDelivery(r)
  <2>1. PICK ends \in BOOLEAN :
          Touch(r, [rows[r] EXCEPT !.tries = @ \union {AttemptOn(rows[r].made + 1, today)},
                                   !.made = @ + 1, !.open = ~ends,
                                   !.ended = IF ends THEN today ELSE @])
    BY <1>7 DEF TryDelivery
  <2> DEFINE new == AttemptOn(x.made + 1, today)
             row == [rows[r] EXCEPT !.tries = @ \union {AttemptOn(rows[r].made + 1, today)},
                                    !.made = @ + 1, !.open = ~ends,
                                    !.ended = IF ends THEN today ELSE @]
  <2>2. /\ row.status = x.status /\ row.input = x.input /\ row.result = x.result
        /\ row.tries = x.tries \union {new} /\ row.made = x.made + 1
        /\ row.open = ~ends /\ row.ended = IF ends THEN today ELSE x.ended
    BY <1>1 DEF RunRow
  <2>3. x.status = "finished"
    BY <1>2, <1>7 DEF TryDelivery, SoundRun
  <2>4. new.number = x.made + 1 /\ new.day = today
    BY DEF AttemptOn
  <2>5. Touch(r, row)
    BY <2>1
  <2> HIDE DEF row, new
  <2>6. \A a \in x.tries : /\ a.number \in Nat /\ a.day \in Nat
                            /\ a.number <= x.made /\ a.number >= 1 /\ a.day <= today
    BY <1>2, <1>4 DEF SoundRun, AttemptRow
  <2>7. \A a \in row.tries : a.number <= row.made /\ a.number >= 1 /\ a.day <= today
    BY <1>1, <1>4, <2>2, <2>4, <2>6
  <2>8. \A a, b \in row.tries : a.number = b.number => a = b
    <3>1. \A a, b \in x.tries : a.number = b.number => a = b
      BY <1>2 DEF SoundRun
    <3>2. \A a \in x.tries : a.number # new.number
      BY <1>4, <2>4, <2>6
    <3> QED
      BY <2>2, <3>1, <3>2
  <2>9. ~row.open => \A a \in row.tries : a.day <= row.ended
    BY <2>2, <2>7
  <2>10. row.made <= others + 2
    BY <1>1, <1>4, <2>2
  <2>11. SoundRun(row, today, others + 2)
    BY <2>2, <2>3, <2>7, <2>8, <2>9, <2>10 DEF SoundRun
  <2>12. LostOf(r, row) = LostOf(r, x)
    <3>1. 1..row.made = (1..x.made) \union {x.made + 1}
      BY <1>4, <2>2
    <3>2. Tried(r, row.tries) = Tried(r, x.tries) \union {<<r, x.made + 1>>}
      BY <2>2, <2>4 DEF Tried
    <3>3. \A k \in 1..x.made : k # x.made + 1
      BY <1>4
    <3>4. {<<r, k>> : k \in 1..row.made} =
            {<<r, k>> : k \in 1..x.made} \union {<<r, x.made + 1>>}
      BY <3>1
    <3>5. <<r, x.made + 1>> \notin {<<r, k>> : k \in 1..x.made}
      BY <3>3
    <3> QED
      BY <3>2, <3>4, <3>5 DEF LostOf
  <2> QED
    BY <2>2, <2>3, <2>5, <2>11, <2>12, TouchKeepsBooks
<1> QED
  BY <1>5, <1>6, <1>7 DEF RunMoves

LEMMA ConversationMovesKeepBooks ==
  ASSUME SweepInv, SweepBooks, table = "conversations", NEW r \in Id, ConversationMoves(r)
  PROVE  SweepBooks'
<1> DEFINE x == rows[r]
<1>1. x \in ConversationRow /\ table # "runs"
  BY DEF SweepInv, SweepTypes
<1>2. x.status = "live" => x.who = "none"
  BY DEF SweepBooks, SoundRows, SoundConversation
<1>3. ASSUME NEW row, Touch(r, row), x.status = "live", row.status # "gone",
             row.who \in {"none", "owner", "caller"}, row.status = "live" => row.who = "none"
      PROVE  SweepBooks'
  <2>1. SoundConversation(row) /\ row.who # "cleaner" /\ x.who # "cleaner" /\ x.status # "gone"
    BY <1>2, <1>3 DEF SoundConversation
  <2> QED
    BY <1>1, <1>3, <2>1, TouchKeepsBooks
<1>4. CASE RenewConversation(r)
  <2> DEFINE row == [rows[r] EXCEPT !.expires = today + ConversationAge]
  <2>1. Touch(r, row) /\ x.status = "live"
    BY <1>4 DEF RenewConversation
  <2>2. row.status = x.status /\ row.who = x.who
    BY <1>1 DEF ConversationRow
  <2> HIDE DEF row, x
  <2> QED
    BY <1>2, <1>3, <2>1, <2>2
<1>5. CASE DeleteConversation(r)
  <2> DEFINE row == [rows[r] EXCEPT !.status = "deleting", !.by = today + DeletionGrace,
                                    !.who = "owner"]
  <2>1. Touch(r, row) /\ x.status = "live"
    BY <1>5 DEF DeleteConversation
  <2>2. row.status = "deleting" /\ row.who = "owner"
    BY <1>1 DEF ConversationRow
  <2> HIDE DEF row, x
  <2> QED
    BY <1>2, <1>3, <2>1, <2>2
<1>6. CASE ExpireConversation(r)
  <2> DEFINE row == ExpiredBy(rows[r], "caller")
  <2>1. Touch(r, row) /\ x.status = "live"
    BY <1>6 DEF ExpireConversation
  <2>2. row.status = "expired" /\ row.who = "caller"
    BY <1>1, ExpiredByIs
  <2> HIDE DEF row, x
  <2> QED
    BY <1>2, <1>3, <2>1, <2>2
<1>7. CASE LockConversation(r) \/ UnlockConversation(r)
  <2>1. table' = table /\ rows' = rows /\ counted' = counted
    BY <1>7 DEF LockConversation, UnlockConversation
  <2> QED
    BY <1>1, <2>1 DEF SweepBooks, SoundRows, SweepCounts, Gone, FencedByCleaner
<1> QED
  BY <1>4, <1>5, <1>6, <1>7 DEF ConversationMoves

LEMMA QuietSweepBooks ==
  ASSUME SweepInv, SweepBooks, table' = table, rows' = rows, counted' = counted,
         others' = others, today' \in Nat, today <= today'
  PROVE  SweepBooks'
<1>1. SweepCounts'
  BY DEF SweepBooks, SweepCounts, Gone, FencedByCleaner, WithoutInput, WithoutResult, Lost
<1>2. ASSUME table = "runs", NEW r \in Id PROVE SoundRun(rows[r], today', others + 1)
  <2>1. rows[r] \in RunRow /\ SoundRun(rows[r], today, others + 1) /\ today \in Nat
        /\ others + 1 \in Nat
    BY <1>2 DEF SweepInv, SweepTypes, SweepBooks, SoundRows
  <2> QED
    BY <2>1, SoundLater
<1>3. SoundRows'
  BY <1>2 DEF SweepBooks, SoundRows
<1> QED
  BY <1>1, <1>3 DEF SweepBooks

LEMMA SweepBooksOpen ==
  ASSUME SweepInit
  PROVE  SweepBooks
<1>0. others + 1 = 1 /\ today = 1
  BY DEF SweepInit
<1>1. Cardinality({}) = 0
  BY FS_EmptySet
<1>2. CASE table = "runs"
  <2>1. ASSUME NEW r \in Id
        PROVE  /\ SoundRun(rows[r], 1, 1) /\ rows[r].status # "gone"
               /\ rows[r].input /\ rows[r].result /\ LostOf(r, rows[r]) = {}
    <3>1. rows[r] \in {Row("active", 0, FALSE, 0, FALSE, {})}
                        \union FinishedRun(0) \union FinishedRun(1)
      BY <1>2 DEF SweepInit
    <3>2. PICK d \in {0, 1} : rows[r] \in {Row("active", 0, FALSE, 0, FALSE, {})}
                                            \union FinishedRun(d)
      BY <3>1
    <3>3. Cardinality({AttemptOn(1, d)}) = 1
      BY FS_Singleton
    <3>4. /\ rows[r].input /\ rows[r].result /\ rows[r].status \in {"active", "finished"}
          /\ \/ rows[r].tries = {} /\ rows[r].made = 0
             \/ /\ rows[r].tries = {AttemptOn(1, d)} /\ rows[r].made = 1
                /\ rows[r].status = "finished"
                /\ rows[r].open \/ rows[r].ended = d
          /\ rows[r].status = "active" =>
               ~rows[r].open /\ ~rows[r].unsent /\ rows[r].tries = {} /\ rows[r].made = 0
      BY <1>1, <3>2, <3>3 DEF FinishedRun, Row
    <3>5. AttemptOn(1, d).number = 1 /\ AttemptOn(1, d).day = d /\ d \in 0..1
      BY DEF AttemptOn
    <3>6. SoundRun(rows[r], 1, 1)
      BY <3>4, <3>5 DEF SoundRun
    <3>7. LostOf(r, rows[r]) = {}
      <4>1. Tried(r, {AttemptOn(1, d)}) = {<<r, 1>>}
        BY <3>5 DEF Tried
      <4>2. 1..0 = {} /\ 1..1 = {1}
        OBVIOUS
      <4>3. CASE rows[r].made = 0
        BY <4>2, <4>3 DEF LostOf
      <4>4. CASE rows[r].tries = {AttemptOn(1, d)} /\ rows[r].made = 1
        <5>1. {<<r, k>> : k \in 1..1} = {<<r, 1>>}
          BY <4>2
        <5> QED
          BY <4>1, <4>4, <5>1 DEF LostOf
      <4> QED
        BY <3>4, <4>3, <4>4
    <3> QED
      BY <3>4, <3>6, <3>7
  <2>2. Gone = {} /\ WithoutInput = {} /\ WithoutResult = {} /\ Lost = {}
    BY <2>1 DEF Gone, WithoutInput, WithoutResult, Lost
  <2>3. SoundRows
    BY <1>0, <1>2, <2>1 DEF SoundRows
  <2>4. SweepCounts
    BY <1>1, <1>2, <2>2 DEF SweepCounts, SweepInit
  <2> QED
    BY <2>3, <2>4 DEF SweepBooks
<1>3. CASE table = "conversations"
  <2>1. ASSUME NEW r \in Id
        PROVE  /\ rows[r].status # "gone" /\ rows[r].who # "cleaner"
               /\ rows[r].status = "live" => rows[r].who = "none"
    <3>1. rows[r] \in {Conversation("live", d, 0, "none") : d \in 1..2} \union
                      {Conversation("deleting", 2, d, "owner") : d \in 1..2}
      BY <1>3 DEF SweepInit
    <3> QED
      BY <3>1 DEF Conversation
  <2>2. Gone = {} /\ FencedByCleaner = {}
    BY <2>1 DEF Gone, FencedByCleaner
  <2>3. SoundRows
    BY <1>3, <2>1 DEF SoundRows, SoundConversation
  <2>4. SweepCounts
    BY <1>1, <1>3, <2>2 DEF SweepCounts, SweepInit
  <2> QED
    BY <2>3, <2>4 DEF SweepBooks
<1> QED
  BY <1>2, <1>3 DEF SweepInit

LEMMA SweepBooksSteps ==
  ASSUME SweepInv, SweepBooks, [SweepNext]_sweepVars
  PROVE  SweepBooks'
<1>1. today \in Nat /\ today <= today
  BY DEF SweepInv, SweepTypes
<1>2. CASE CleanBatch \/ BatchFails
  <2>1. /\ table' = table /\ today' = today /\ others' = others
        /\ BatchCommitted \/ (rows' = rows /\ counted' = counted)
    BY <1>2 DEF CleanBatch, BatchFails, sweepWorld
  <2>2. CASE BatchCommitted
    BY <2>1, <2>2, CommittedRunBooks, CommittedConversationBooks DEF SweepInv, SweepTypes
  <2>3. CASE rows' = rows /\ counted' = counted
    BY <1>1, <2>1, <2>3, QuietSweepBooks
  <2> QED
    BY <2>1, <2>2, <2>3
<1>3. CASE \/ StartSweep \/ GoOn \/ StopAtLimit \/ CloseCleaner \/ CleanerGone
           \/ CleanerStarts \/ NextSweepDay \/ UNCHANGED sweepVars
  <2>1. /\ table' = table /\ rows' = rows /\ counted' = counted /\ others' = others
        /\ today' = today \/ today' = today + 1
    BY <1>3 DEF StartSweep, GoOn, StopAtLimit, CloseCleaner, CleanerGone, CleanerStarts,
                NextSweepDay, sweepVars, sweepWorld
  <2>2. today' \in Nat /\ today <= today'
    BY <1>1, <2>1
  <2> QED
    BY <2>1, <2>2, QuietSweepBooks
<1>4. CASE table = "runs" /\ \E r \in Id : RunMoves(r)
  BY <1>4, RunMovesKeepBooks
<1>5. CASE table = "conversations" /\ \E r \in Id : ConversationMoves(r)
  BY <1>5, ConversationMovesKeepBooks
<1> QED
  BY <1>2, <1>3, <1>4, <1>5 DEF SweepNext

LEMMA SweepBooksTell == SweepInv /\ SweepBooks => CleanupAuditTells
<1> SUFFICES ASSUME SweepInv, SweepBooks PROVE CleanupAuditTells
  OBVIOUS
<1>1. Lost = UNION {{<<r, n>> : n \in 1..rows[r].made} \ Tried(r, rows[r].tries) : r \in Id}
  BY DEF Lost, LostOf
<1>2. table = "runs" \/ (table = "conversations" /\ table # "runs")
  BY DEF SweepInv, SweepTypes
<1>3. table = "runs" => \A r \in Id : rows[r].status = "gone" => ~rows[r].input /\ ~rows[r].result
  BY DEF SweepBooks, SoundRows, SoundRun
<1> QED
  BY <1>1, <1>2, <1>3
  DEF SweepBooks, SweepCounts, Gone, FencedByCleaner, WithoutInput, WithoutResult,
      CleanupAuditTells

(* The counts of the audit rows of the sweeps add up to what is gone, for  *)
(* any number of batches, lost answers and restarts                        *)
(* (retention/postgres.ts:63-188).                                         *)
THEOREM SweepAuditTells == SweepSpec => []CleanupAuditTells
<1>1. SweepInit => SweepInv /\ SweepBooks
  BY SweepInitSound, SweepBooksOpen
<1>2. SweepInv /\ SweepBooks /\ [SweepNext]_sweepVars => (SweepInv /\ SweepBooks)'
  BY SweepSteps, SweepBooksSteps
<1> QED
  BY <1>1, <1>2, SweepBooksTell, PTL DEF SweepSpec

-----------------------------------------------------------------------------
(***************************************************************************)
(* What is kept about finished runs, for any numbers of runs, attempts and *)
(* activities, any window, page size and number of failures.               *)
(***************************************************************************)

ResultName == {"none", "succeeded", "failed"}
LogRow == [phase : {"none", "running", "ended", "done", "dead"}, seq : Nat, begun : Nat,
           active : SUBSET Nat, since : 0..LastDay, result : ResultName]
ObservedRun == [attempts : 0..MaxAttempts, owner : 0..MaxAttempts, outcome : ResultName]
RecordingRow == [phase : {"none", "flushing", "storing"}, attempt : 0..MaxAttempts,
                 waits : SUBSET Entry, at : 0..LastDay]
RecordRow == [attempt : 0..MaxAttempts, at : 0..LastDay, kept : BOOLEAN,
              status : ResultName]
ListCursor == [at : 0..LastDay, run : Run]
ReaderRow == [phase : {"closed", "reading", "read"}, cursor : {None} \cup ListCursor,
              seen : Seq(Run), owed : SUBSET Run]
PruneRow == [cutoff : 0..LastDay, left : SUBSET {"timeline", "records"}]

ObservationTypes ==
  /\ archive \in {"postgres", "file"}
  /\ present \subseteq Run
  /\ day \in 0..LastDay
  /\ run \in [Run -> ObservedRun]
  /\ log \in [Run -> [Attempt -> LogRow]]
  /\ \A r \in Run, a \in Attempt : IsFiniteSet(log[r][a].active)
  /\ pending \in [Instance -> Seq(Entry)]
  /\ timeline \subseteq Entry
  /\ recording \in [Run -> RecordingRow]
  /\ records \in [Run -> RecordRow \cup {None}]
  /\ prune \in PruneRow \cup {None}
  /\ reader \in ReaderRow
  /\ IsFiniteSet({r \in Run : records[r] # None})
  /\ faults \in 0..FaultBound

(* Once a log is finished nothing is open, and its result is there.        *)
LogsClose ==
  \A r \in Run : \A a \in Attempt :
    /\ log[r][a].phase # "running" => log[r][a].active = {}
    /\ log[r][a].phase \in {"ended", "done"} => log[r][a].result # "none"

(* Who has the outcome, and what is recorded of it at most once.           *)
OutcomeTold ==
  \A r \in Run :
    /\ run[r].owner <= run[r].attempts
    /\ run[r].outcome # "none" =>
         IF run[r].owner = 0 THEN run[r].outcome = "failed"
         ELSE /\ log[r][run[r].owner].phase = "done"
              /\ log[r][run[r].owner].result = run[r].outcome
    /\ recording[r].phase # "none" =>
         /\ run[r].outcome # "none"
         /\ recording[r].attempt = run[r].owner
         /\ records[r] = None
    /\ records[r] # None =>
         /\ run[r].outcome # "none"
         /\ records[r].attempt = run[r].owner
         /\ records[r].status = run[r].outcome

(* Entries wait where they were handed over; what a recording has to wait  *)
(* for is all there is of its attempt, and then there is nothing.          *)
EntriesWritten ==
  /\ \A i \in Instance : \A e \in Range(pending[i]) :
       /\ InstanceOf(e.run, e.attempt) = i
       /\ e.day <= day
       /\ recording[e.run].phase = "flushing" /\ e.attempt = recording[e.run].attempt
            => e \in recording[e.run].waits
       /\ recording[e.run].phase = "storing" => e.attempt # recording[e.run].attempt
       /\ records[e.run] # None => e.attempt # records[e.run].attempt
  /\ \A e \in timeline : e.day <= day

OfRecord(r, e) == e.run = r /\ e.attempt = records[r].attempt

(* The day of a record is that of its last entries or a later one, and a   *)
(* record is pruned after its timeline or with the same window.            *)
DaysAgree ==
  /\ \A r \in Run : recording[r].phase = "storing" => recording[r].at = day
  /\ prune # None => /\ prune.cutoff <= day
                     /\ archive = "file" => prune.cutoff <= day - (Retention - 1)
  /\ \A r \in Run : records[r] # None =>
       /\ \A e \in timeline : OfRecord(r, e) => e.day <= records[r].at
       /\ ~records[r].kept =>
            IF archive = "file" THEN records[r].at < day - (Retention - 1)
            ELSE \A e \in timeline : ~OfRecord(r, e)
       /\ archive = "postgres" /\ prune # None /\ records[r].at < prune.cutoff
          /\ "timeline" \notin prune.left => \A e \in timeline : ~OfRecord(r, e)

(* The list read so far ends at the cursor.                                *)
ListSound ==
  /\ \A i, j \in 1..Len(reader.seen) : reader.seen[i] = reader.seen[j] => i = j
  /\ \A r \in reader.owed : records[r] # None
  /\ reader.phase = "reading" =>
       /\ reader.cursor = None => reader.seen = <<>>
       /\ \A r \in Range(reader.seen) : records[r] # None /\ ~BelowCursor(r)
       /\ \A r \in reader.owed \cap Visible : r \in Range(reader.seen) \/ BelowCursor(r)
  /\ reader.phase = "read" => reader.owed \cap Visible \subseteq Range(reader.seen)

ObservationInv ==
  /\ ObservationTypes /\ LogsClose /\ OutcomeTold /\ EntriesWritten /\ DaysAgree
  /\ ListSound
(* What `finish` closes, and a list, newest first.                         *)
LEMMA NewestFirst ==
  ASSUME NEW S \in SUBSET Nat, IsFiniteSet(S)
  PROVE  Ordered(S, >) \in [1..Cardinality(S) -> S]
<1> DEFINE R == {p \in S \X S : p[1] > p[2]}
<1>1. \A x, y \in S : <<x, y>> \in R <=> x > y
  OBVIOUS
<1> HIDE DEF R
<1>2. StrictOrder(R, S)
  BY <1>1 DEF StrictOrder
<1>3. \E s \in [1..Cardinality(S) -> S] :
        \A i, j \in 1..Cardinality(S) : i < j => s[i] > s[j]
  <2>1. PICK s \in [1..Cardinality(S) -> S] :
          \A i, j \in 1..Cardinality(S) : i < j => <<s[i], s[j]>> \in R
    BY <1>2, OrderExists
  <2> QED
    BY <1>1, <2>1
<1> QED
  BY <1>3 DEF Ordered

LEMMA ListInOrder ==
  ASSUME ObservationTypes, NEW S \in SUBSET Run, IsFiniteSet(S),
         \A r \in S : records[r] \in RecordRow
  PROVE  LET s == Ordered(S, Newer)
             n == Cardinality(S)
         IN  /\ n \in Nat
             /\ s \in [1..n -> S]
             /\ \A i, j \in 1..n : i < j => Newer(s[i], s[j])
             /\ \A i, j \in 1..n : s[i] = s[j] => i = j
             /\ \A r \in S : \E i \in 1..n : s[i] = r
<1> DEFINE R == {p \in S \X S : Newer(p[1], p[2])}
           n == Cardinality(S)
<1>1. \A x, y \in S : <<x, y>> \in R <=> Newer(x, y)
  OBVIOUS
<1> HIDE DEF R
<1>2. StrictOrder(R, S)
  <2>1. \A r \in S : r \in Nat /\ records[r].at \in Nat
    BY ObservationAssumption DEF Run, RecordRow
  <2> QED
    BY <1>1, <2>1 DEF StrictOrder, Newer
<1>3. \E s \in [1..n -> S] : \A i, j \in 1..n : i < j => Newer(s[i], s[j])
  <2>1. PICK s \in [1..n -> S] : \A i, j \in 1..n : i < j => <<s[i], s[j]>> \in R
    BY <1>2, OrderExists
  <2> QED
    BY <1>1, <2>1
<1> DEFINE s == Ordered(S, Newer)
<1>4. s \in [1..n -> S] /\ \A i, j \in 1..n : i < j => Newer(s[i], s[j])
  BY <1>3 DEF Ordered
<1>5. \A i, j \in 1..n : i < j => <<s[i], s[j]>> \in R
  BY <1>1, <1>4
<1>6. n \in Nat
  BY FS_CardinalityType
<1>8. n = Cardinality(S)
  OBVIOUS
<1> HIDE DEF s, n
<1>7. ASSUME NEW q, q \in [1..n -> S], \A i, j \in 1..n : i < j => <<q[i], q[j]>> \in R
      PROVE  /\ \A i, j \in 1..n : q[i] = q[j] => i = j
             /\ \A x \in S : \E i \in 1..n : q[i] = x
  BY <1>2, <1>6, <1>7, <1>8, OrderIsComplete
<1>9. /\ \A i, j \in 1..n : s[i] = s[j] => i = j
      /\ \A x \in S : \E i \in 1..n : s[i] = x
  BY <1>4, <1>5, <1>7
<1> QED
  BY <1>4, <1>6, <1>9 DEF s, n

LEMMA RunTypes ==
  ASSUME ObservationTypes, NEW r \in Run
  PROVE  /\ run[r] \in ObservedRun
         /\ recording[r] \in RecordingRow
         /\ records[r] # None => records[r] \in RecordRow
         /\ r \in Nat
         /\ \A a \in Attempt : /\ log[r][a] \in LogRow
                               /\ IsFiniteSet(log[r][a].active)
                               /\ InstanceOf(r, a) \in Instance
BY ObservationAssumption DEF ObservationTypes, Run, InstanceOf, Instance, Attempt

LEMMA EntryTypes ==
  ASSUME ObservationTypes, NEW i \in Instance
  PROVE  /\ pending[i] \in Seq(Entry)
         /\ Range(pending[i]) \subseteq Entry
         /\ \A e \in Range(pending[i]) : e.run \in Run /\ e.attempt \in Attempt /\ e.day \in Nat
<1>1. pending[i] \in Seq(Entry)
  BY DEF ObservationTypes
<1>2. Range(pending[i]) \subseteq Entry
  BY <1>1, RangeOfSeq
<1>3. \A e \in Entry : e.run \in Run /\ e.attempt \in Attempt /\ e.day \in Nat
  BY ObservationAssumption DEF Entry
<1> QED
  BY <1>1, <1>2, <1>3

LEMMA NewEntry ==
  ASSUME ObservationTypes, NEW r \in Run, NEW a \in Attempt, NEW n \in Nat,
         NEW event \in Event, NEW activity \in Nat
  PROVE  /\ EntryOf(r, a, n, event, activity) \in Entry
         /\ EntryOf(r, a, n, event, activity).run = r
         /\ EntryOf(r, a, n, event, activity).attempt = a
         /\ EntryOf(r, a, n, event, activity).day = day
BY DEF ObservationTypes, EntryOf, Entry

Mine(r, a, entries) ==
  /\ entries \in Seq(Entry)
  /\ \A e \in Range(entries) : e.run = r /\ e.attempt = a /\ e.day = day

LEMMA OneEntry ==
  ASSUME ObservationTypes, NEW r \in Run, NEW a \in Attempt, NEW n \in Nat,
         NEW event \in Event, NEW activity \in Nat
  PROVE  Mine(r, a, <<EntryOf(r, a, n, event, activity)>>)
<1> DEFINE e == EntryOf(r, a, n, event, activity)
<1>1. e \in Entry /\ e.run = r /\ e.attempt = a /\ e.day = day
  BY NewEntry
<1> HIDE DEF e
<1>2. <<e>> \in Seq(Entry) /\ Range(<<e>>) = {e}
  BY <1>1 DEF Range
<1> QED
  BY <1>1, <1>2 DEF Mine, e

LEMMA ClosingEntries ==
  ASSUME ObservationTypes, NEW r \in Run, NEW a \in Attempt
  PROVE  Mine(r, a, Closing(r, a)) /\ Len(Closing(r, a)) \in Nat
<1> DEFINE S == log[r][a].active
           open == Ordered(S, >)
           n == Cardinality(S)
           q == log[r][a].seq
<1>1. S \in SUBSET Nat /\ IsFiniteSet(S) /\ q \in Nat
  BY RunTypes DEF LogRow
<1>2. n \in Nat /\ open \in [1..n -> S]
  BY <1>1, NewestFirst, FS_CardinalityType
<1>3. Closing(r, a) = [k \in 1..(Len(open) + 1) |->
         IF k <= Len(open)
         THEN EntryOf(r, a, q + k, "activity_finished", open[k])
         ELSE EntryOf(r, a, q + k, "attempt_finished", 0)]
  BY DEF Closing
<1> HIDE DEF S, open, n, q
<1>4. Len(open) = n
  BY <1>2
<1>5. \A k \in 1..(n + 1) :
        /\ Closing(r, a)[k] \in Entry
        /\ Closing(r, a)[k].run = r
        /\ Closing(r, a)[k].attempt = a
        /\ Closing(r, a)[k].day = day
  <2> SUFFICES ASSUME NEW k \in 1..(n + 1)
               PROVE  /\ Closing(r, a)[k] \in Entry
                      /\ Closing(r, a)[k].run = r
                      /\ Closing(r, a)[k].attempt = a
                      /\ Closing(r, a)[k].day = day
    OBVIOUS
  <2>1. q + k \in Nat /\ "activity_finished" \in Event /\ "attempt_finished" \in Event
    BY <1>1, <1>2 DEF Event, q
  <2>2. CASE k <= n
    <3>1. Closing(r, a)[k] = EntryOf(r, a, q + k, "activity_finished", open[k])
      BY <1>2, <1>3, <1>4, <2>2
    <3>2. open[k] \in Nat
      BY <1>1, <1>2, <2>2 DEF S
    <3> QED
      BY <2>1, <3>1, <3>2, NewEntry
  <2>3. CASE ~(k <= n)
    <3>1. Closing(r, a)[k] = EntryOf(r, a, q + k, "attempt_finished", 0)
      BY <1>2, <1>3, <1>4, <2>3
    <3> QED
      BY <2>1, <3>1, NewEntry
  <2> QED
    BY <2>2, <2>3
<1>6. DOMAIN Closing(r, a) = 1..(n + 1)
  BY <1>2, <1>3, <1>4
<1>7. Closing(r, a) \in [1..(n + 1) -> Entry]
  BY <1>2, <1>3, <1>4, <1>5
<1>8. Closing(r, a) \in Seq(Entry) /\ Len(Closing(r, a)) = n + 1
  BY <1>2, <1>7
<1>9. \A e \in Range(Closing(r, a)) : \E k \in 1..(n + 1) : e = Closing(r, a)[k]
  BY <1>6 DEF Range
<1> QED
  BY <1>2, <1>5, <1>8, <1>9 DEF Mine
-----------------------------------------------------------------------------
(* What a step leaves alone.                                               *)

RunFrame == UNCHANGED <<archive, present, day, timeline, records, prune, reader, faults>>

LEMMA ListFrame ==
  ASSUME ListSound, UNCHANGED <<archive, day, records, reader>>
  PROVE  ListSound'
BY DEF ListSound, BelowCursor, Visible, InWindow

LEMMA DaysFrame ==
  ASSUME DaysAgree, UNCHANGED <<archive, day, prune, records, timeline>>,
         \A r \in Run : recording'[r].phase = "storing" =>
           recording[r].phase = "storing" /\ recording'[r].at = recording[r].at
  PROVE  DaysAgree'
BY DEF DaysAgree, OfRecord

LEMMA LogWritten ==
  ASSUME ObservationTypes, LogsClose, NEW r \in Run, NEW a \in Attempt, NEW l \in LogRow,
         IsFiniteSet(l.active), l.phase # "running" => l.active = {},
         l.phase \in {"ended", "done"} => l.result # "none",
         log' = [log EXCEPT ![r][a] = l]
  PROVE  /\ log' \in [Run -> [Attempt -> LogRow]]
         /\ \A q \in Run, b \in Attempt :
              log'[q][b] = IF q = r /\ b = a THEN l ELSE log[q][b]
         /\ \A q \in Run, b \in Attempt : IsFiniteSet(log'[q][b].active)
         /\ LogsClose'
<1>1. log \in [Run -> [Attempt -> LogRow]]
  BY DEF ObservationTypes
<1>2. log' \in [Run -> [Attempt -> LogRow]]
  BY <1>1
<1>3. \A q \in Run, b \in Attempt : log'[q][b] = IF q = r /\ b = a THEN l ELSE log[q][b]
  BY <1>1
<1>4. \A q \in Run, b \in Attempt : IsFiniteSet(log'[q][b].active)
  BY <1>3 DEF ObservationTypes
<1>5. LogsClose'
  BY <1>3 DEF LogsClose
<1> QED
  BY <1>2, <1>3, <1>4, <1>5

LEMMA OutcomeKept ==
  ASSUME ObservationTypes, OutcomeTold, UNCHANGED <<run, recording, records>>,
         \A q \in Run, b \in Attempt : log[q][b].phase = "done" => log'[q][b] = log[q][b]
  PROVE  OutcomeTold'
<1>1. \A q \in Run : run[q].owner # 0 => run[q].owner \in Attempt
  BY RunTypes, ObservationAssumption DEF ObservedRun, Attempt
<1> QED
  BY <1>1 DEF OutcomeTold

(* Nothing is recorded of an attempt that is not finished or whose run is  *)
(* still going on.                                                         *)
LEMMA NotRecorded ==
  ASSUME OutcomeTold, NEW r \in Run, NEW a \in Attempt,
         log[r][a].phase # "done" \/ run[r].outcome = "none"
  PROVE  /\ recording[r].phase # "none" => recording[r].attempt # a
         /\ records[r] # None => records[r].attempt # a
<1>1. a # 0
  BY ObservationAssumption DEF Attempt
<1> QED
  BY <1>1 DEF OutcomeTold

LEMMA HandedOver ==
  ASSUME ObservationTypes, EntriesWritten, NEW r \in Run, NEW a \in Attempt, NEW entries,
         Mine(r, a, entries), HandOver(r, a, entries),
         UNCHANGED <<day, timeline, recording, records>>,
         recording[r].phase # "none" => recording[r].attempt # a,
         records[r] # None => records[r].attempt # a
  PROVE  pending' \in [Instance -> Seq(Entry)] /\ EntriesWritten'
<1> DEFINE k == InstanceOf(r, a)
<1>1. k \in Instance /\ day \in Nat
  BY RunTypes, ObservationAssumption DEF ObservationTypes
<1>2. pending[k] \in Seq(Entry) /\ entries \in Seq(Entry)
  BY <1>1, EntryTypes DEF Mine
<1>3. pending' = [pending EXCEPT ![k] = pending[k] \o entries]
  BY DEF HandOver
<1>4. pending \in [Instance -> Seq(Entry)]
  BY DEF ObservationTypes
<1>5. pending' \in [Instance -> Seq(Entry)]
  BY <1>1, <1>2, <1>3, <1>4
<1>6. Range(pending[k] \o entries) = Range(pending[k]) \cup Range(entries)
  BY <1>2, RangeConcatenation
<1>7. \A i \in Instance : \A e \in Range(pending'[i]) :
        e \in Range(pending[i]) \/ (i = k /\ e.run = r /\ e.attempt = a /\ e.day = day)
  <2> SUFFICES ASSUME NEW i \in Instance, NEW e \in Range(pending'[i]),
                      e \notin Range(pending[i])
               PROVE  i = k /\ e.run = r /\ e.attempt = a /\ e.day = day
    OBVIOUS
  <2>1. i = k
    BY <1>3, <1>4
  <2>2. e \in Range(entries)
    BY <1>1, <1>3, <1>4, <1>6, <2>1
  <2> QED
    BY <2>1, <2>2 DEF Mine
<1>8. EntriesWritten'
  <2> SUFFICES ASSUME NEW i \in Instance, NEW e \in Range(pending'[i])
               PROVE  /\ InstanceOf(e.run, e.attempt) = i
                      /\ e.day <= day
                      /\ recording[e.run].phase = "flushing"
                         /\ e.attempt = recording[e.run].attempt
                           => e \in recording[e.run].waits
                      /\ recording[e.run].phase = "storing"
                           => e.attempt # recording[e.run].attempt
                      /\ records[e.run] # None => e.attempt # records[e.run].attempt
    BY DEF EntriesWritten, InstanceOf
  <2>1. CASE e \in Range(pending[i])
    BY <2>1 DEF EntriesWritten
  <2>2. CASE i = k /\ e.run = r /\ e.attempt = a /\ e.day = day
    BY <1>1, <2>2
  <2> QED
    BY <1>7, <2>1, <2>2
<1> QED
  BY <1>5, <1>8

-----------------------------------------------------------------------------
(* Steps of attempts.                                                      *)

LEMMA LogStepKeeps ==
  ASSUME ObservationInv, NEW r \in Run, NEW a \in Attempt, NEW l \in LogRow,
         IsFiniteSet(l.active), l.phase # "running" => l.active = {},
         l.phase \in {"ended", "done"} => l.result # "none",
         log' = [log EXCEPT ![r][a] = l], log[r][a].phase # "done",
         NEW entries, Mine(r, a, entries), HandOver(r, a, entries),
         UNCHANGED <<run, recording>>, RunFrame
  PROVE  ObservationInv'
<1> USE DEF ObservationInv
<1>1. /\ log' \in [Run -> [Attempt -> LogRow]]
      /\ \A q \in Run, b \in Attempt : log'[q][b] = IF q = r /\ b = a THEN l ELSE log[q][b]
      /\ \A q \in Run, b \in Attempt : IsFiniteSet(log'[q][b].active)
      /\ LogsClose'
  BY LogWritten
<1>2. OutcomeTold'
  BY <1>1, OutcomeKept DEF RunFrame
<1>3. pending' \in [Instance -> Seq(Entry)] /\ EntriesWritten'
  BY NotRecorded, HandedOver DEF RunFrame
<1>4. ObservationTypes'
  BY <1>1, <1>3 DEF ObservationTypes, RunFrame
<1>5. DaysAgree' /\ ListSound'
  BY DaysFrame, ListFrame DEF RunFrame
<1> QED
  BY <1>1, <1>2, <1>3, <1>4, <1>5

LEMMA RunActivityKeeps ==
  ASSUME ObservationInv, NEW r \in Run, NEW a \in Attempt, RunActivity(r, a), RunFrame
  PROVE  ObservationInv'
<1> DEFINE l == log[r][a]
           n == l.begun + 1
           x == LogBegun(l, n)
<1>1. l \in LogRow /\ IsFiniteSet(l.active)
  BY RunTypes DEF ObservationInv
<1>2. n \in Nat /\ l.seq + 1 \in Nat /\ l.phase = "running"
  BY <1>1 DEF LogRow, RunActivity, MayLog
<1>3. IsFiniteSet(l.active \cup {n})
  BY <1>1, FS_AddElement
<1>4. x \in LogRow /\ x.phase = "running" /\ x.active = l.active \cup {n}
  BY <1>1, <1>2 DEF LogRow, LogBegun
<1>5. log' = [log EXCEPT ![r][a] = x]
  BY DEF RunActivity
<1>6. Mine(r, a, <<EntryOf(r, a, l.seq + 1, "activity_started", n)>>)
  BY <1>2, OneEntry DEF Event, ObservationInv
<1>7. /\ HandOver(r, a, <<EntryOf(r, a, l.seq + 1, "activity_started", n)>>)
      /\ UNCHANGED <<run, recording>>
  BY DEF RunActivity
<1> HIDE DEF x, n
<1> QED
  BY <1>2, <1>3, <1>4, <1>5, <1>6, <1>7, LogStepKeeps

LEMMA ActivitySettlesKeeps ==
  ASSUME ObservationInv, NEW r \in Run, NEW a \in Attempt, NEW n \in log[r][a].active,
         ActivitySettles(r, a, n), RunFrame
  PROVE  ObservationInv'
<1> DEFINE l == log[r][a]
           x == LogSettled(l, n)
<1>1. l \in LogRow /\ IsFiniteSet(l.active)
  BY RunTypes DEF ObservationInv
<1>2. n \in Nat /\ l.seq + 1 \in Nat /\ l.phase = "running"
  BY <1>1 DEF LogRow, LogsClose, ObservationInv
<1>3. IsFiniteSet(l.active \ {n})
  BY <1>1, FS_RemoveElement
<1>4. x \in LogRow /\ x.phase = "running" /\ x.active = l.active \ {n}
  BY <1>1, <1>2 DEF LogRow, LogSettled
<1>5. log' = [log EXCEPT ![r][a] = x]
  BY DEF ActivitySettles
<1>6. Mine(r, a, <<EntryOf(r, a, l.seq + 1, "activity_finished", n)>>)
  BY <1>2, OneEntry DEF Event, ObservationInv
<1>7. /\ HandOver(r, a, <<EntryOf(r, a, l.seq + 1, "activity_finished", n)>>)
      /\ UNCHANGED <<run, recording>>
  BY DEF ActivitySettles
<1> HIDE DEF x
<1> QED
  BY <1>2, <1>3, <1>4, <1>5, <1>6, <1>7, LogStepKeeps

LEMMA FinishKeeps ==
  ASSUME ObservationInv, NEW r \in Run, NEW a \in Attempt,
         NEW answer \in {"succeeded", "failed"}, FinishAttempt(r, a, answer), RunFrame
  PROVE  ObservationInv'
<1> DEFINE l == log[r][a]
           c == Closing(r, a)
           x == LogEnded(l, answer, c)
<1>1. l \in LogRow
  BY RunTypes DEF ObservationInv
<1>2. Mine(r, a, c) /\ Len(c) \in Nat
  BY ClosingEntries DEF ObservationInv
<1>3. l.phase = "running" /\ log' = [log EXCEPT ![r][a] = x]
  BY DEF FinishAttempt
<1>4. HandOver(r, a, c) /\ UNCHANGED <<run, recording>>
  BY DEF FinishAttempt
<1> HIDE DEF c
<1>5. l.seq + Len(c) \in Nat /\ 0 \in 0..LastDay
  BY <1>1, <1>2, ObservationAssumption DEF LogRow
<1>6. x \in LogRow /\ x.phase = "ended" /\ x.active = {} /\ x.result # "none"
  BY <1>1, <1>5 DEF LogRow, LogEnded, ResultName
<1>7. IsFiniteSet({})
  BY FS_EmptySet
<1> HIDE DEF x
<1> QED
  BY <1>2, <1>3, <1>4, <1>6, <1>7, LogStepKeeps
LEMMA BeginKeeps ==
  ASSUME ObservationInv, NEW r \in Run, NEW a \in Attempt, run[r].outcome = "none",
         Begin(r, a), RunFrame
  PROVE  ObservationInv'
<1> USE DEF ObservationInv
<1> DEFINE x == [NoLog EXCEPT !.phase = "running", !.seq = 1, !.since = day]
           e == <<EntryOf(r, a, 1, "attempt_started", 0)>>
<1>1. x \in LogRow /\ x.phase = "running" /\ x.active = {}
  BY DEF NoLog, LogRow, ResultName, ObservationTypes
<1>2. log' = [log EXCEPT ![r][a] = x] /\ HandOver(r, a, e) /\ recording' = recording
  BY DEF Begin
<1>3. Mine(r, a, e)
  BY OneEntry DEF Event
<1>4. run' = [run EXCEPT ![r].attempts = a, ![r].owner = a]
  BY DEF Begin
<1> HIDE DEF x, e
<1>5. IsFiniteSet(x.active)
  BY <1>1, FS_EmptySet
<1>6. /\ log' \in [Run -> [Attempt -> LogRow]]
      /\ \A q \in Run, b \in Attempt : log'[q][b] = IF q = r /\ b = a THEN x ELSE log[q][b]
      /\ \A q \in Run, b \in Attempt : IsFiniteSet(log'[q][b].active)
      /\ LogsClose'
  BY <1>1, <1>2, <1>5, LogWritten
<1>7. recording[r].phase = "none" /\ records[r] = None
  BY RunTypes DEF OutcomeTold, RecordingRow
<1>8. pending' \in [Instance -> Seq(Entry)] /\ EntriesWritten'
  BY <1>2, <1>3, <1>7, HandedOver DEF RunFrame
<1>9. /\ run' \in [Run -> ObservedRun]
      /\ \A q \in Run : q # r => run'[q] = run[q]
      /\ run'[r].attempts = a /\ run'[r].owner = a /\ run'[r].outcome = "none"
  <2>1. a \in 0..MaxAttempts /\ run \in [Run -> ObservedRun]
    BY ObservationAssumption DEF Attempt, ObservationTypes
  <2> QED
    BY <1>4, <2>1 DEF ObservedRun
<1>10. OutcomeTold'
  <2> SUFFICES ASSUME NEW q \in Run
               PROVE  /\ run'[q].owner <= run'[q].attempts
                      /\ run'[q].outcome # "none" =>
                           IF run'[q].owner = 0 THEN run'[q].outcome = "failed"
                           ELSE /\ log'[q][run'[q].owner].phase = "done"
                                /\ log'[q][run'[q].owner].result = run'[q].outcome
                      /\ recording'[q].phase # "none" =>
                           /\ run'[q].outcome # "none"
                           /\ recording'[q].attempt = run'[q].owner
                           /\ records'[q] = None
                      /\ records'[q] # None =>
                           /\ run'[q].outcome # "none"
                           /\ records'[q].attempt = run'[q].owner
                           /\ records'[q].status = run'[q].outcome
    BY DEF OutcomeTold
  <2>1. CASE q = r
    BY <1>2, <1>7, <1>9, <2>1 DEF RunFrame, Attempt
  <2>2. CASE q # r
    <3>1. run[q].owner # 0 => run[q].owner \in Attempt
      BY RunTypes, ObservationAssumption DEF ObservedRun, Attempt
    <3> QED
      BY <1>2, <1>6, <1>9, <2>2, <3>1 DEF OutcomeTold, RunFrame
  <2> QED
    BY <2>1, <2>2
<1>11. ObservationTypes'
  BY <1>2, <1>6, <1>8, <1>9 DEF ObservationTypes, RunFrame
<1>12. DaysAgree' /\ ListSound'
  BY <1>2, DaysFrame, ListFrame DEF RunFrame
<1> QED
  BY <1>6, <1>8, <1>10, <1>11, <1>12

(* An attempt that has ended is over, whatever became of its run.          *)
LogDone(l) == [l EXCEPT !.phase = "done"]

LEMMA AttemptIsOver ==
  ASSUME ObservationTypes, LogsClose, NEW r \in Run, NEW a \in Attempt,
         log[r][a].phase = "ended", NEW x, x = LogDone(log[r][a]),
         log' = [log EXCEPT ![r][a] = x]
  PROVE  /\ log' \in [Run -> [Attempt -> LogRow]]
         /\ \A q \in Run, b \in Attempt : ~(q = r /\ b = a) => log'[q][b] = log[q][b]
         /\ log'[r][a].phase = "done" /\ log'[r][a].result = log[r][a].result
         /\ \A q \in Run, b \in Attempt : IsFiniteSet(log'[q][b].active)
         /\ LogsClose'
<1>1. log[r][a] \in LogRow /\ IsFiniteSet(log[r][a].active)
  BY RunTypes
<1>2. /\ x \in LogRow /\ x.phase = "done" /\ x.active = log[r][a].active
      /\ x.result = log[r][a].result
  BY <1>1 DEF LogRow, LogDone
<1>3. log[r][a].active = {} /\ log[r][a].result # "none"
  BY DEF LogsClose
<1>4. IsFiniteSet(x.active)
  BY <1>1, <1>2
<1>6. /\ log' \in [Run -> [Attempt -> LogRow]]
      /\ \A q \in Run, b \in Attempt : log'[q][b] = IF q = r /\ b = a THEN x ELSE log[q][b]
      /\ \A q \in Run, b \in Attempt : IsFiniteSet(log'[q][b].active)
      /\ LogsClose'
  BY <1>2, <1>3, <1>4, LogWritten
<1> QED
  BY <1>2, <1>6

(* What an outcome, a retry or a refusal leaves as it was for other runs.  *)
LEMMA OthersTold ==
  ASSUME ObservationTypes, OutcomeTold, NEW r \in Run, NEW q \in Run, q # r,
         run'[q] = run[q], recording'[q] = recording[q], records'[q] = records[q],
         \A b \in Attempt : log'[q][b] = log[q][b]
  PROVE  /\ run'[q].owner <= run'[q].attempts
         /\ run'[q].outcome # "none" =>
              IF run'[q].owner = 0 THEN run'[q].outcome = "failed"
              ELSE /\ log'[q][run'[q].owner].phase = "done"
                   /\ log'[q][run'[q].owner].result = run'[q].outcome
         /\ recording'[q].phase # "none" =>
              /\ run'[q].outcome # "none"
              /\ recording'[q].attempt = run'[q].owner
              /\ records'[q] = None
         /\ records'[q] # None =>
              /\ run'[q].outcome # "none"
              /\ records'[q].attempt = run'[q].owner
              /\ records'[q].status = run'[q].outcome
<1>1. run[q].owner # 0 => run[q].owner \in Attempt
  BY RunTypes, ObservationAssumption DEF ObservedRun, Attempt
<1> QED
  BY <1>1 DEF OutcomeTold

LEMMA StartsRecording ==
  ASSUME ObservationTypes, EntriesWritten, NEW r \in Run, NEW a \in 0..MaxAttempts,
         NEW k \in Instance, a \in Attempt => k = InstanceOf(r, a),
         recording' = [recording EXCEPT ![r] =
           [phase |-> "flushing", attempt |-> a, at |-> 0, waits |-> Unwritten(k)]],
         records[r] = None, UNCHANGED <<day, timeline, records, pending>>
  PROVE  /\ recording' \in [Run -> RecordingRow]
         /\ \A q \in Run : q # r => recording'[q] = recording[q]
         /\ recording'[r].phase = "flushing" /\ recording'[r].attempt = a
         /\ EntriesWritten'
<1> DEFINE x == [phase |-> "flushing", attempt |-> a, at |-> 0, waits |-> Unwritten(k)]
<1>1. Unwritten(k) \subseteq Entry
  BY EntryTypes DEF Unwritten
<1>2. x \in RecordingRow /\ x.phase = "flushing" /\ x.attempt = a /\ x.waits = Unwritten(k)
  BY <1>1, ObservationAssumption DEF RecordingRow
<1>3. recording \in [Run -> RecordingRow]
  BY DEF ObservationTypes
<1> HIDE DEF x
<1>4. /\ recording' \in [Run -> RecordingRow] /\ recording'[r] = x
      /\ \A q \in Run : q # r => recording'[q] = recording[q]
  BY <1>2, <1>3 DEF x
<1>5. EntriesWritten'
  <2> SUFFICES ASSUME NEW i \in Instance, NEW e \in Range(pending[i])
               PROVE  /\ InstanceOf(e.run, e.attempt) = i
                      /\ e.day <= day
                      /\ recording'[e.run].phase = "flushing"
                         /\ e.attempt = recording'[e.run].attempt
                           => e \in recording'[e.run].waits
                      /\ recording'[e.run].phase = "storing"
                           => e.attempt # recording'[e.run].attempt
                      /\ records[e.run] # None => e.attempt # records[e.run].attempt
    BY DEF EntriesWritten, InstanceOf
  <2>1. e.run \in Run /\ e.attempt \in Attempt
    BY EntryTypes
  <2>2. CASE e.run = r
    BY <1>2, <1>4, <2>1, <2>2 DEF EntriesWritten, Unwritten
  <2>3. CASE e.run # r
    BY <1>4, <2>1, <2>3 DEF EntriesWritten
  <2> QED
    BY <2>2, <2>3
<1> QED
  BY <1>2, <1>4, <1>5

LEMMA CompletionKeeps ==
  ASSUME ObservationInv, NEW r \in Run, NEW a \in Attempt, Complete(r, a), RunFrame
  PROVE  ObservationInv'
<1> USE DEF ObservationInv
<1> DEFINE x == LogDone(log[r][a])
<1>1. /\ log[r][a].phase = "ended" /\ run[r].owner = a /\ run[r].outcome = "none"
      /\ log' = [log EXCEPT ![r][a] = x] /\ x = LogDone(log[r][a])
      /\ run' = [run EXCEPT ![r].outcome = log[r][a].result]
      /\ pending' = pending
  BY DEF Complete, Holds, LogDone
<1> HIDE DEF x
<1>2. /\ log' \in [Run -> [Attempt -> LogRow]]
      /\ \A q \in Run, b \in Attempt : ~(q = r /\ b = a) => log'[q][b] = log[q][b]
      /\ log'[r][a].phase = "done" /\ log'[r][a].result = log[r][a].result
      /\ \A q \in Run, b \in Attempt : IsFiniteSet(log'[q][b].active)
      /\ LogsClose'
  <2>1. log[r][a].phase = "ended" /\ x = LogDone(log[r][a]) /\ log' = [log EXCEPT ![r][a] = x]
    BY <1>1
  <2> QED
    BY ONLY ObservationTypes, LogsClose, r \in Run, a \in Attempt, <2>1, AttemptIsOver
<1>3. a \in 0..MaxAttempts /\ a # 0
  BY ObservationAssumption DEF Attempt
<1>4. log[r][a].result \in ResultName /\ log[r][a].result # "none"
  BY <1>1, RunTypes DEF LogRow, LogsClose
<1>5. recording[r].phase = "none" /\ records[r] = None
  BY <1>1 DEF OutcomeTold
<1>6. recording' = [recording EXCEPT ![r] =
        [phase |-> "flushing", attempt |-> a, at |-> 0,
         waits |-> Unwritten(InstanceOf(r, a))]]
  BY DEF Complete, StartRecording
<1>7. InstanceOf(r, a) \in Instance
  BY RunTypes
<1>8. /\ recording' \in [Run -> RecordingRow]
      /\ \A q \in Run : q # r => recording'[q] = recording[q]
      /\ recording'[r].phase = "flushing" /\ recording'[r].attempt = a
      /\ EntriesWritten'
  BY <1>1, <1>3, <1>5, <1>6, <1>7, StartsRecording DEF RunFrame
<1>9. /\ run' \in [Run -> ObservedRun]
      /\ \A q \in Run : q # r => run'[q] = run[q]
      /\ run'[r].attempts = run[r].attempts /\ run'[r].owner = a
      /\ run'[r].outcome = log[r][a].result
  <2>1. run \in [Run -> ObservedRun]
    BY DEF ObservationTypes
  <2> QED
    BY <1>1, <1>4, <2>1 DEF ObservedRun
<1>10. OutcomeTold'
  <2>1. ASSUME NEW q \in Run, q # r
        PROVE  /\ run'[q].owner <= run'[q].attempts
               /\ run'[q].outcome # "none" =>
                    IF run'[q].owner = 0 THEN run'[q].outcome = "failed"
                    ELSE /\ log'[q][run'[q].owner].phase = "done"
                         /\ log'[q][run'[q].owner].result = run'[q].outcome
               /\ recording'[q].phase # "none" =>
                    /\ run'[q].outcome # "none"
                    /\ recording'[q].attempt = run'[q].owner
                    /\ records'[q] = None
               /\ records'[q] # None =>
                    /\ run'[q].outcome # "none"
                    /\ records'[q].attempt = run'[q].owner
                    /\ records'[q].status = run'[q].outcome
    BY <1>2, <1>8, <1>9, <2>1, OthersTold DEF RunFrame
  <2>2. run[r].owner <= run[r].attempts
    BY DEF OutcomeTold
  <2> QED
    BY <1>1, <1>2, <1>3, <1>4, <1>5, <1>8, <1>9, <2>1, <2>2 DEF OutcomeTold, RunFrame
<1>11. ObservationTypes'
  BY <1>1, <1>2, <1>8, <1>9 DEF ObservationTypes, RunFrame
<1>12. DaysAgree' /\ ListSound'
  BY <1>8, DaysFrame, ListFrame DEF RunFrame
<1> QED
  BY <1>2, <1>8, <1>10, <1>11, <1>12

LEMMA RetryKeeps ==
  ASSUME ObservationInv, NEW r \in Run, NEW a \in Attempt, ScheduleRetry(r, a), RunFrame
  PROVE  ObservationInv'
<1> USE DEF ObservationInv
<1> DEFINE x == LogDone(log[r][a])
<1>1. /\ log[r][a].phase = "ended" /\ run[r].outcome = "none"
      /\ log' = [log EXCEPT ![r][a] = x] /\ x = LogDone(log[r][a])
      /\ run' = [run EXCEPT ![r].owner = 0]
      /\ pending' = pending /\ recording' = recording
  BY DEF ScheduleRetry, Holds, LogDone
<1> HIDE DEF x
<1>2. /\ log' \in [Run -> [Attempt -> LogRow]]
      /\ \A q \in Run, b \in Attempt : ~(q = r /\ b = a) => log'[q][b] = log[q][b]
      /\ log'[r][a].phase = "done" /\ log'[r][a].result = log[r][a].result
      /\ \A q \in Run, b \in Attempt : IsFiniteSet(log'[q][b].active)
      /\ LogsClose'
  <2>1. log[r][a].phase = "ended" /\ x = LogDone(log[r][a]) /\ log' = [log EXCEPT ![r][a] = x]
    BY <1>1
  <2> QED
    BY ONLY ObservationTypes, LogsClose, r \in Run, a \in Attempt, <2>1, AttemptIsOver
<1>3. /\ run' \in [Run -> ObservedRun]
      /\ \A q \in Run : q # r => run'[q] = run[q]
      /\ run'[r].attempts = run[r].attempts /\ run'[r].owner = 0
      /\ run'[r].outcome = "none" /\ run[r].attempts \in Nat
  <2>1. run \in [Run -> ObservedRun] /\ 0 \in 0..MaxAttempts
    BY ObservationAssumption DEF ObservationTypes
  <2> QED
    BY <1>1, <2>1, ObservationAssumption DEF ObservedRun
<1>4. OutcomeTold'
  <2>1. ASSUME NEW q \in Run, q # r
        PROVE  /\ run'[q].owner <= run'[q].attempts
               /\ run'[q].outcome # "none" =>
                    IF run'[q].owner = 0 THEN run'[q].outcome = "failed"
                    ELSE /\ log'[q][run'[q].owner].phase = "done"
                         /\ log'[q][run'[q].owner].result = run'[q].outcome
               /\ recording'[q].phase # "none" =>
                    /\ run'[q].outcome # "none"
                    /\ recording'[q].attempt = run'[q].owner
                    /\ records'[q] = None
               /\ records'[q] # None =>
                    /\ run'[q].outcome # "none"
                    /\ records'[q].attempt = run'[q].owner
                    /\ records'[q].status = run'[q].outcome
    BY <1>1, <1>2, <1>3, <2>1, OthersTold DEF RunFrame
  <2>2. recording[r].phase = "none" /\ records[r] = None
    BY <1>1 DEF OutcomeTold
  <2> QED
    BY <1>1, <1>3, <2>1, <2>2 DEF OutcomeTold, RunFrame
<1>5. EntriesWritten'
  BY <1>1 DEF EntriesWritten, InstanceOf, RunFrame
<1>6. ObservationTypes'
  BY <1>1, <1>2, <1>3 DEF ObservationTypes, RunFrame
<1>7. DaysAgree' /\ ListSound'
  BY <1>1, DaysFrame, ListFrame DEF RunFrame
<1> QED
  BY <1>2, <1>4, <1>5, <1>6, <1>7

LEMMA RefusedKeeps ==
  ASSUME ObservationInv, NEW r \in Run, NEW a \in Attempt, CompleteRefused(r, a), RunFrame
  PROVE  ObservationInv'
<1> USE DEF ObservationInv
<1> DEFINE x == LogDone(log[r][a])
<1>1. /\ log[r][a].phase = "ended"
      /\ log' = [log EXCEPT ![r][a] = x] /\ x = LogDone(log[r][a])
      /\ run' = run /\ pending' = pending /\ recording' = recording
  BY DEF CompleteRefused, IgnoredCompletion, LogDone
<1> HIDE DEF x
<1>2. /\ log' \in [Run -> [Attempt -> LogRow]]
      /\ \A q \in Run, b \in Attempt : ~(q = r /\ b = a) => log'[q][b] = log[q][b]
      /\ log'[r][a].phase = "done" /\ log'[r][a].result = log[r][a].result
      /\ \A q \in Run, b \in Attempt : IsFiniteSet(log'[q][b].active)
      /\ LogsClose'
  <2>1. log[r][a].phase = "ended" /\ x = LogDone(log[r][a]) /\ log' = [log EXCEPT ![r][a] = x]
    BY <1>1
  <2> QED
    BY ONLY ObservationTypes, LogsClose, r \in Run, a \in Attempt, <2>1, AttemptIsOver
<1>3. OutcomeTold'
  BY <1>1, <1>2, OutcomeKept DEF RunFrame
<1>4. EntriesWritten'
  BY <1>1 DEF EntriesWritten, InstanceOf, RunFrame
<1>5. ObservationTypes'
  BY <1>1, <1>2 DEF ObservationTypes, RunFrame
<1>6. DaysAgree' /\ ListSound'
  BY <1>1, DaysFrame, ListFrame DEF RunFrame
<1> QED
  BY <1>2, <1>3, <1>4, <1>5, <1>6

LEMMA RejectKeeps ==
  ASSUME ObservationInv, NEW r \in Run, Reject(r), RunFrame
  PROVE  ObservationInv'
<1> USE DEF ObservationInv
<1>1. /\ run[r].outcome = "none" /\ run[r].attempts = 0
      /\ run' = [run EXCEPT ![r].outcome = "failed"]
      /\ recording' = [recording EXCEPT ![r] =
           [phase |-> "flushing", attempt |-> 0, at |-> 0, waits |-> Unwritten(0)]]
      /\ log' = log /\ pending' = pending
  BY DEF Reject
<1>2. run[r].owner = 0 /\ recording[r].phase = "none" /\ records[r] = None
  BY <1>1, RunTypes DEF OutcomeTold, ObservedRun
<1>3. 0 \in 0..MaxAttempts /\ 0 \in Instance /\ 0 \notin Attempt
  BY ObservationAssumption DEF Instance, Attempt
<1>4. /\ recording' \in [Run -> RecordingRow]
      /\ \A q \in Run : q # r => recording'[q] = recording[q]
      /\ recording'[r].phase = "flushing" /\ recording'[r].attempt = 0
      /\ EntriesWritten'
  BY <1>1, <1>2, <1>3, StartsRecording DEF RunFrame
<1>5. /\ run' \in [Run -> ObservedRun]
      /\ \A q \in Run : q # r => run'[q] = run[q]
      /\ run'[r].attempts = 0 /\ run'[r].owner = 0 /\ run'[r].outcome = "failed"
  <2>1. run \in [Run -> ObservedRun]
    BY DEF ObservationTypes
  <2> QED
    BY <1>1, <1>2, <2>1 DEF ObservedRun, ResultName
<1>6. OutcomeTold'
  <2>1. ASSUME NEW q \in Run, q # r
        PROVE  /\ run'[q].owner <= run'[q].attempts
               /\ run'[q].outcome # "none" =>
                    IF run'[q].owner = 0 THEN run'[q].outcome = "failed"
                    ELSE /\ log'[q][run'[q].owner].phase = "done"
                         /\ log'[q][run'[q].owner].result = run'[q].outcome
               /\ recording'[q].phase # "none" =>
                    /\ run'[q].outcome # "none"
                    /\ recording'[q].attempt = run'[q].owner
                    /\ records'[q] = None
               /\ records'[q] # None =>
                    /\ run'[q].outcome # "none"
                    /\ records'[q].attempt = run'[q].owner
                    /\ records'[q].status = run'[q].outcome
    BY <1>1, <1>4, <1>5, <2>1, OthersTold DEF RunFrame
  <2> QED
    BY <1>2, <1>4, <1>5, <2>1 DEF OutcomeTold, RunFrame
<1>7. ObservationTypes'
  BY <1>1, <1>4, <1>5 DEF ObservationTypes, RunFrame
<1>8. LogsClose'
  BY <1>1 DEF LogsClose
<1>9. DaysAgree' /\ ListSound'
  BY <1>4, DaysFrame, ListFrame DEF RunFrame
<1> QED
  BY <1>4, <1>6, <1>7, <1>8, <1>9

LEMMA RunStepKeeps ==
  ASSUME ObservationInv, RunStep
  PROVE  ObservationInv'
<1>1. RunFrame
  BY DEF RunStep, RunFrame
<1>2. PICK r \in present :
        \/ Claim(r)
        \/ Execute(r)
        \/ Reject(r)
        \/ \E a \in Attempt :
             \/ RunActivity(r, a)
             \/ \E n \in log[r][a].active : ActivitySettles(r, a, n)
             \/ \E answer \in {"succeeded", "failed"} : FinishAttempt(r, a, answer)
             \/ Complete(r, a)
             \/ ScheduleRetry(r, a)
             \/ CompleteRefused(r, a)
  BY DEF RunStep
<1>3. r \in Run
  BY DEF ObservationInv, ObservationTypes
<1>4. CASE Claim(r)
  <2>1. run[r].attempts + 1 \in Attempt
    BY <1>3, <1>4, RunTypes, ObservationAssumption
    DEF Claim, ObservationInv, ObservedRun, Attempt
  <2> QED
    BY <1>1, <1>3, <1>4, <2>1, BeginKeeps DEF Claim
<1>5. CASE Execute(r)
  <2>1. 1 \in Attempt
    BY ObservationAssumption DEF Attempt
  <2> QED
    BY <1>1, <1>3, <1>5, <2>1, BeginKeeps DEF Execute
<1>6. CASE Reject(r)
  BY <1>1, <1>3, <1>6, RejectKeeps
<1>7. ASSUME NEW a \in Attempt,
             \/ RunActivity(r, a)
             \/ \E n \in log[r][a].active : ActivitySettles(r, a, n)
             \/ \E answer \in {"succeeded", "failed"} : FinishAttempt(r, a, answer)
             \/ Complete(r, a)
             \/ ScheduleRetry(r, a)
             \/ CompleteRefused(r, a)
      PROVE  ObservationInv'
  BY <1>1, <1>3, <1>7, RunActivityKeeps, ActivitySettlesKeeps, FinishKeeps, CompletionKeeps,
     RetryKeeps, RefusedKeeps
<1> QED
  BY <1>2, <1>4, <1>5, <1>6, <1>7

-----------------------------------------------------------------------------
(* Writing: entries, then the record.                                      *)

(* What is handed over becomes less.                                       *)
LEMMA EntriesFewer ==
  ASSUME ObservationTypes, EntriesWritten, UNCHANGED <<day, recording, records>>,
         \A i \in Instance : Range(pending'[i]) \subseteq Range(pending[i]),
         \A e \in timeline' : e.day <= day
  PROVE  EntriesWritten'
BY DEF EntriesWritten, InstanceOf

LEMMA RemovedFrom ==
  ASSUME NEW s \in Seq(Entry), NEW k \in DOMAIN s
  PROVE  RemoveAt(s, k) \in Seq(Entry) /\ Range(RemoveAt(s, k)) \subseteq Range(s)
<1> DEFINE front == SubSeq(s, 1, k - 1)
           back == SubSeq(s, k + 1, Len(s))
<1>1. k \in 1..Len(s) /\ Len(s) \in Nat
  OBVIOUS
<1>2. front \in Seq(Entry) /\ Range(front) \subseteq Range(s)
  <2>1. front \in Seq(Entry) /\ Len(front) = k - 1 /\ \A i \in 1..(k - 1) : front[i] = s[i]
    BY <1>1
  <2> HIDE DEF front
  <2>2. Range(front) = {front[i] : i \in 1..(k - 1)}
    BY <2>1, RangeEquality
  <2> QED
    BY <1>1, <2>1, <2>2 DEF Range
<1>3. back \in Seq(Entry) /\ Range(back) \subseteq Range(s)
  <2>1. /\ back \in Seq(Entry) /\ Len(back) = Len(s) - k
        /\ \A i \in 1..(Len(s) - k) : back[i] = s[k + i]
    BY <1>1
  <2> HIDE DEF back
  <2>2. Range(back) = {back[i] : i \in 1..(Len(s) - k)}
    BY <2>1, RangeEquality
  <2>3. \A i \in 1..(Len(s) - k) : k + i \in DOMAIN s
    BY <1>1
  <2> QED
    BY <2>1, <2>2, <2>3 DEF Range
<1>4. RemoveAt(s, k) = front \o back
  BY DEF RemoveAt
<1> HIDE DEF front, back
<1> QED
  BY <1>2, <1>3, <1>4, RangeConcatenation

LEMMA WriteEndsKeeps ==
  ASSUME ObservationInv, NEW i \in Instance, NEW k \in DOMAIN pending[i], WriteEnds(i, k)
  PROVE  ObservationInv'
<1> USE DEF ObservationInv
<1> DEFINE e == pending[i][k]
<1>1. /\ UNCHANGED <<archive, present, day, run, log, recording, records, prune, reader>>
      /\ pending' = [pending EXCEPT ![i] = RemoveAt(pending[i], k)]
      /\ timeline' = timeline \/ timeline' = timeline \cup {e}
      /\ faults' \in 0..FaultBound
  BY ObservationAssumption DEF WriteEnds, runVars, ObservationTypes
<1>2. pending[i] \in Seq(Entry) /\ e \in Range(pending[i]) /\ e \in Entry
  <2>1. pending[i] \in Seq(Entry) /\ Range(pending[i]) \subseteq Entry
    BY EntryTypes
  <2> QED
    BY <2>1 DEF Range
<1>3. e.run \in Run /\ e.attempt \in Attempt
  BY <1>2, EntryTypes
<1>4. RemoveAt(pending[i], k) \in Seq(Entry)
      /\ Range(RemoveAt(pending[i], k)) \subseteq Range(pending[i])
  BY <1>2, RemovedFrom
<1> HIDE DEF e
<1>5. /\ pending' \in [Instance -> Seq(Entry)]
      /\ \A j \in Instance : Range(pending'[j]) \subseteq Range(pending[j])
  <2>1. pending \in [Instance -> Seq(Entry)]
    BY DEF ObservationTypes
  <2>2. \A j \in Instance :
          pending'[j] = IF j = i THEN RemoveAt(pending[i], k) ELSE pending[j]
    BY <1>1, <2>1
  <2> QED
    BY <1>1, <1>4, <2>1, <2>2
<1>6. ObservationTypes'
  BY <1>1, <1>2, <1>5 DEF ObservationTypes
<1>7. EntriesWritten'
  <2>1. \A x \in timeline' : x.day <= day
    BY <1>1, <1>2 DEF EntriesWritten
  <2> QED
    BY <1>1, <1>5, <2>1, EntriesFewer
<1>8. LogsClose' /\ OutcomeTold'
  BY <1>1 DEF LogsClose, OutcomeTold
<1>9. DaysAgree'
  <2>1. \A r \in Run : records[r] # None => ~OfRecord(r, e)
    BY <1>2 DEF EntriesWritten, OfRecord
  <2>2. \A r \in Run : \A x : OfRecord(r, x)' <=> OfRecord(r, x)
    BY <1>1 DEF OfRecord
  <2>3. \A x \in timeline' : x \in timeline \/ x = e
    BY <1>1
  <2> QED
    BY <1>1, <2>1, <2>2, <2>3 DEF DaysAgree
<1>10. ListSound'
  BY <1>1, ListFrame
<1> QED
  BY <1>6, <1>7, <1>8, <1>9, <1>10

LEMMA FlushEndsKeeps ==
  ASSUME ObservationInv, NEW r \in Run, FlushEnds(r)
  PROVE  ObservationInv'
<1> USE DEF ObservationInv
<1> DEFINE x == [recording[r] EXCEPT !.phase = "storing", !.waits = {}, !.at = day]
<1>1. /\ UNCHANGED <<archive, present, day, run, log, pending, timeline, records, prune,
                     reader, faults>>
      /\ recording[r].phase = "flushing"
      /\ recording[r].waits \cap Range(pending[InstanceOf(r, recording[r].attempt)]) = {}
      /\ recording' = [recording EXCEPT ![r] = x]
  BY DEF FlushEnds
<1>2. /\ x \in RecordingRow /\ x.phase = "storing" /\ x.at = day
      /\ x.attempt = recording[r].attempt
  <2>1. recording[r] \in RecordingRow
    BY RunTypes
  <2> QED
    BY <2>1 DEF RecordingRow, ObservationTypes
<1>3. recording \in [Run -> RecordingRow]
  BY DEF ObservationTypes
<1> HIDE DEF x
<1>4. /\ recording' \in [Run -> RecordingRow] /\ recording'[r] = x
      /\ \A q \in Run : q # r => recording'[q] = recording[q]
  BY <1>1, <1>2, <1>3
<1>5. EntriesWritten'
  <2> SUFFICES ASSUME NEW i \in Instance, NEW e \in Range(pending[i])
               PROVE  /\ InstanceOf(e.run, e.attempt) = i
                      /\ e.day <= day
                      /\ recording'[e.run].phase = "flushing"
                         /\ e.attempt = recording'[e.run].attempt
                           => e \in recording'[e.run].waits
                      /\ recording'[e.run].phase = "storing"
                           => e.attempt # recording'[e.run].attempt
                      /\ records[e.run] # None => e.attempt # records[e.run].attempt
    BY <1>1 DEF EntriesWritten, InstanceOf
  <2>1. e.run \in Run
    BY EntryTypes
  <2>2. CASE e.run = r
    <3>1. e.attempt # recording[r].attempt
      BY <1>1, <2>2 DEF EntriesWritten
    <3> QED
      BY <1>2, <1>4, <2>2, <3>1 DEF EntriesWritten
  <2>3. CASE e.run # r
    BY <1>4, <2>1, <2>3 DEF EntriesWritten
  <2> QED
    BY <2>2, <2>3
<1>6. ObservationTypes' /\ LogsClose'
  BY <1>1, <1>4 DEF ObservationTypes, LogsClose
<1>7. OutcomeTold'
  BY <1>1, <1>2, <1>4 DEF OutcomeTold
<1>8. DaysAgree'
  BY <1>1, <1>2, <1>4 DEF DaysAgree, OfRecord
<1>9. ListSound'
  BY <1>1, ListFrame
<1> QED
  BY <1>5, <1>6, <1>7, <1>8, <1>9

LEMMA CrashKeeps ==
  ASSUME ObservationInv, NEW i \in Instance, Crash(i)
  PROVE  ObservationInv'
<1> USE DEF ObservationInv
<1>1. /\ UNCHANGED <<archive, present, day, run, timeline, records, prune, reader>>
      /\ pending' = [pending EXCEPT ![i] = <<>>]
      /\ faults' \in 0..FaultBound
  <2>1. faults' = faults + 1 /\ faults < FaultBound /\ faults \in 0..FaultBound
    BY DEF Crash, ObservationTypes
  <2>2. faults' \in 0..FaultBound
    BY <2>1, ObservationAssumption
  <2> QED
    BY <2>2 DEF Crash
<1>2. \A q \in Run, b \in Attempt :
        log'[q][b] = IF InstanceOf(q, b) = i /\ log[q][b].phase \in {"running", "ended"}
                     THEN [log[q][b] EXCEPT !.phase = "dead", !.active = {}]
                     ELSE log[q][b]
  BY DEF Crash
<1>3. \A q \in Run : recording'[q] = recording[q] \/ recording'[q] = NoRecording
  BY DEF Crash
<1>4. NoRecording \in RecordingRow /\ NoRecording.phase = "none"
  BY ObservationAssumption DEF NoRecording, RecordingRow
<1>5. /\ recording' \in [Run -> RecordingRow]
      /\ \A q \in Run : recording'[q].phase # "none" => recording'[q] = recording[q]
  <2>1. DOMAIN recording' = Run /\ recording' = [q \in Run |-> recording'[q]]
    BY DEF Crash
  <2>2. \A q \in Run : recording'[q] \in RecordingRow
    BY <1>3, <1>4, RunTypes
  <2> QED
    BY <1>3, <1>4, <2>1, <2>2
<1>6. \A q \in Run, b \in Attempt :
        /\ log'[q][b] \in LogRow /\ IsFiniteSet(log'[q][b].active)
        /\ log'[q][b].phase # "running" => log'[q][b].active = {}
        /\ log'[q][b].phase \in {"ended", "done"} => log'[q][b] = log[q][b]
        /\ log[q][b].phase = "done" => log'[q][b] = log[q][b]
  <2> SUFFICES ASSUME NEW q \in Run, NEW b \in Attempt
               PROVE  /\ log'[q][b] \in LogRow /\ IsFiniteSet(log'[q][b].active)
                      /\ log'[q][b].phase # "running" => log'[q][b].active = {}
                      /\ log'[q][b].phase \in {"ended", "done"} => log'[q][b] = log[q][b]
                      /\ log[q][b].phase = "done" => log'[q][b] = log[q][b]
    OBVIOUS
  <2>1. log[q][b] \in LogRow /\ IsFiniteSet(log[q][b].active)
    BY RunTypes
  <2>2. CASE log'[q][b] = log[q][b]
    BY <2>1, <2>2 DEF LogsClose
  <2>3. CASE /\ log[q][b].phase \in {"running", "ended"}
             /\ log'[q][b] = [log[q][b] EXCEPT !.phase = "dead", !.active = {}]
    <3>1. /\ log'[q][b] \in LogRow /\ log'[q][b].phase = "dead"
          /\ log'[q][b].active = {}
      BY <2>1, <2>3 DEF LogRow
    <3> QED
      BY <2>3, <3>1, FS_EmptySet
  <2> QED
    BY <1>2, <2>2, <2>3
<1>7. log' \in [Run -> [Attempt -> LogRow]]
  <2>1. log' = [q \in Run |-> [b \in Attempt |-> log'[q][b]]]
    BY DEF Crash
  <2> QED
    BY <1>6, <2>1
<1>8. /\ pending' \in [Instance -> Seq(Entry)]
      /\ \A j \in Instance : Range(pending'[j]) \subseteq Range(pending[j])
  <2>1. pending \in [Instance -> Seq(Entry)] /\ <<>> \in Seq(Entry) /\ Range(<<>>) = {}
    BY DEF ObservationTypes, Range
  <2>2. \A j \in Instance : pending'[j] = IF j = i THEN <<>> ELSE pending[j]
    BY <1>1, <2>1
  <2> QED
    BY <1>1, <2>1, <2>2
<1>9. ObservationTypes'
  BY <1>1, <1>5, <1>6, <1>7, <1>8 DEF ObservationTypes
<1>10. LogsClose'
  BY <1>6 DEF LogsClose
<1>11. OutcomeTold'
  <2>1. \A q \in Run : run[q].owner # 0 => run[q].owner \in Attempt
    BY RunTypes, ObservationAssumption DEF ObservedRun, Attempt
  <2> QED
    BY <1>1, <1>5, <1>6, <2>1 DEF OutcomeTold
<1>12. EntriesWritten'
  <2> SUFFICES ASSUME NEW j \in Instance, NEW e \in Range(pending'[j])
               PROVE  /\ InstanceOf(e.run, e.attempt) = j
                      /\ e.day <= day
                      /\ recording'[e.run].phase = "flushing"
                         /\ e.attempt = recording'[e.run].attempt
                           => e \in recording'[e.run].waits
                      /\ recording'[e.run].phase = "storing"
                           => e.attempt # recording'[e.run].attempt
                      /\ records[e.run] # None => e.attempt # records[e.run].attempt
    BY <1>1 DEF EntriesWritten, InstanceOf
  <2>1. e \in Range(pending[j]) /\ e.run \in Run
    BY <1>8, EntryTypes
  <2> QED
    BY <1>5, <2>1 DEF EntriesWritten
<1>13. DaysAgree'
  <2>1. \A q \in Run : recording'[q].phase = "storing" =>
          recording[q].phase = "storing" /\ recording'[q].at = recording[q].at
    BY <1>5
  <2> QED
    BY <1>1, <2>1, DaysFrame
<1>14. ListSound'
  BY <1>1, ListFrame
<1> QED
  BY <1>9, <1>10, <1>11, <1>12, <1>13, <1>14

LEMMA StoreRecordKeeps ==
  ASSUME ObservationInv, NEW r \in Run, StoreRecord(r)
  PROVE  ObservationInv'
<1> USE DEF ObservationInv
<1> DEFINE c == recording[r]
           x == [attempt |-> c.attempt, at |-> c.at, kept |-> TRUE,
                 status |-> IF c.attempt = 0 THEN "failed" ELSE log[r][c.attempt].result]
<1>1. /\ UNCHANGED <<archive, present, day, run, log, pending, timeline, prune, reader>>
      /\ c.phase = "storing"
      /\ recording' = [recording EXCEPT ![r] = NoRecording]
      /\ records' = [records EXCEPT ![r] = x] \/ records' = records
  BY DEF StoreRecord
<1>2. faults' \in 0..FaultBound
  BY ObservationAssumption DEF StoreRecord, ObservationTypes
<1>3. c \in RecordingRow /\ records[r] = None /\ c.at = day
  BY <1>1, RunTypes DEF OutcomeTold, DaysAgree
<1>4. run[r].outcome # "none" /\ c.attempt = run[r].owner
  BY <1>1 DEF OutcomeTold
<1>5. c.attempt # 0 => c.attempt \in Attempt
  BY <1>3, ObservationAssumption DEF RecordingRow, Attempt
<1>6. /\ x.attempt = run[r].owner /\ x.at = day /\ x.kept = TRUE
      /\ x.status = run[r].outcome
  BY <1>3, <1>4 DEF OutcomeTold
<1>7. x \in RecordRow
  BY <1>3, <1>5, RunTypes DEF RecordingRow, RecordRow, LogRow, ResultName
<1>8. NoRecording \in RecordingRow /\ NoRecording.phase = "none"
  BY ObservationAssumption DEF NoRecording, RecordingRow
<1>9. /\ recording' \in [Run -> RecordingRow]
      /\ \A q \in Run : recording'[q].phase # "none" => q # r /\ recording'[q] = recording[q]
  <2>1. recording \in [Run -> RecordingRow]
    BY DEF ObservationTypes
  <2> QED
    BY <1>1, <1>8, <2>1
<1> HIDE DEF x
<1>10. /\ records' \in [Run -> RecordRow \cup {None}]
       /\ \A q \in Run : q # r => records'[q] = records[q]
       /\ records'[r] = x \/ records'[r] = None
  <2>1. records \in [Run -> RecordRow \cup {None}]
    BY DEF ObservationTypes
  <2> QED
    BY <1>1, <1>3, <1>7, <2>1
<1>11. IsFiniteSet({q \in Run : records'[q] # None})
  <2>1. IsFiniteSet({q \in Run : records[q] # None} \cup {r})
    BY FS_AddElement DEF ObservationTypes
  <2>2. {q \in Run : records'[q] # None} \subseteq {q \in Run : records[q] # None} \cup {r}
    BY <1>10
  <2> QED
    BY <2>1, <2>2, FS_Subset
<1>12. ObservationTypes' /\ LogsClose'
  BY <1>1, <1>2, <1>9, <1>10, <1>11 DEF ObservationTypes, LogsClose
<1>13. OutcomeTold'
  <2>1. \A q \in Run : q # r => records'[q] = records[q]
    BY <1>10
  <2>2. records'[r] # None => records'[r] = x
    BY <1>10
  <2> QED
    BY <1>1, <1>4, <1>6, <1>9, <2>1, <2>2 DEF OutcomeTold
<1>14. EntriesWritten'
  <2> SUFFICES ASSUME NEW i \in Instance, NEW e \in Range(pending[i])
               PROVE  /\ InstanceOf(e.run, e.attempt) = i
                      /\ e.day <= day
                      /\ recording'[e.run].phase = "flushing"
                         /\ e.attempt = recording'[e.run].attempt
                           => e \in recording'[e.run].waits
                      /\ recording'[e.run].phase = "storing"
                           => e.attempt # recording'[e.run].attempt
                      /\ records'[e.run] # None => e.attempt # records'[e.run].attempt
    BY <1>1 DEF EntriesWritten, InstanceOf
  <2>1. e.run \in Run
    BY EntryTypes
  <2>2. e.run = r => e.attempt # c.attempt
    BY <1>1 DEF EntriesWritten
  <2>3. x.attempt = c.attempt
    BY <1>4, <1>6
  <2> QED
    BY <1>9, <1>10, <2>1, <2>2, <2>3 DEF EntriesWritten
<1>15. DaysAgree'
  <2>1. \A q \in Run : \A e : q # r => (OfRecord(q, e)' <=> OfRecord(q, e))
    BY <1>10 DEF OfRecord
  <2>2. \A e \in timeline : e.day <= day
    BY DEF EntriesWritten
  <2>3. prune # None => ~(day < prune.cutoff)
    <3>1. prune # None => prune.cutoff \in Nat /\ prune.cutoff <= day
      BY ObservationAssumption DEF DaysAgree, ObservationTypes, PruneRow
    <3> QED
      BY <3>1, ObservationAssumption DEF ObservationTypes
  <2>4. ASSUME NEW q \in Run, records'[q] # None
        PROVE  /\ \A e \in timeline : OfRecord(q, e)' => e.day <= records'[q].at
               /\ ~records'[q].kept =>
                    IF archive = "file" THEN records'[q].at < day - (Retention - 1)
                    ELSE \A e \in timeline : ~OfRecord(q, e)'
               /\ archive = "postgres" /\ prune # None /\ records'[q].at < prune.cutoff
                  /\ "timeline" \notin prune.left => \A e \in timeline : ~OfRecord(q, e)'
    <3>1. CASE q = r
      BY <1>6, <1>10, <2>2, <2>3, <2>4, <3>1
    <3>2. CASE q # r
      BY <1>10, <2>1, <2>4, <3>2 DEF DaysAgree
    <3> QED
      BY <3>1, <3>2
  <2>5. \A q \in Run : recording'[q].phase = "storing" => recording'[q].at = day
    BY <1>9 DEF DaysAgree
  <2> QED
    BY <1>1, <2>4, <2>5 DEF DaysAgree
<1>16. ListSound'
  <2>1. r \notin reader.owed /\ (reader.phase = "reading" => r \notin Range(reader.seen))
    BY <1>3 DEF ListSound
  <2>2. Range(reader.seen) \subseteq Run /\ reader.owed \subseteq Run
    BY RangeOfSeq DEF ObservationTypes, ReaderRow
  <2>3. \A q \in Run : q # r => records'[q] = records[q]
    BY <1>10
  <2>9. \A q \in Run : q # r => (BelowCursor(q)' <=> BelowCursor(q))
    BY <1>1, <2>3 DEF BelowCursor
  <2>10. \A q \in Run : q # r => (q \in Visible' <=> q \in Visible)
    BY <1>1, <2>3 DEF Visible, InWindow
  <2>4. \A q \in reader.owed : q # r /\ q \in Run
    BY <2>1, <2>2
  <2>5. \A q \in reader.owed : records[q] # None
    BY DEF ListSound
  <2>6. \A q \in reader.owed : records'[q] # None
    BY <2>3, <2>4, <2>5
  <2>7. ASSUME reader.phase = "reading"
        PROVE  /\ \A q \in Range(reader.seen) : records'[q] # None /\ ~BelowCursor(q)'
               /\ \A q \in reader.owed \cap Visible' :
                    q \in Range(reader.seen) \/ BelowCursor(q)'
    <3>1. \A q \in Range(reader.seen) : q # r /\ q \in Run
      BY <2>1, <2>2, <2>7
    <3>2. /\ \A q \in Range(reader.seen) : records[q] # None /\ ~BelowCursor(q)
          /\ \A q \in reader.owed \cap Visible :
               q \in Range(reader.seen) \/ BelowCursor(q)
      BY <2>7 DEF ListSound
    <3>3. \A q \in Range(reader.seen) : records'[q] # None /\ ~BelowCursor(q)'
      BY <2>3, <2>9, <3>1, <3>2
    <3>4. ASSUME NEW q \in reader.owed, q \in Visible'
          PROVE  q \in Range(reader.seen) \/ BelowCursor(q)'
      <4>1. q \in Visible /\ q \in Run
        BY <2>10, <2>4, <3>4
      <4>2. q \in Range(reader.seen) \/ BelowCursor(q)
        BY <3>2, <3>4, <4>1
      <4> QED
        BY <2>9, <2>4, <3>4, <4>2
    <3> QED
      BY <3>3, <3>4
  <2>8. reader.phase = "read" => reader.owed \cap Visible' \subseteq Range(reader.seen)
    <3>1. reader.phase = "read" => reader.owed \cap Visible \subseteq Range(reader.seen)
      BY DEF ListSound
    <3>2. \A q \in reader.owed : q \in Visible' <=> q \in Visible
      BY <2>10, <2>4
    <3> QED
      BY <3>1, <3>2
  <2> QED
    BY <1>1, <2>6, <2>7, <2>8 DEF ListSound
<1> QED
  BY <1>12, <1>13, <1>14, <1>15, <1>16

-----------------------------------------------------------------------------
(* Days pass and old things are removed.                                   *)

LEMMA TickKeeps ==
  ASSUME ObservationInv, Tick
  PROVE  ObservationInv'
<1> USE DEF ObservationInv
<1>1. /\ UNCHANGED <<archive, present, run, log, recording, pending, timeline, records,
                     prune, reader, faults>>
      /\ \A r \in Run : recording[r].phase = "none"
      /\ \A i \in Instance : pending[i] = <<>>
      /\ day' = day + 1 /\ day < LastDay
  BY DEF Tick, runVars
<1>2. day \in Nat /\ day' \in 0..LastDay /\ Retention \in Nat
  BY <1>1, ObservationAssumption DEF ObservationTypes
<1>3. ObservationTypes' /\ LogsClose' /\ OutcomeTold'
  BY <1>1, <1>2 DEF ObservationTypes, LogsClose, OutcomeTold
<1>4. \A e \in timeline : e.day \in Nat /\ e.day <= day
  BY ObservationAssumption DEF ObservationTypes, Entry, EntriesWritten
<1>5. EntriesWritten'
  <2>1. \A i \in Instance : Range(pending[i]) = {}
    BY <1>1 DEF Range
  <2> QED
    BY <1>1, <1>2, <1>4, <2>1 DEF EntriesWritten
<1>6. DaysAgree'
  <2>1. \A r \in Run : records[r] # None => records[r].at \in Nat
    BY RunTypes, ObservationAssumption DEF RecordRow
  <2>2. prune # None => prune.cutoff \in Nat
    BY ObservationAssumption DEF ObservationTypes, PruneRow
  <2>3. \A r \in Run : \A e : OfRecord(r, e)' <=> OfRecord(r, e)
    BY <1>1 DEF OfRecord
  <2>4. prune # None => /\ prune.cutoff <= day'
                        /\ archive = "file" => prune.cutoff <= day' - (Retention - 1)
    BY <1>1, <1>2, <2>2 DEF DaysAgree
  <2>5. \A r \in Run : records[r] # None /\ ~records[r].kept /\ archive = "file" =>
          records[r].at < day' - (Retention - 1)
    BY <1>1, <1>2, <2>1 DEF DaysAgree
  <2> QED
    BY <1>1, <2>3, <2>4, <2>5 DEF DaysAgree
<1>7. ListSound'
  <2>1. Visible' \subseteq Visible
    <3>1. \A r \in Run : records[r] # None => records[r].at \in Nat
      BY RunTypes, ObservationAssumption DEF RecordRow
    <3>2. \A r \in Run : records[r] # None /\ InWindow(records[r].at)'
            => InWindow(records[r].at)
      BY <1>1, <1>2, <3>1 DEF InWindow
    <3> QED
      BY <1>1, <3>2 DEF Visible
  <2>2. \A r \in Run : BelowCursor(r)' <=> BelowCursor(r)
    BY <1>1 DEF BelowCursor
  <2>3. Range(reader.seen) \subseteq Run /\ reader.owed \subseteq Run
    BY RangeOfSeq DEF ObservationTypes, ReaderRow
  <2> QED
    BY <1>1, <2>1, <2>2, <2>3 DEF ListSound
<1> QED
  BY <1>3, <1>5, <1>6, <1>7

LEMMA StartPruneKeeps ==
  ASSUME ObservationInv, NEW cutoff \in 0..LastDay, StartPrune(cutoff)
  PROVE  ObservationInv'
<1> USE DEF ObservationInv
<1> DEFINE p == [cutoff |-> cutoff, left |-> {"timeline", "records"}]
<1>1. /\ UNCHANGED <<archive, present, day, run, log, recording, pending, timeline,
                     records, reader, faults>>
      /\ prune' = p
      /\ IF archive = "file" THEN cutoff = day - (Retention - 1)
                             ELSE cutoff \in {day - Retention, day - Retention + 1}
  BY DEF StartPrune, runVars
<1>2. p \in PruneRow /\ p.cutoff = cutoff /\ "timeline" \in p.left
  BY DEF PruneRow
<1>3. day \in Nat /\ Retention \in Nat \ {0} /\ cutoff \in Nat
  BY ObservationAssumption DEF ObservationTypes
<1> HIDE DEF p
<1>4. ObservationTypes' /\ LogsClose' /\ OutcomeTold' /\ EntriesWritten'
  BY <1>1, <1>2 DEF ObservationTypes, LogsClose, OutcomeTold, EntriesWritten, InstanceOf
<1>5. DaysAgree'
  <2>1. cutoff <= day /\ (archive = "file" => cutoff <= day - (Retention - 1))
    BY <1>1, <1>3
  <2> QED
    BY <1>1, <1>2, <2>1 DEF DaysAgree, OfRecord
<1>6. ListSound'
  BY <1>1, ListFrame
<1> QED
  BY <1>4, <1>5, <1>6

LEMMA PruneFailsKeeps ==
  ASSUME ObservationInv, PruneFails
  PROVE  ObservationInv'
<1> USE DEF ObservationInv
<1>1. /\ UNCHANGED <<archive, present, day, run, log, recording, pending, timeline,
                     records, reader>>
      /\ prune' = None
  BY DEF PruneFails, runVars
<1>2. faults' \in 0..FaultBound
  BY ObservationAssumption DEF PruneFails, ObservationTypes
<1>3. ObservationTypes' /\ LogsClose' /\ OutcomeTold' /\ EntriesWritten'
  BY <1>1, <1>2 DEF ObservationTypes, LogsClose, OutcomeTold, EntriesWritten, InstanceOf
<1>4. DaysAgree' /\ ListSound'
  BY <1>1, ListFrame DEF DaysAgree, OfRecord
<1> QED
  BY <1>3, <1>4

LEMMA PruneStepKeeps ==
  ASSUME ObservationInv, NEW what \in {"timeline", "records"}, PruneStep(what)
  PROVE  ObservationInv'
<1> USE DEF ObservationInv
<1>1. /\ UNCHANGED <<archive, present, day, run, log, recording, pending, reader, faults>>
      /\ prune # None /\ what \in prune.left /\ PruneInOrder(what)
      /\ prune' = IF prune.left = {what} THEN None
                  ELSE [prune EXCEPT !.left = prune.left \ {what}]
  BY DEF PruneStep, runVars
<1>2. prune \in PruneRow /\ prune.cutoff \in Nat
  BY <1>1, ObservationAssumption DEF ObservationTypes, PruneRow
<1>3. /\ prune' \in PruneRow \cup {None}
      /\ prune' # None => /\ prune'.cutoff = prune.cutoff
                          /\ prune'.left = prune.left \ {what} /\ prune'.left # {}
  <2>1. CASE prune.left = {what}
    BY <1>1, <2>1
  <2>2. CASE prune.left # {what}
    <3> DEFINE p == [prune EXCEPT !.left = prune.left \ {what}]
    <3>1. p \in PruneRow /\ p.cutoff = prune.cutoff /\ p.left = prune.left \ {what}
      BY <1>2 DEF PruneRow
    <3>2. prune' = p
      BY <1>1, <2>2
    <3>3. prune.left \ {what} # {}
      BY <1>1, <2>2
    <3> HIDE DEF p
    <3> QED
      BY <3>1, <3>2, <3>3
  <2> QED
    BY <2>1, <2>2
<1>4. prune.cutoff <= day /\ (archive = "file" => prune.cutoff <= day - (Retention - 1))
  BY <1>1 DEF DaysAgree
<1>5. \A r \in Run : records[r] # None => records[r] \in RecordRow /\ records[r].at \in Nat
  BY RunTypes, ObservationAssumption DEF RecordRow
<1>6. day \in Nat /\ Retention \in Nat
  BY ObservationAssumption DEF ObservationTypes
<1>7. CASE what = "timeline"
  <2>1. records' = records /\ timeline' = {e \in timeline : e.day >= prune.cutoff}
    BY <1>7 DEF PruneStep
  <2>2. ObservationTypes' /\ LogsClose' /\ OutcomeTold'
    BY <1>1, <1>3, <2>1 DEF ObservationTypes, LogsClose, OutcomeTold
  <2>3. EntriesWritten'
    BY <1>1, <2>1 DEF EntriesWritten, InstanceOf
  <2>4. DaysAgree'
    <3>1. \A r \in Run : \A e : OfRecord(r, e)' <=> OfRecord(r, e)
      BY <2>1 DEF OfRecord
    <3>2. \A e \in timeline : e.day \in Nat
      BY ObservationAssumption DEF ObservationTypes, Entry
    <3>3. \A r \in Run : records[r] # None /\ records[r].at < prune.cutoff =>
            \A e \in timeline' : ~OfRecord(r, e)
      BY <1>2, <1>5, <2>1, <3>2 DEF DaysAgree
    <3> QED
      BY <1>1, <1>3, <1>4, <2>1, <3>1, <3>3 DEF DaysAgree
  <2>5. ListSound'
    BY <1>1, <2>1, ListFrame
  <2> QED
    BY <2>2, <2>3, <2>4, <2>5
<1>8. CASE what = "records"
  <2>1. timeline' = timeline
    BY <1>8 DEF PruneStep
  <2>2. \A r \in Run :
          records'[r] = IF records[r] # None /\ records[r].at < prune.cutoff
                        THEN [records[r] EXCEPT !.kept = FALSE] ELSE records[r]
    BY <1>8 DEF PruneStep
  <2>3. \A r \in Run :
          /\ records'[r] \in RecordRow \cup {None}
          /\ records'[r] = None <=> records[r] = None
          /\ records[r] # None => /\ records'[r].attempt = records[r].attempt
                                  /\ records'[r].at = records[r].at
                                  /\ records'[r].status = records[r].status
                                  /\ ~records'[r].kept =>
                                       ~records[r].kept \/ records[r].at < prune.cutoff
    <3> SUFFICES ASSUME NEW r \in Run
                 PROVE  /\ records'[r] \in RecordRow \cup {None}
                        /\ records'[r] = None <=> records[r] = None
                        /\ records[r] # None =>
                             /\ records'[r].attempt = records[r].attempt
                             /\ records'[r].at = records[r].at
                             /\ records'[r].status = records[r].status
                             /\ ~records'[r].kept =>
                                  ~records[r].kept \/ records[r].at < prune.cutoff
      OBVIOUS
    <3>1. CASE records[r] # None /\ records[r].at < prune.cutoff
      <4> DEFINE y == [records[r] EXCEPT !.kept = FALSE]
      <4>1. /\ y \in RecordRow /\ y.attempt = records[r].attempt
            /\ y.at = records[r].at /\ y.status = records[r].status
        BY <1>5, <3>1 DEF RecordRow
      <4>2. RecordRow \subseteq [attempt : Nat, at : Nat, kept : BOOLEAN, status : ResultName]
        BY ObservationAssumption DEF RecordRow
      <4>3. records'[r] = y
        BY <2>2, <3>1
      <4> HIDE DEF y
      <4>4. y # None
        BY <4>1, <4>2, ObservationAssumption DEF ResultName
      <4> QED
        BY <3>1, <4>1, <4>3, <4>4
    <3>2. CASE ~(records[r] # None /\ records[r].at < prune.cutoff)
      BY <2>2, <3>2, <1>5
    <3> QED
      BY <3>1, <3>2
  <2>4. records' \in [Run -> RecordRow \cup {None}]
    <3>1. records' = [r \in Run |-> records'[r]]
      BY <1>8 DEF PruneStep
    <3> QED
      BY <2>3, <3>1
  <2>5. IsFiniteSet({r \in Run : records'[r] # None})
    <3>1. {r \in Run : records'[r] # None} = {r \in Run : records[r] # None}
      BY <2>3
    <3> QED
      BY <3>1 DEF ObservationTypes
  <2>6. ObservationTypes' /\ LogsClose'
    BY <1>1, <1>3, <2>1, <2>4, <2>5 DEF ObservationTypes, LogsClose
  <2>7. OutcomeTold'
    BY <1>1, <2>3 DEF OutcomeTold
  <2>8. EntriesWritten'
    <3>1. \A i \in Instance : \A e \in Range(pending[i]) : e.run \in Run
      BY EntryTypes
    <3> QED
      BY <1>1, <2>1, <2>3, <3>1 DEF EntriesWritten, InstanceOf
  <2>9. DaysAgree'
    <3>1. \A r \in Run : records[r] # None => \A e : OfRecord(r, e)' <=> OfRecord(r, e)
      BY <2>3 DEF OfRecord
    <3>2. archive = "postgres" => "timeline" \notin prune.left
      BY <1>1, <1>8 DEF PruneInOrder
    <3>3. prune' = None
          \/ (prune'.cutoff = prune.cutoff /\ prune'.left \subseteq prune.left)
      BY <1>3
    <3>4. ASSUME NEW r \in Run, records'[r] # None
          PROVE  /\ \A e \in timeline : OfRecord(r, e)' => e.day <= records'[r].at
                 /\ ~records'[r].kept =>
                      IF archive = "file" THEN records'[r].at < day - (Retention - 1)
                      ELSE \A e \in timeline : ~OfRecord(r, e)'
                 /\ archive = "postgres" /\ prune' # None
                    /\ records'[r].at < prune'.cutoff
                    /\ "timeline" \notin prune'.left
                      => \A e \in timeline : ~OfRecord(r, e)'
      <4>1. /\ records[r] # None /\ records'[r].at = records[r].at
            /\ ~records'[r].kept => ~records[r].kept \/ records[r].at < prune.cutoff
        BY <2>3, <3>4
      <4>2. \A e \in timeline : OfRecord(r, e)' => e.day <= records'[r].at
        BY <3>1, <4>1 DEF DaysAgree
      <4>3. archive = "postgres" /\ records[r].at < prune.cutoff =>
              \A e \in timeline : ~OfRecord(r, e)
        BY <1>1, <3>2, <4>1 DEF DaysAgree
      <4>4. archive = "file" /\ records[r].at < prune.cutoff =>
              records[r].at < day - (Retention - 1)
        BY <1>2, <1>4, <1>5, <1>6, <4>1
      <4>5. archive \in {"postgres", "file"}
        BY DEF ObservationTypes
      <4>6. ~records'[r].kept =>
              IF archive = "file" THEN records'[r].at < day - (Retention - 1)
              ELSE \A e \in timeline : ~OfRecord(r, e)'
        BY <3>1, <4>1, <4>3, <4>4, <4>5 DEF DaysAgree
      <4> QED
        BY <3>1, <3>3, <4>1, <4>2, <4>3, <4>6
    <3> QED
      BY <1>1, <1>3, <1>4, <2>1, <3>4 DEF DaysAgree
  <2>10. ListSound'
    <3>1. \A r \in Run : records[r] # None => (BelowCursor(r)' <=> BelowCursor(r))
      BY <1>1, <2>3 DEF BelowCursor
    <3>2. Visible' \subseteq Visible /\ \A r \in Visible : records[r] # None
      <4>1. ASSUME NEW r \in Run, records[r] # None, records'[r].kept
            PROVE  records[r].kept
        <5>1. CASE records[r].at < prune.cutoff
          <6>1. records'[r] = [records[r] EXCEPT !.kept = FALSE]
            BY <2>2, <4>1, <5>1
          <6> QED
            BY <1>5, <4>1, <6>1 DEF RecordRow
        <5>2. CASE ~(records[r].at < prune.cutoff)
          BY <2>2, <4>1, <5>2
        <5> QED
          BY <5>1, <5>2
      <4>2. \A r \in Run : records[r] # None => (InWindow(records[r].at)' <=> InWindow(records[r].at))
        BY <1>1, <2>3 DEF InWindow
      <4> QED
        BY <2>3, <4>1, <4>2 DEF Visible
    <3>3. Range(reader.seen) \subseteq Run /\ reader.owed \subseteq Run
      BY RangeOfSeq DEF ObservationTypes, ReaderRow
    <3> QED
      BY <1>1, <2>3, <3>1, <3>2, <3>3 DEF ListSound
  <2> QED
    BY <2>6, <2>7, <2>8, <2>9, <2>10
<1> QED
  BY <1>7, <1>8

-----------------------------------------------------------------------------
(* The list is read.                                                       *)

LEMMA OpenListKeeps ==
  ASSUME ObservationInv, OpenList
  PROVE  ObservationInv'
<1> USE DEF ObservationInv
<1> DEFINE opened == [Closed EXCEPT !.phase = "reading", !.owed = Visible]
<1>1. /\ UNCHANGED <<archive, present, day, run, log, recording, pending, timeline,
                     records, prune, faults>>
      /\ reader' = opened
  BY DEF OpenList, runVars
<1>2. Visible \in SUBSET Run /\ \A r \in Visible : records[r] # None
  BY DEF Visible
<1>3. /\ opened \in ReaderRow /\ opened.phase = "reading" /\ opened.cursor = None
      /\ opened.seen = <<>> /\ opened.owed = Visible
  <2>1. Closed \in ReaderRow /\ Closed.cursor = None /\ Closed.seen = <<>>
    <3>1. <<>> \in Seq(Run) /\ {} \in SUBSET Run
      OBVIOUS
    <3> QED
      BY <3>1 DEF Closed, ReaderRow
  <2> QED
    BY <1>2, <2>1 DEF ReaderRow
<1> HIDE DEF opened
<1>4. ObservationTypes' /\ LogsClose' /\ OutcomeTold' /\ EntriesWritten' /\ DaysAgree'
  BY <1>1, <1>3 DEF ObservationTypes, LogsClose, OutcomeTold, EntriesWritten, DaysAgree,
                    InstanceOf, OfRecord
<1>5. ListSound'
  <2>1. Range(<<>>) = {} /\ Len(<<>>) = 0
    BY DEF Range
  <2>2. \A r \in Run : BelowCursor(r)'
    BY <1>1, <1>3 DEF BelowCursor
  <2> QED
    BY <1>1, <1>2, <1>3, <2>1, <2>2 DEF ListSound
<1> QED
  BY <1>4, <1>5

LEMMA Joined ==
  ASSUME NEW S, NEW s \in Seq(S), NEW t \in Seq(S)
  PROVE  /\ s \o t \in Seq(S) /\ Len(s \o t) = Len(s) + Len(t)
         /\ Len(s) \in Nat /\ Len(t) \in Nat
         /\ \A i \in 1..Len(s) : (s \o t)[i] = s[i]
         /\ \A i \in 1..Len(t) : (s \o t)[i + Len(s)] = t[i]
         /\ \A i \in 1..Len(s \o t) : i \in 1..Len(s)
              \/ (i - Len(s) \in 1..Len(t) /\ (s \o t)[i] = t[i - Len(s)])
<1> DEFINE st == s \o t
<1>1. /\ st \in Seq(S) /\ Len(st) = Len(s) + Len(t)
      /\ \A i \in 1..(Len(s) + Len(t)) : st[i] = IF i <= Len(s) THEN s[i] ELSE t[i - Len(s)]
  BY ConcatProperties
<1>2. Len(s) \in Nat /\ Len(t) \in Nat
  OBVIOUS
<1> HIDE DEF st
<1>3. \A i \in 1..Len(s) : st[i] = s[i]
  BY <1>1, <1>2
<1>4. ASSUME NEW i \in 1..Len(t)
      PROVE  st[i + Len(s)] = t[i]
  <2>1. /\ i + Len(s) \in 1..(Len(s) + Len(t)) /\ ~(i + Len(s) <= Len(s))
        /\ (i + Len(s)) - Len(s) = i
    BY <1>2
  <2> QED
    BY <1>1, <2>1
<1>5. \A i \in 1..Len(st) : i \in 1..Len(s)
        \/ (i - Len(s) \in 1..Len(t) /\ st[i] = t[i - Len(s)])
  BY <1>1, <1>2
<1> QED
  BY <1>1, <1>2, <1>3, <1>4, <1>5 DEF st

(* The records a page is taken from, in their order.                       *)
LEMMA LeftInOrder ==
  ASSUME ObservationTypes
  PROVE  LET S == {r \in Visible : BelowCursor(r)}
             s == Ordered(S, Newer)
         IN  /\ s \in Seq(Run)
             /\ \A i \in 1..Len(s) : s[i] \in S
             /\ \A i, j \in 1..Len(s) : i < j => Newer(s[i], s[j])
             /\ \A i, j \in 1..Len(s) : s[i] = s[j] => i = j
             /\ \A r \in S : \E i \in 1..Len(s) : s[i] = r
<1> DEFINE S == {r \in Visible : BelowCursor(r)}
           s == Ordered(S, Newer)
           n == Cardinality(S)
<1>1. S \in SUBSET Run /\ \A r \in S : records[r] \in RecordRow
  BY RunTypes DEF Visible
<1>2. IsFiniteSet(S)
  <2>1. S \subseteq {r \in Run : records[r] # None}
    BY DEF Visible
  <2> QED
    BY <2>1, FS_Subset DEF ObservationTypes
<1> HIDE DEF S
<1>3. /\ n \in Nat
      /\ s \in [1..n -> S]
      /\ \A i, j \in 1..n : i < j => Newer(s[i], s[j])
      /\ \A i, j \in 1..n : s[i] = s[j] => i = j
      /\ \A r \in S : \E i \in 1..n : s[i] = r
  BY <1>1, <1>2, ListInOrder
<1> HIDE DEF s, n
<1>4. s \in Seq(Run) /\ Len(s) = n
  BY <1>1, <1>3
<1> QED
  BY <1>3, <1>4 DEF S, s

LEMMA ReadPageKeeps ==
  ASSUME ObservationInv, ReadPage
  PROVE  ObservationInv'
<1> USE DEF ObservationInv
<1> DEFINE S == {r \in Visible : BelowCursor(r)}
           left == Ordered(S, Newer)
           more == Len(left) > PageSize
           page == IF more THEN SubSeq(left, 1, PageSize) ELSE left
           ahead == IF more THEN [at |-> records[Last(page)].at, run |-> Last(page)]
                     ELSE None
           next == [reader EXCEPT !.phase = IF more THEN "reading" ELSE "read",
                                  !.cursor = ahead, !.seen = reader.seen \o page]
<1>1. /\ UNCHANGED <<archive, present, day, run, log, recording, pending, timeline,
                     records, prune, faults>>
      /\ reader.phase = "reading" /\ reader' = next
  BY DEF ReadPage, runVars
<1>2. reader \in ReaderRow
  BY DEF ObservationTypes
<1>3. /\ left \in Seq(Run)
      /\ \A i \in 1..Len(left) : left[i] \in S
      /\ \A i, j \in 1..Len(left) : i < j => Newer(left[i], left[j])
      /\ \A i, j \in 1..Len(left) : left[i] = left[j] => i = j
      /\ \A r \in S : \E i \in 1..Len(left) : left[i] = r
  BY LeftInOrder
<1>4. /\ \A r \in S : r \in Run /\ r \in Nat /\ records[r] \in RecordRow
                      /\ records[r] # None /\ records[r].at \in Nat /\ BelowCursor(r)
      /\ PageSize \in Nat \ {0}
  BY RunTypes, ObservationAssumption DEF Visible, RecordRow
<1> HIDE DEF S, left
<1>5. /\ page \in Seq(Run)
      /\ Len(page) = IF more THEN PageSize ELSE Len(left)
      /\ \A i \in 1..Len(page) : page[i] = left[i]
      /\ Len(page) \in Nat /\ Len(page) <= Len(left)
  <2>1. CASE more
    <3>1. PageSize \in Nat /\ PageSize <= Len(left) /\ Len(left) \in Nat
      BY <1>3, <1>4, <2>1
    <3>2. SubSeq(left, 1, PageSize) = [i \in 1..PageSize |-> left[i]]
      BY <1>3, <3>1
    <3>3. \A i \in 1..PageSize : left[i] \in Run
      BY <1>3, <3>1
    <3> QED
      BY <1>3, <2>1, <3>1, <3>2, <3>3
  <2>2. CASE ~more
    BY <1>3, <2>2
  <2> QED
    BY <2>1, <2>2
<1>6. more => /\ Last(page) = left[PageSize] /\ PageSize \in 1..Len(left)
              /\ ahead = [at |-> records[left[PageSize]].at, run |-> left[PageSize]]
              /\ left[PageSize] \in S
  BY <1>3, <1>4, <1>5 DEF Last
<1> HIDE DEF page
<1>7. /\ ahead \in {None} \cup ListCursor
      /\ more => /\ ahead # None /\ ahead.run = left[PageSize]
                 /\ ahead.at = records[left[PageSize]].at
      /\ ~more => ahead = None
  <2>1. CASE more
    <3>1. ahead \in ListCursor
      BY <1>4, <1>6, <2>1 DEF ListCursor, RecordRow
    <3>2. ahead \in [at : Nat, run : Nat]
      BY <1>4, <1>6, <2>1
    <3> QED
      BY <1>6, <2>1, <3>1, <3>2, ObservationAssumption
  <2>2. CASE ~more
    BY <2>2
  <2> QED
    BY <2>1, <2>2
<1> HIDE DEF ahead
<1>8. reader.seen \in Seq(Run) /\ reader.owed \in SUBSET Run
  BY <1>2 DEF ReaderRow
<1> DEFINE soFar == reader.seen \o page
<1>9. /\ soFar \in Seq(Run) /\ Len(soFar) = Len(reader.seen) + Len(page)
      /\ \A i \in 1..Len(reader.seen) : soFar[i] = reader.seen[i]
      /\ \A i \in 1..Len(page) : soFar[i + Len(reader.seen)] = page[i]
      /\ \A i \in 1..Len(soFar) : i \in 1..Len(reader.seen)
           \/ (i - Len(reader.seen) \in 1..Len(page)
               /\ soFar[i] = page[i - Len(reader.seen)])
  <2> DEFINE q == reader.seen
  <2>1. q \in Seq(Run) /\ page \in Seq(Run)
    BY <1>5, <1>8
  <2> HIDE DEF q
  <2>2. /\ q \o page \in Seq(Run) /\ Len(q \o page) = Len(q) + Len(page)
        /\ \A i \in 1..Len(q) : (q \o page)[i] = q[i]
        /\ \A i \in 1..Len(page) : (q \o page)[i + Len(q)] = page[i]
        /\ \A i \in 1..Len(q \o page) : i \in 1..Len(q)
             \/ (i - Len(q) \in 1..Len(page) /\ (q \o page)[i] = page[i - Len(q)])
    BY ONLY <2>1, Joined
  <2> QED
    BY <2>2 DEF q
<1>10. /\ next \in ReaderRow /\ next.cursor = ahead /\ next.seen = soFar
       /\ next.owed = reader.owed
       /\ next.phase = IF more THEN "reading" ELSE "read"
  BY <1>2, <1>7, <1>9 DEF ReaderRow
<1>11. /\ Range(page) = {page[i] : i \in 1..Len(page)}
       /\ Range(reader.seen) = {reader.seen[i] : i \in 1..Len(reader.seen)}
       /\ Range(soFar) = {soFar[i] : i \in 1..Len(soFar)}
  BY <1>5, <1>8, <1>9 DEF Range
<1> HIDE DEF soFar, next
<1>12. Range(soFar) = Range(reader.seen) \cup Range(page)
  <2>1. Range(soFar) \subseteq Range(reader.seen) \cup Range(page)
    BY <1>9, <1>11
  <2>2. Range(reader.seen) \subseteq Range(soFar)
    <3>1. \A i \in 1..Len(reader.seen) : i \in 1..Len(soFar)
      BY <1>5, <1>8, <1>9
    <3> QED
      BY <1>9, <1>11, <3>1
  <2>3. Range(page) \subseteq Range(soFar)
    <3>1. \A i \in 1..Len(page) : i + Len(reader.seen) \in 1..Len(soFar)
      BY <1>5, <1>8, <1>9
    <3> QED
      BY <1>9, <1>11, <3>1
  <2> QED
    BY <2>1, <2>2, <2>3
<1>13. /\ \A r \in Range(reader.seen) : records[r] # None /\ ~BelowCursor(r) /\ r \in Run
       /\ \A r \in reader.owed \cap Visible : r \in Range(reader.seen) \/ BelowCursor(r)
       /\ \A r \in reader.owed : records[r] # None
       /\ \A i, j \in 1..Len(reader.seen) : reader.seen[i] = reader.seen[j] => i = j
  BY <1>1, <1>8, RangeOfSeq DEF ListSound
<1>14. \A r \in Range(page) : r \in S
  BY <1>3, <1>5, <1>11
<1>15. \A i, j \in 1..Len(soFar) : soFar[i] = soFar[j] => i = j
  <2>1. ASSUME NEW i \in 1..Len(reader.seen), NEW j \in 1..Len(page)
        PROVE  reader.seen[i] # page[j]
    <3>1. reader.seen[i] \in Range(reader.seen) /\ page[j] \in Range(page)
      BY <1>11
    <3>2. ~BelowCursor(reader.seen[i]) /\ BelowCursor(page[j])
      BY <1>4, <1>13, <1>14, <3>1
    <3> QED
      BY <3>2
  <2>2. \A i, j \in 1..Len(page) : page[i] = page[j] => i = j
    BY <1>3, <1>5
  <2>3. Len(reader.seen) \in Nat /\ Len(page) \in Nat /\ Len(soFar) \in Nat
    BY <1>5, <1>8, <1>9
  <2> SUFFICES ASSUME NEW i \in 1..Len(soFar), NEW j \in 1..Len(soFar),
                      soFar[i] = soFar[j], i < j
               PROVE  FALSE
    BY <2>3
  <2>4. CASE j \in 1..Len(reader.seen)
    <3>1. i \in 1..Len(reader.seen)
      BY <2>3, <2>4
    <3> QED
      BY <1>9, <1>13, <2>4, <3>1
  <2>5. CASE i \in 1..Len(reader.seen) /\ j \notin 1..Len(reader.seen)
    BY <1>9, <2>1, <2>5
  <2>6. CASE i \notin 1..Len(reader.seen) /\ j \notin 1..Len(reader.seen)
    <3>1. i - Len(reader.seen) = j - Len(reader.seen)
      <4>1. /\ i - Len(reader.seen) \in 1..Len(page)
            /\ j - Len(reader.seen) \in 1..Len(page)
            /\ page[i - Len(reader.seen)] = page[j - Len(reader.seen)]
        BY <1>9, <2>6
      <4> QED
        BY <2>2, <4>1
    <3> QED
      BY <2>3, <3>1
  <2> QED
    BY <2>3, <2>4, <2>5, <2>6
<1>16. \A r \in S : ~more => r \in Range(page)
  BY <1>3, <1>5, <1>11
<1>17. Visible' = Visible /\ \A r \in S : r \in Visible
  BY <1>1 DEF Visible, InWindow, S
<1>18. reader'.owed \cap Visible' \subseteq Range(soFar) \/ more
  BY <1>1, <1>10, <1>12, <1>13, <1>16, <1>17 DEF S
<1>19. ASSUME more
       PROVE  /\ \A r \in Range(soFar) : ~BelowCursor(r)'
              /\ \A r \in reader.owed \cap Visible : r \in Range(soFar) \/ BelowCursor(r)'
  <2> DEFINE p == left[PageSize]
  <2>1. p \in S /\ PageSize \in 1..Len(left) /\ Len(left) \in Nat
    BY <1>3, <1>6, <1>19
  <2>2. \A r : BelowCursor(r)' <=> Newer(p, r)
    <3>1. reader'.cursor = ahead /\ records' = records
      BY <1>1, <1>10
    <3> QED
      BY <1>7, <1>19, <3>1 DEF BelowCursor, Newer
  <2> HIDE DEF p
  <2>3. \A r \in Range(page) : ~Newer(p, r)
    <3> SUFFICES ASSUME NEW i \in 1..Len(page), Newer(p, page[i])
                 PROVE  FALSE
      BY <1>11
    <3>1. i \in 1..Len(left) /\ i <= PageSize /\ page[i] = left[i]
      BY <1>3, <1>4, <1>5, <1>19
    <3>2. left[i] \in S /\ (i = PageSize \/ Newer(left[i], p))
      BY <1>3, <2>1, <3>1 DEF p
    <3> QED
      BY <1>4, <2>1, <3>1, <3>2 DEF Newer, p
  <2>4. \A r \in Range(reader.seen) : ~Newer(p, r)
    <3> SUFFICES ASSUME NEW r \in Range(reader.seen), Newer(p, r)
                 PROVE  FALSE
      OBVIOUS
    <3>1. /\ ~BelowCursor(r) /\ BelowCursor(p) /\ r \in Nat /\ records[r].at \in Nat
          /\ p \in Nat /\ records[p].at \in Nat
      BY <1>4, <1>13, <2>1, RunTypes, ObservationAssumption DEF RecordRow
    <3>2. reader.cursor # None => reader.cursor.at \in Nat /\ reader.cursor.run \in Nat
      BY <1>2, RunTypes, ObservationAssumption DEF ReaderRow, ListCursor
    <3> QED
      BY <3>1, <3>2 DEF BelowCursor, Newer
  <2>5. ASSUME NEW r \in reader.owed \cap Visible, r \notin Range(soFar)
        PROVE  Newer(p, r)
    <3>1. r \in S
      BY <1>12, <1>13, <2>5 DEF S
    <3>2. PICK i \in 1..Len(left) : left[i] = r
      BY <1>3, <3>1
    <3>3. ~(i \in 1..PageSize)
      BY <1>5, <1>11, <1>12, <1>19, <2>5, <3>2
    <3>4. i \in Nat /\ PageSize \in Nat /\ Len(left) \in Nat /\ i > PageSize
      BY <1>3, <1>4, <2>1, <3>2, <3>3
    <3>5. Newer(left[PageSize], left[i])
      BY <1>3, <2>1, <3>2, <3>4
    <3> QED
      BY <3>2, <3>5 DEF p
  <2> QED
    BY <1>12, <2>2, <2>3, <2>4, <2>5
<1>20. ObservationTypes' /\ LogsClose' /\ OutcomeTold' /\ EntriesWritten' /\ DaysAgree'
  BY <1>1, <1>10 DEF ObservationTypes, LogsClose, OutcomeTold, EntriesWritten, DaysAgree,
                     InstanceOf, OfRecord
<1>21. ListSound'
  <2>1. /\ reader'.seen = soFar /\ reader'.owed = reader.owed /\ reader'.cursor = ahead
        /\ reader'.phase = IF more THEN "reading" ELSE "read"
        /\ records' = records
    BY <1>1, <1>10
  <2>2. \A r \in Range(soFar) : records[r] # None
    BY <1>4, <1>12, <1>13, <1>14
  <2> QED
    BY <1>7, <1>13, <1>15, <1>17, <1>18, <1>19, <2>1, <2>2 DEF ListSound
<1> QED
  BY <1>20, <1>21

-----------------------------------------------------------------------------
(* Every step, and what the invariant says to a reader.                    *)

LEMMA ObservationStarts ==
  ASSUME ObservationInit
  PROVE  ObservationInv
<1> USE DEF ObservationInit
<1>1. NoLog \in LogRow /\ NoLog.active = {} /\ NoLog.phase = "none"
  BY ObservationAssumption DEF NoLog, LogRow, ResultName
<1>2. NoRecording \in RecordingRow /\ NoRecording.phase = "none"
  BY ObservationAssumption DEF NoRecording, RecordingRow
<1>3. [attempts |-> 0, owner |-> 0, outcome |-> "none"] \in ObservedRun
  BY ObservationAssumption DEF ObservedRun, ResultName
<1>4. /\ Closed \in ReaderRow /\ Closed.phase = "closed" /\ Closed.seen = <<>>
      /\ Closed.owed = {}
  <2>1. <<>> \in Seq(Run) /\ {} \in SUBSET Run
    OBVIOUS
  <2> QED
    BY <2>1 DEF Closed, ReaderRow
<1>5. \A i \in Instance : pending[i] = <<>> /\ Range(pending[i]) = {}
  BY DEF Range
<1>6. ObservationTypes
  <2>1. IsFiniteSet({r \in Run : records[r] # None})
    <3>1. {r \in Run : records[r] # None} = {}
      OBVIOUS
    <3> QED
      BY <3>1, FS_EmptySet
  <2>2. pending \in [Instance -> Seq(Entry)]
    <3>1. <<>> \in Seq(Entry)
      OBVIOUS
    <3> QED
      BY <3>1
  <2>3. \A r \in Run, a \in Attempt : IsFiniteSet(log[r][a].active)
    BY <1>1, FS_EmptySet
  <2>4. log \in [Run -> [Attempt -> LogRow]]
    BY <1>1
  <2>5. recording \in [Run -> RecordingRow] /\ run \in [Run -> ObservedRun]
    BY <1>2, <1>3
  <2>6. present \subseteq Run /\ day \in 0..LastDay /\ faults \in 0..FaultBound
    BY ObservationAssumption
  <2> QED
    BY <1>4, <2>1, <2>2, <2>3, <2>4, <2>5, <2>6 DEF ObservationTypes
<1>7. LogsClose
  BY <1>1 DEF LogsClose
<1>8. OutcomeTold
  BY <1>2 DEF OutcomeTold
<1>9. EntriesWritten /\ DaysAgree
  BY <1>2, <1>5 DEF EntriesWritten, DaysAgree
<1>10. ListSound
  <2>1. Len(<<>>) = 0
    OBVIOUS
  <2> QED
    BY <1>4, <2>1 DEF ListSound
<1> QED
  BY <1>6, <1>7, <1>8, <1>9, <1>10 DEF ObservationInv

LEMMA ObservationSteps ==
  ASSUME ObservationInv, [ObservationNext]_obsVars
  PROVE  ObservationInv'
<1>1. CASE RunStep
  BY <1>1, RunStepKeeps
<1>2. CASE \E i \in Instance : \E k \in DOMAIN pending[i] : WriteEnds(i, k)
  BY <1>2, WriteEndsKeeps
<1>3. CASE \E r \in Run : FlushEnds(r) \/ StoreRecord(r)
  BY <1>3, FlushEndsKeeps, StoreRecordKeeps
<1>4. CASE \E i \in Instance : Crash(i)
  BY <1>4, CrashKeeps
<1>5. CASE Tick
  BY <1>5, TickKeeps
<1>6. CASE \E cutoff \in 0..LastDay : StartPrune(cutoff)
  BY <1>6, StartPruneKeeps
<1>7. CASE \E what \in {"timeline", "records"} : PruneStep(what)
  BY <1>7, PruneStepKeeps
<1>8. CASE PruneFails
  BY <1>8, PruneFailsKeeps
<1>9. CASE OpenList
  BY <1>9, OpenListKeeps
<1>10. CASE ReadPage
  BY <1>10, ReadPageKeeps
<1>11. CASE UNCHANGED obsVars
  <2>1. UNCHANGED <<archive, present, day, run, log, pending, timeline, recording, records,
                    prune, reader, faults>>
    BY <1>11 DEF obsVars
  <2>2. ObservationTypes' /\ LogsClose' /\ OutcomeTold' /\ EntriesWritten'
    BY <2>1 DEF ObservationInv, ObservationTypes, LogsClose, OutcomeTold, EntriesWritten,
                InstanceOf
  <2>3. DaysAgree' /\ ListSound'
    BY <2>1, ListFrame DEF ObservationInv, DaysAgree, OfRecord
  <2> QED
    BY <2>2, <2>3 DEF ObservationInv
<1> QED
  BY <1>1, <1>2, <1>3, <1>4, <1>5, <1>6, <1>7, <1>8, <1>9, <1>10, <1>11 DEF ObservationNext

LEMMA NothingIsReadTwice ==
  ASSUME NEW s \in Seq(Run), \A i, j \in 1..Len(s) : s[i] = s[j] => i = j
  PROVE  Cardinality(Range(s)) = Len(s)
<1>1. Len(s) \in Nat /\ DOMAIN s = 1..Len(s) /\ Range(s) = {s[i] : i \in 1..Len(s)}
  BY DEF Range
<1>2. s \in Surjection(1..Len(s), Range(s)) /\ s \in Injection(1..Len(s), Range(s))
  <2>1. s \in [1..Len(s) -> Range(s)]
    BY <1>1
  <2> QED
    BY <1>1, <2>1 DEF Surjection, Injection, IsInjective
<1>3. IsFiniteSet(1..Len(s)) /\ Cardinality(1..Len(s)) = Len(s)
  BY <1>1, FS_Interval
<1> QED
  BY <1>2, <1>3, FS_Surjection

LEMMA ReadersAreToldTheTruth ==
  ASSUME ObservationInv
  PROVE  TimelinesConsistent
<1> USE DEF ObservationInv
<1>1. ObservationTypeOK
  <2>1. \A r \in Run : records[r] # None => records[r].attempt \in 0..MaxAttempts
    BY RunTypes DEF RecordRow
  <2>2. \A r \in Run : /\ run[r].attempts \in 0..MaxAttempts
                       /\ run[r].owner \in 0..MaxAttempts
                       /\ run[r].outcome \in {"none", "succeeded", "failed"}
    BY RunTypes DEF ObservedRun, ResultName
  <2>3. \A r \in Run : recording[r].phase \in {"none", "flushing", "storing"}
    BY RunTypes DEF RecordingRow
  <2>4. \A i \in Instance : Range(pending[i]) \subseteq Entry
    BY EntryTypes
  <2> QED
    BY <2>1, <2>2, <2>3, <2>4 DEF ObservationTypeOK, ObservationTypes
<1>2. RecordsAgreeWithRuns
  BY DEF OutcomeTold, RecordsAgreeWithRuns
<1>3. TimelineVisibleWithRecord
  BY DEF EntriesWritten, TimelineVisibleWithRecord
<1>4. TimelineNeverOutlivesRecord
  <2> SUFFICES ASSUME NEW r \in Run, records[r] # None, r \notin Visible,
                      NEW e \in TimelineOf(r), e.attempt = records[r].attempt
               PROVE  FALSE
    BY DEF TimelineNeverOutlivesRecord
  <2>1. e \in timeline /\ e.run = r /\ InWindow(e.day)
    BY DEF TimelineOf
  <2>2. e.day \in Nat /\ records[r].at \in Nat /\ day \in Nat /\ Retention \in Nat
    BY <2>1, RunTypes, ObservationAssumption DEF ObservationTypes, Entry, RecordRow
  <2>3. OfRecord(r, e) /\ e.day <= records[r].at
    BY <2>1 DEF OfRecord, DaysAgree
  <2>4. archive \in {"postgres", "file"}
    BY DEF ObservationTypes
  <2>5. CASE archive = "postgres"
    <3>1. ~records[r].kept
      BY <2>5 DEF Visible, InWindow
    <3> QED
      BY <2>1, <2>3, <2>5, <3>1 DEF DaysAgree
  <2>6. CASE archive = "file"
    <3>1. records[r].at < day - (Retention - 1)
      BY <2>2, <2>6 DEF Visible, InWindow, DaysAgree
    <3> QED
      BY <2>1, <2>2, <2>3, <2>6, <3>1 DEF InWindow
  <2> QED
    BY <2>4, <2>5, <2>6
<1>5. PagingIsComplete
  <2>1. reader.seen \in Seq(Run)
    BY DEF ObservationTypes, ReaderRow
  <2>2. Cardinality(Range(reader.seen)) = Len(reader.seen)
    <3>1. \A i, j \in 1..Len(reader.seen) : reader.seen[i] = reader.seen[j] => i = j
      BY DEF ListSound
    <3> QED
      BY <2>1, <3>1, NothingIsReadTwice
  <2> QED
    BY <2>2 DEF ListSound, PagingIsComplete
<1> QED
  BY <1>1, <1>2, <1>3, <1>4, <1>5 DEF TimelinesConsistent

(* What is kept about finished runs is whole and true in every behaviour   *)
(* (app/run-observation.ts:60-139, run-observation/postgres.ts,            *)
(* process-runtime/logging.ts).                                            *)
THEOREM TimelinesStayConsistent == ObservationSpec => []TimelinesConsistent
<1>1. ObservationInit => ObservationInv
  BY ObservationStarts
<1>2. ObservationInv /\ [ObservationNext]_obsVars => ObservationInv'
  BY ObservationSteps
<1>3. ObservationInv => TimelinesConsistent
  BY ReadersAreToldTheTruth
<1> QED
  BY <1>1, <1>2, <1>3, PTL DEF ObservationSpec

-----------------------------------------------------------------------------
(* The three scenes of RunOperations: each part keeps its own invariant,   *)
(* whatever the others do, for they share no state.                        *)

(* Neither a recovery nor a sweep that says it is complete has passed over *)
(* a run or a conversation that nobody else has touched                    *)
(* (recovery/index.ts:153-270, retention/index.ts:62-93).                  *)
THEOREM NothingIsEverPassedOver == SceneSpec => []NothingIsPassedOver
<1>1. SceneInit => RecoveryInv /\ SweepInv
  BY RecoveryStarts, SweepInitSound DEF SceneInit
<1>2. RecoveryInv /\ SweepInv /\ [SceneNext]_sceneVars => (RecoveryInv /\ SweepInv)'
  <2> SUFFICES ASSUME RecoveryInv, SweepInv, [SceneNext]_sceneVars
               PROVE  RecoveryInv' /\ SweepInv'
    OBVIOUS
  <2>1. [RecoveryNext]_recoveryVars /\ [SweepNext]_sweepVars
    BY DEF SceneNext, sceneVars
  <2> QED
    BY <2>1, RecoveryStepKeeps, SweepSteps
<1>3. RecoveryInv /\ SweepInv => NothingIsPassedOver
  BY NothingIsLeft, SweptIsSettled DEF NothingIsPassedOver
<1> QED
  BY <1>1, <1>2, <1>3, PTL DEF SceneSpec

(* What is kept about finished runs is whole and true in every scene       *)
(* (app/run-observation.ts:60-139).                                        *)
THEOREM TimelinesAlwaysConsistent == SceneSpec => []TimelinesConsistent
<1>1. SceneInit => ObservationInv
  BY ObservationStarts DEF SceneInit
<1>2. ObservationInv /\ [SceneNext]_sceneVars => ObservationInv'
  <2> SUFFICES ASSUME ObservationInv, [SceneNext]_sceneVars
               PROVE  ObservationInv'
    OBVIOUS
  <2>1. [ObservationNext]_obsVars
    BY DEF SceneNext, sceneVars
  <2> QED
    BY <2>1, ObservationSteps
<1> QED
  BY <1>1, <1>2, ReadersAreToldTheTruth, PTL DEF SceneSpec

(* The audit rows of recoveries and of sweeps tell what was done, whatever *)
(* fails in between (recovery/postgres.ts:41-268,                          *)
(* retention/postgres.ts:63-188).                                          *)
THEOREM AuditsAlwaysTell == SceneSpec => []AuditsTellWhatWasDone
<1> DEFINE All == RecoveryInv /\ Books /\ SweepInv /\ SweepBooks
<1>1. SceneInit => All
  BY RecoveryStarts, BooksStart, SweepInitSound, SweepBooksOpen DEF SceneInit
<1>2. All /\ [SceneNext]_sceneVars => All'
  <2> SUFFICES ASSUME RecoveryInv, Books, SweepInv, SweepBooks, [SceneNext]_sceneVars
               PROVE  RecoveryInv' /\ Books' /\ SweepInv' /\ SweepBooks'
    OBVIOUS
  <2>1. [RecoveryNext]_recoveryVars /\ [SweepNext]_sweepVars
    BY DEF SceneNext, sceneVars
  <2> QED
    BY <2>1, RecoveryStepKeeps, BooksKept, SweepSteps, SweepBooksSteps
<1>3. All => AuditsTellWhatWasDone
  BY BooksTell, SweepBooksTell DEF AuditsTellWhatWasDone
<1> QED
  BY <1>1, <1>2, <1>3, PTL DEF SceneSpec

-----------------------------------------------------------------------------
(***************************************************************************)
(* The release gate opens only for a recovery that has seen every run, for *)
(* any numbers of runs, commands, operators and audit rows and any batch   *)
(* size.  The invariant says what one batch covers, once it is selected:   *)
(* every unfinished run of before its cutoff between its cursor and the    *)
(* next one.  That the rows of an open gate leave no gap then follows      *)
(* without induction along the chain: the row with the greatest cursor     *)
(* below a run must cover it.                                              *)
(***************************************************************************)
USE ReadinessAssumption, AskedAssumption

GateRow == [request : RecoveryRequest, startedAt : Time,
        status : {"running", "completed", "failed"}, next : 0..LastRun,
        items : SUBSET RunNo, failed : BOOLEAN, completedAt : 0..LastTime]

Selecting == [phase : {"select"}, request : RecoveryRequest, startedAt : Time]
Beginning == [phase : {"begin"}, request : RecoveryRequest, batch : SUBSET RunNo,
              next : 0..LastRun, startedAt : Time]
Working == [phase : {"work"}, request : RecoveryRequest, batch : SUBSET RunNo,
            next : 0..LastRun, row : Nat]
Walker == {Nobody} \union Selecting \union Beginning \union Working

Types ==
  /\ clock \in Time
  /\ storedAt \in [RunNo -> 0..LastTime]
  /\ finished \subseteq RunNo
  /\ gateRows \in Seq(GateRow)
  /\ walker \in [RecoveryProcess -> Walker]

(* A run that is not over, was stored before the cutoff and lies between   *)
(* the batch's cursor and the next one is in the batch.                    *)
Owed(r, q) == r \in Unfinished /\ storedAt[r] < q.asOf /\ r > q.cursor
Covers(q, batch, next) ==
  q.mode = "all" =>
    /\ \A r \in RunNo : Owed(r, q) /\ (next = 0 \/ r <= next) => r \in batch
    /\ next # 0 => next > q.cursor

(* No cutoff lies in the future, so no run appears behind it.              *)
PastCutoffs ==
  /\ \A p \in RecoveryProcess : walker[p] # Nobody => walker[p].request.asOf <= clock
  /\ \A i \in RowNo : gateRows[i].request.asOf <= clock

BatchesCover ==
  \A p \in RecoveryProcess : walker[p].phase \in {"begin", "work"} =>
    Covers(walker[p].request, walker[p].batch, walker[p].next)

RowsOfWalkers ==
  \A p \in RecoveryProcess : walker[p].phase = "work" =>
    walker[p].row \in RowNo /\ gateRows[walker[p].row].request = walker[p].request

RowsCover ==
  \A i \in RowNo : gateRows[i].status = "completed" =>
    Covers(gateRows[i].request, gateRows[i].items, gateRows[i].next)

GateInv == Types /\ PastCutoffs /\ BatchesCover /\ RowsOfWalkers /\ RowsCover

-----------------------------------------------------------------------------
(* The chain.                                                              *)

LEMMA RootInChain ==
  ASSUME NEW root \in RowNo
  PROVE  root \in Chain(root)
BY DEF Chain

LEMMA ChainIsClosed ==
  ASSUME NEW root \in RowNo, NEW i \in Chain(root), NEW j \in RowNo, Follows(j, i)
  PROVE  j \in Chain(root)
BY DEF Chain, ClosedUnderFollows

LEMMA ChainIsSmallest ==
  ASSUME NEW root \in RowNo, NEW S, S \subseteq RowNo, root \in S, ClosedUnderFollows(S)
  PROVE  Chain(root) \subseteq S
BY DEF Chain

(* All batches of a chain were asked for with the same mode and cutoff.    *)
SameRequest(i, root) ==
  /\ gateRows[i].request.asOf = gateRows[root].request.asOf
  /\ gateRows[i].request.mode = gateRows[root].request.mode
  /\ gateRows[i].request.dryRun = gateRows[root].request.dryRun

LEMMA RowTypes ==
  ASSUME Types, NEW i \in RowNo
  PROVE  gateRows[i] \in GateRow
BY ElementOfSeq DEF Types, RowNo

LEMMA ChainAsksTheSame ==
  ASSUME Types, NEW root \in RowNo, NEW i \in Chain(root)
  PROVE  i \in RowNo /\ SameRequest(i, root)
<1> DEFINE S == {k \in RowNo : SameRequest(k, root)}
<1>1. root \in S
  BY DEF SameRequest
<1>2. ClosedUnderFollows(S)
  <2> SUFFICES ASSUME NEW k \in S, NEW j \in RowNo, Follows(j, k)
               PROVE  j \in S
    BY DEF ClosedUnderFollows
  <2>1. gateRows[k] \in GateRow /\ gateRows[k].request \in RecoveryRequest
    BY RowTypes DEF GateRow
  <2>2. gateRows[j].request = [gateRows[k].request EXCEPT !.cursor = gateRows[k].next]
    BY DEF Follows, Resumes
  <2> QED
    BY <2>1, <2>2 DEF SameRequest, RecoveryRequest
<1> QED
  BY <1>1, <1>2, ChainIsSmallest

(* Of the rows of C whose cursor is below r, one has the greatest cursor.  *)
LEMMA GreatestCursor ==
  ASSUME Types, NEW r \in RunNo, NEW D, D \subseteq RowNo, D # {},
         \A i \in D : gateRows[i].request.cursor < r
  PROVE  \E i \in D : \A j \in D :
           gateRows[j].request.cursor <= gateRows[i].request.cursor
<1> DEFINE Above(i) == {k \in RunNo : k > gateRows[i].request.cursor}
           T == {Above(i) : i \in D}
<1>1. \A i \in D : gateRows[i].request.cursor \in 0..LastRun
  BY RowTypes DEF GateRow, RecoveryRequest
<1>2. IsFiniteSet(RunNo)
  BY FS_Interval DEF RunNo
<1>3. T \subseteq FiniteSubsetsOf(RunNo) /\ T # {}
  <2>1. T \subseteq SUBSET RunNo /\ T # {}
    OBVIOUS
  <2> HIDE DEF T
  <2> QED
    BY <1>2, <2>1, FS_FiniteSubsetsOfFinite
<1> HIDE DEF Above
<1>4. PICK x \in T : \A y \in T : ~(<<y, x>> \in StrictSubsetOrdering(RunNo))
  <2> HIDE DEF T
  <2> QED
    BY <1>3, WFMin, FS_StrictSubsetOrderingWellFounded
<1>5. PICK i \in D : x = Above(i)
  BY <1>4
<1>6. ASSUME NEW j \in D, gateRows[j].request.cursor > gateRows[i].request.cursor
      PROVE  FALSE
  <2>1. gateRows[j].request.cursor \in Above(i) /\ gateRows[j].request.cursor \notin Above(j)
    BY <1>1, <1>6 DEF Above, RunNo
  <2>2. Above(j) \subseteq Above(i) /\ Above(i) \subseteq RunNo
    BY <1>1, <1>6 DEF Above, RunNo
  <2>3. <<Above(j), Above(i)>> \in StrictSubsetOrdering(RunNo)
    BY <2>1, <2>2 DEF StrictSubsetOrdering
  <2> QED
    BY <1>4, <1>5, <2>3
<1> QED
  BY <1>1, <1>6

(* An open gate leaves out nothing.                                        *)
LEMMA InvariantImpliesSeen ==
  ASSUME GateInv
  PROVE  OpenGateMeansAllWereSeen
<1> SUFFICES ASSUME NEW root \in RowNo, GateOpens(root), NEW r \in Unfinished,
                    storedAt[r] < gateRows[root].request.asOf
             PROVE  \E i \in RowNo :
                      /\ gateRows[i].request.asOf = gateRows[root].request.asOf
                      /\ gateRows[i].request.dryRun = gateRows[root].request.dryRun
                      /\ gateRows[i].status = "completed" /\ ~gateRows[i].failed
                      /\ r \in gateRows[i].items
  BY DEF OpenGateMeansAllWereSeen
<1> DEFINE C == Chain(root)
           D == {i \in C : gateRows[i].request.cursor < r}
<1>1. Types /\ RowsCover /\ r \in RunNo
  BY DEF GateInv, Unfinished
<1>2. root \in C /\ \A i \in C : i \in RowNo /\ SameRequest(i, root)
  BY <1>1, RootInChain, ChainAsksTheSame
<1>3. /\ gateRows[root].request.mode = "all" /\ gateRows[root].request.cursor = 0
      /\ \A i \in C : gateRows[i].status = "completed" /\ ~gateRows[i].failed
      /\ \A i \in C : gateRows[i].next # 0 => \E j \in C : Resumes(j, i)
  BY DEF GateOpens, CanBeRoot, ChainEnds
<1> HIDE DEF C
<1>4. root \in D
  BY <1>1, <1>2, <1>3 DEF RunNo
<1>5. PICK i \in D : \A j \in D : gateRows[j].request.cursor <= gateRows[i].request.cursor
  <2>1. D \subseteq RowNo /\ D # {} /\ \A k \in D : gateRows[k].request.cursor < r
    BY <1>2, <1>4
  <2> HIDE DEF D
  <2> QED
    BY <1>1, <2>1, GreatestCursor
<1>6. /\ gateRows[i] \in GateRow /\ gateRows[i].request \in RecoveryRequest
      /\ gateRows[i].next \in 0..LastRun
  BY <1>1, <1>2, RowTypes DEF GateRow
<1>7. Covers(gateRows[i].request, gateRows[i].items, gateRows[i].next)
  BY <1>1, <1>2, <1>3 DEF RowsCover
<1>8. Owed(r, gateRows[i].request) /\ gateRows[i].request.mode = "all"
  BY <1>2, <1>3, <1>6 DEF Owed, SameRequest, RecoveryRequest, RunNo
<1>9. gateRows[i].next = 0 \/ r <= gateRows[i].next
  <2>1. SUFFICES ASSUME gateRows[i].next # 0, gateRows[i].next < r
                 PROVE  FALSE
    BY <1>1, <1>6 DEF RunNo
  <2>2. gateRows[i].next > gateRows[i].request.cursor
    BY <1>7, <1>8, <2>1 DEF Covers
  <2>3. PICK j \in C : Resumes(j, i)
    BY <1>3, <2>1
  <2>4. gateRows[j].request.cursor = gateRows[i].next
    BY <1>6, <2>3 DEF Resumes, RecoveryRequest
  <2>5. j \in D
    BY <2>1, <2>4
  <2> QED
    BY <1>5, <1>6, <2>2, <2>4, <2>5 DEF RecoveryRequest
<1>10. r \in gateRows[i].items
  BY <1>1, <1>7, <1>8, <1>9 DEF Covers
<1> QED
  BY <1>2, <1>3, <1>10 DEF SameRequest

-----------------------------------------------------------------------------
(* The invariant is inductive.                                             *)

LEMMA InitEstablishes == ReadinessInit => GateInv
<1> SUFFICES ASSUME ReadinessInit PROVE GateInv
  OBVIOUS
<1>1. Types
  BY EmptySeq DEF ReadinessInit, Types, Walker, Time
<1>2. RowNo = {}
  BY EmptySeq DEF ReadinessInit, RowNo
<1>3. \A p \in RecoveryProcess : walker[p] = Nobody /\ walker[p].phase = "idle"
  BY DEF ReadinessInit, Nobody
<1> QED
  BY <1>1, <1>2, <1>3 DEF GateInv, PastCutoffs, BatchesCover, RowsOfWalkers, RowsCover

(* No step makes a run that was stored before now appear.                  *)
RunsStay ==
  /\ clock <= clock'
  /\ \A r \in RunNo : r \in Unfinished' /\ storedAt'[r] < clock =>
       r \in Unfinished /\ storedAt'[r] = storedAt[r]

LEMMA QuietRuns ==
  ASSUME Types, UNCHANGED <<clock, storedAt, finished>>
  PROVE  RunsStay /\ Unfinished' = Unfinished
BY DEF Types, RunsStay, Unfinished, Time

WorldTypes == clock \in Time /\ storedAt \in [RunNo -> 0..LastTime] /\ finished \subseteq RunNo

LEMMA WorldMoves ==
  ASSUME Types, (\E r \in RunNo : RunArrives(r) \/ RunEnds(r)) \/ ClockTicks
  PROVE  RunsStay /\ WorldTypes' /\ UNCHANGED <<gateRows, walker>>
<1>1. ASSUME NEW r \in RunNo, RunArrives(r)
      PROVE  RunsStay /\ WorldTypes'
  BY <1>1 DEF RunArrives, Types, WorldTypes, RunsStay, Unfinished, Time
<1>2. ASSUME NEW r \in RunNo, RunEnds(r)
      PROVE  RunsStay /\ WorldTypes'
  BY <1>2 DEF RunEnds, Types, WorldTypes, RunsStay, Unfinished, Time
<1>3. ASSUME ClockTicks
      PROVE  RunsStay /\ WorldTypes'
  BY <1>3 DEF ClockTicks, Types, WorldTypes, RunsStay, Unfinished, Time
<1> QED
  BY <1>1, <1>2, <1>3 DEF RunArrives, RunEnds, ClockTicks

(* What a batch covers it goes on to cover.                                *)
LEMMA CoversStays ==
  ASSUME Types, WorldTypes', RunsStay, NEW q \in RecoveryRequest, q.asOf <= clock,
         NEW batch, NEW next, Covers(q, batch, next)
  PROVE  Covers(q, batch, next)'
<1>1. ASSUME NEW r \in RunNo, Owed(r, q)'
      PROVE  Owed(r, q)
  <2>1. /\ r \in Unfinished' /\ storedAt'[r] < q.asOf /\ r > q.cursor
        /\ storedAt'[r] \in Int /\ q.asOf \in Int /\ clock \in Int
    BY <1>1 DEF Owed, Types, WorldTypes, RecoveryRequest, Time
  <2>2. storedAt'[r] < clock
    BY <2>1
  <2> QED
    BY <2>1, <2>2 DEF Owed, RunsStay
<1> QED
  BY <1>1 DEF Covers

(* The request of a process that has one, and of a row.                    *)
LEMMA RequestTypes ==
  ASSUME Types
  PROVE  /\ \A p \in RecoveryProcess : walker[p] # Nobody =>
              walker[p].request \in RecoveryRequest
         /\ \A p \in RecoveryProcess : walker[p].phase # "idle" => walker[p] # Nobody
         /\ \A i \in RowNo : gateRows[i].request \in RecoveryRequest
BY RowTypes DEF Types, Walker, Nobody, Selecting, Beginning, Working, GateRow

LEMMA CutoffsStay ==
  ASSUME Types, WorldTypes', RunsStay, NEW q \in RecoveryRequest, q.asOf <= clock
  PROVE  q.asOf <= clock'
BY DEF Types, WorldTypes, RunsStay, RecoveryRequest, Time

LEMMA WorldPreserves ==
  ASSUME GateInv, RunsStay, WorldTypes', UNCHANGED <<gateRows, walker>>
  PROVE  GateInv'
<1>1. Types /\ Types'
  BY DEF GateInv, Types, WorldTypes
<1>2. PastCutoffs'
  <2>1. \A p \in RecoveryProcess : walker[p] # Nobody => walker[p].request.asOf <= clock'
    BY <1>1, RequestTypes, CutoffsStay DEF GateInv, PastCutoffs
  <2>2. \A i \in RowNo : gateRows[i].request.asOf <= clock'
    BY <1>1, RequestTypes, CutoffsStay DEF GateInv, PastCutoffs
  <2> QED
    BY <2>1, <2>2 DEF PastCutoffs, RowNo
<1>3. BatchesCover'
  <2> SUFFICES ASSUME NEW p \in RecoveryProcess, walker[p].phase \in {"begin", "work"}
               PROVE  Covers(walker[p].request, walker[p].batch, walker[p].next)'
    BY DEF BatchesCover
  <2>1. PICK q, batch, next :
          /\ q \in RecoveryRequest /\ q = walker[p].request
          /\ batch = walker[p].batch /\ next = walker[p].next
    BY <1>1, RequestTypes
  <2>2. q.asOf <= clock /\ Covers(q, batch, next)
    BY <1>1, <2>1, RequestTypes DEF GateInv, PastCutoffs, BatchesCover
  <2>3. Covers(q, batch, next)'
    BY <1>1, <2>1, <2>2, CoversStays
  <2> QED
    BY <2>1, <2>3
<1>4. RowsOfWalkers'
  BY DEF GateInv, RowsOfWalkers, RowNo
<1>5. RowsCover'
  <2> SUFFICES ASSUME NEW i \in RowNo, gateRows[i].status = "completed"
               PROVE  Covers(gateRows[i].request, gateRows[i].items, gateRows[i].next)'
    BY DEF RowsCover, RowNo
  <2>1. PICK q, batch, next :
          /\ q \in RecoveryRequest /\ q = gateRows[i].request
          /\ batch = gateRows[i].items /\ next = gateRows[i].next
    BY <1>1, RequestTypes
  <2>2. q.asOf <= clock /\ Covers(q, batch, next)
    BY <2>1 DEF GateInv, PastCutoffs, RowsCover
  <2>3. Covers(q, batch, next)'
    BY <1>1, <2>1, <2>2, CoversStays
  <2> QED
    BY <2>1, <2>3
<1> QED
  BY <1>1, <1>2, <1>3, <1>4, <1>5 DEF GateInv

-----------------------------------------------------------------------------
(* Steps of the commands.                                                  *)

(* What has to hold of a process and of a row.                             *)
GoodWalker(w) ==
  /\ w \in Walker
  /\ w # Nobody => w.request.asOf <= clock
  /\ w.phase \in {"begin", "work"} => Covers(w.request, w.batch, w.next)
GoodRow(x) ==
  /\ x \in GateRow
  /\ x.request.asOf <= clock
  /\ x.status = "completed" => Covers(x.request, x.items, x.next)

LEMMA GoodAll ==
  ASSUME GateInv
  PROVE  /\ \A p \in RecoveryProcess : GoodWalker(walker[p])
         /\ \A i \in RowNo : GoodRow(gateRows[i])
BY RowTypes DEF GateInv, Types, PastCutoffs, BatchesCover, RowsCover, GoodWalker, GoodRow

(* While runs and clock stand still, a command moves and its rows with it. *)
CommandMoves(p, w) ==
  /\ UNCHANGED <<clock, storedAt, finished>>
  /\ walker' = [walker EXCEPT ![p] = w]
  /\ gateRows' \in Seq(GateRow)
  /\ RowNo \subseteq RowNo'
  /\ \A i \in RowNo : gateRows'[i].request = gateRows[i].request
  /\ \A i \in RowNo' : GoodRow(gateRows'[i])
  /\ w.phase = "work" => w.row \in RowNo' /\ gateRows'[w.row].request = w.request

LEMMA QuietCovers ==
  ASSUME Types, UNCHANGED <<storedAt, finished>>, NEW q, NEW batch, NEW next,
         Covers(q, batch, next)
  PROVE  Covers(q, batch, next)'
BY DEF Covers, Owed, Unfinished

LEMMA CommandPreserves ==
  ASSUME GateInv, NEW p \in RecoveryProcess, NEW w, GoodWalker(w), CommandMoves(p, w)
  PROVE  GateInv'
<1>1. Types /\ Types'
  BY DEF GateInv, Types, CommandMoves, GoodWalker
<1>2. \A o \in RecoveryProcess : GoodWalker(walker'[o])
  BY <1>1, GoodAll DEF CommandMoves, Types
<1>3. PastCutoffs'
  BY <1>2 DEF PastCutoffs, CommandMoves, GoodRow, GoodWalker
<1>4. BatchesCover'
  <2> SUFFICES ASSUME NEW o \in RecoveryProcess, walker'[o].phase \in {"begin", "work"}
               PROVE  Covers(walker[o].request, walker[o].batch, walker[o].next)'
    BY DEF BatchesCover
  <2>1. PICK q, batch, next :
          q = walker'[o].request /\ batch = walker'[o].batch /\ next = walker'[o].next
    OBVIOUS
  <2>2. Covers(q, batch, next)
    BY <1>2, <2>1 DEF GoodWalker
  <2>3. Covers(q, batch, next)'
    BY <1>1, <2>2, QuietCovers DEF CommandMoves
  <2> QED
    BY <2>1, <2>3
<1>5. RowsOfWalkers'
  <2> SUFFICES ASSUME NEW o \in RecoveryProcess, walker'[o].phase = "work"
               PROVE  /\ walker'[o].row \in RowNo'
                      /\ gateRows'[walker'[o].row].request = walker'[o].request
    BY DEF RowsOfWalkers
  <2>1. CASE o = p
    BY <1>1, <2>1 DEF CommandMoves, Types
  <2>2. CASE o # p
    <3>1. walker'[o] = walker[o]
      BY <1>1, <2>2 DEF CommandMoves, Types
    <3>2. walker[o].row \in RowNo /\ gateRows[walker[o].row].request = walker[o].request
      BY <3>1 DEF GateInv, RowsOfWalkers
    <3> QED
      BY <3>1, <3>2 DEF CommandMoves
  <2> QED
    BY <2>1, <2>2
<1>6. RowsCover'
  <2> SUFFICES ASSUME NEW i \in RowNo', gateRows'[i].status = "completed"
               PROVE  Covers(gateRows[i].request, gateRows[i].items, gateRows[i].next)'
    BY DEF RowsCover
  <2>1. PICK q, batch, next :
          q = gateRows'[i].request /\ batch = gateRows'[i].items /\ next = gateRows'[i].next
    OBVIOUS
  <2>2. Covers(q, batch, next)
    BY <2>1 DEF GoodRow, CommandMoves
  <2>3. Covers(q, batch, next)'
    BY <1>1, <2>2, QuietCovers DEF CommandMoves
  <2> QED
    BY <2>1, <2>3
<1> QED
  BY <1>1, <1>3, <1>4, <1>5, <1>6 DEF GateInv

(* A step of a command that leaves the rows alone.                         *)
LEMMA RowsStay ==
  ASSUME GateInv, NEW p \in RecoveryProcess, NEW w, GoodWalker(w), w.phase # "work",
         walker' = [walker EXCEPT ![p] = w], UNCHANGED <<clock, storedAt, finished, gateRows>>
  PROVE  GateInv'
<1>1. CommandMoves(p, w)
  BY GoodAll DEF CommandMoves, GateInv, Types, RowNo
<1> QED
  BY <1>1, CommandPreserves

LEMMA StartPreserves ==
  ASSUME GateInv, NEW p \in RecoveryProcess, StartCommand(p)
  PROVE  GateInv'
<1>1. PICK asked \in Asked :
        /\ asked.asOf <= clock
        /\ walker' = [walker EXCEPT ![p] =
             [phase |-> "select", request |-> asked, startedAt |-> clock]]
  BY DEF StartCommand
<1>2. PICK w : w = [phase |-> "select", request |-> asked, startedAt |-> clock]
  OBVIOUS
<1>3. GoodWalker(w) /\ w.phase # "work"
  BY <1>1, <1>2 DEF GoodWalker, Walker, Selecting, GateInv, Types
<1> QED
  BY <1>1, <1>2, <1>3, RowsStay DEF StartCommand

LEMMA VanishPreserves ==
  ASSUME GateInv, NEW p \in RecoveryProcess, CommandVanishes(p)
  PROVE  GateInv'
<1>1. GoodWalker(Nobody) /\ Nobody.phase # "work"
  BY DEF GoodWalker, Walker, Nobody
<1> QED
  BY <1>1, RowsStay DEF CommandVanishes

(* The selection of one batch leaves no gap.                               *)
LEMMA SelectionCovers ==
  ASSUME Types, NEW q \in RecoveryRequest, NEW S \in Selectable(q),
         NEW next \in 0..LastRun, IsNextCursor(S, next)
  PROVE  FirstOf(S) \subseteq RunNo /\ Covers(q, FirstOf(S), next)
<1>1. S \subseteq RunNo /\ FirstOf(S) \subseteq S /\ \A r \in S : r > q.cursor
  BY DEF Selectable, FirstOf, Unfinished
<1>2. ASSUME q.mode = "all", NEW r \in RunNo, Owed(r, q), next = 0 \/ r <= next
      PROVE  r \in FirstOf(S)
  <2>1. r \in S
    BY <1>2 DEF Selectable, Owed
  <2>2. CASE FirstOf(S) # S
    <3>1. next \in FirstOf(S) /\ next \in S /\ r <= next
      BY <1>1, <1>2, <2>2 DEF IsNextCursor, RunNo
    <3>2. Cardinality({k \in S : k <= next}) <= ReadyBatchSize
      BY <3>1 DEF FirstOf
    <3>3. {k \in S : k <= r} \in SUBSET {k \in S : k <= next}
      <4>1. ASSUME NEW k \in S, k <= r PROVE k <= next
        <5>1. k \in Int /\ r \in Int /\ next \in Int /\ r <= next
          BY <1>1, <3>1 DEF RunNo
        <5> QED
          BY <4>1, <5>1
      <4> QED
        BY <4>1
    <3>4. IsFiniteSet({k \in S : k <= next})
      <4>1. IsFiniteSet(RunNo)
        BY FS_Interval DEF RunNo
      <4>2. {k \in S : k <= next} \in SUBSET RunNo
        BY <1>1
      <4> QED
        BY <4>1, <4>2, FS_Subset
    <3>5. /\ Cardinality({k \in S : k <= r}) <= Cardinality({k \in S : k <= next})
          /\ Cardinality({k \in S : k <= r}) \in Nat
          /\ Cardinality({k \in S : k <= next}) \in Nat
      BY <3>3, <3>4, FS_Subset, FS_CardinalityType
    <3>6. Cardinality({k \in S : k <= r}) <= ReadyBatchSize
      BY <3>2, <3>5
    <3> QED
      BY <2>1, <3>6 DEF FirstOf
  <2> QED
    BY <2>1, <2>2
<1>3. next # 0 => next > q.cursor
  BY <1>1 DEF IsNextCursor
<1> QED
  BY <1>1, <1>2, <1>3 DEF Covers

LEMMA SelectPreserves ==
  ASSUME GateInv, NEW p \in RecoveryProcess, SelectBatch(p)
  PROVE  GateInv'
<1>1. PICK q \in RecoveryRequest : q = walker[p].request
  BY RequestTypes DEF SelectBatch, GateInv
<1>2. PICK S \in Selectable(q), next \in 0..LastRun :
        /\ IsNextCursor(S, next)
        /\ walker' = [walker EXCEPT ![p] =
             [phase |-> "begin", request |-> walker[p].request, batch |-> FirstOf(S),
              next |-> next, startedAt |-> walker[p].startedAt]]
  BY <1>1 DEF SelectBatch, GateInv, Types
<1>3. PICK w : w = [phase |-> "begin", request |-> q, batch |-> FirstOf(S),
                    next |-> next, startedAt |-> walker[p].startedAt]
  OBVIOUS
<1>4. FirstOf(S) \subseteq RunNo /\ Covers(q, FirstOf(S), next)
  BY <1>2, SelectionCovers DEF GateInv
<1>5. walker[p] \in Selecting /\ walker[p].startedAt \in Time /\ q.asOf <= clock
  BY <1>1, GoodAll DEF GoodWalker, SelectBatch, Walker, Nobody, Selecting, Beginning, Working
<1>6. w \in Beginning /\ w.phase = "begin"
  BY <1>3, <1>4, <1>5 DEF Beginning
<1>7. GoodWalker(w)
  BY <1>3, <1>4, <1>5, <1>6 DEF GoodWalker, Walker
<1> QED
  BY <1>1, <1>2, <1>3, <1>6, <1>7, RowsStay DEF SelectBatch

(* A row is written: appended, or replaced where the process works.        *)
LEMMA BeginPreserves ==
  ASSUME GateInv, NEW p \in RecoveryProcess, BeginRow(p)
  PROVE  GateInv'
<1> DEFINE x == [request |-> walker[p].request, startedAt |-> walker[p].startedAt,
                 status |-> "running", next |-> 0, items |-> {},
                 failed |-> FALSE, completedAt |-> 0]
           w == [phase |-> "work", request |-> walker[p].request, batch |-> walker[p].batch,
                 next |-> walker[p].next, row |-> Len(gateRows) + 1]
<1>1. /\ walker[p] \in Beginning /\ walker[p].request.asOf <= clock
      /\ Covers(walker[p].request, walker[p].batch, walker[p].next)
  BY GoodAll DEF GoodWalker, BeginRow, Walker, Nobody, Selecting, Beginning, Working
<1>2. x \in GateRow /\ GoodRow(x)
  BY <1>1 DEF GoodRow, GateRow, Beginning
<1>3. gateRows \in Seq(GateRow) /\ Len(gateRows) \in Nat
  BY LenProperties DEF GateInv, Types
<1>4. w \in Working /\ w.phase = "work" /\ GoodWalker(w)
  BY <1>1, <1>3 DEF Working, Beginning, GoodWalker, Walker
<1>5. /\ gateRows' = Append(gateRows, x)
      /\ walker' = [walker EXCEPT ![p] = w]
      /\ UNCHANGED <<clock, storedAt, finished>>
  BY DEF BeginRow
<1> HIDE DEF x, w
<1>6. /\ gateRows' \in Seq(GateRow) /\ Len(gateRows') = Len(gateRows) + 1
      /\ \A i \in 1..Len(gateRows) : gateRows'[i] = gateRows[i]
      /\ gateRows'[Len(gateRows) + 1] = x
  BY <1>2, <1>3, <1>5, AppendProperties
<1>7. RowNo \subseteq RowNo' /\ RowNo' = RowNo \union {Len(gateRows) + 1}
  BY <1>3, <1>6 DEF RowNo
<1>8. w.row = Len(gateRows) + 1 /\ w.request = x.request
  BY DEF w, x
<1>9. CommandMoves(p, w)
  BY <1>2, <1>5, <1>6, <1>7, <1>8, GoodAll DEF CommandMoves, RowNo
<1> QED
  BY <1>4, <1>9, CommandPreserves

LEMMA RowReplaced ==
  ASSUME GateInv, NEW p \in RecoveryProcess, walker[p].phase = "work",
         NEW x, GoodRow(x), x.request = walker[p].request,
         gateRows' = [gateRows EXCEPT ![walker[p].row] = x],
         UNCHANGED <<clock, storedAt, finished>>,
         NEW w, GoodWalker(w), w.phase # "work", walker' = [walker EXCEPT ![p] = w]
  PROVE  GateInv'
<1>1. gateRows \in Seq(GateRow) /\ x \in GateRow
  BY DEF GateInv, Types, GoodRow
<1>2. walker[p].row \in RowNo /\ gateRows[walker[p].row].request = x.request
  BY DEF GateInv, RowsOfWalkers
<1>3. /\ gateRows' \in Seq(GateRow) /\ RowNo' = RowNo
      /\ \A i \in RowNo : gateRows'[i] = IF i = walker[p].row THEN x ELSE gateRows[i]
  BY <1>1, <1>2, ExceptSeq DEF RowNo
<1>4. CommandMoves(p, w)
  BY <1>2, <1>3, GoodAll DEF CommandMoves
<1> QED
  BY <1>4, CommandPreserves

LEMMA CompletePreserves ==
  ASSUME GateInv, NEW p \in RecoveryProcess, CompleteRow(p)
  PROVE  GateInv'
<1>1. /\ walker[p].phase = "work" /\ walker[p] \in Working
      /\ walker[p].request.asOf <= clock
      /\ Covers(walker[p].request, walker[p].batch, walker[p].next)
  BY GoodAll DEF GoodWalker, CompleteRow, Walker, Nobody, Selecting, Beginning, Working
<1>2. walker[p].row \in RowNo /\ gateRows[walker[p].row].request = walker[p].request
  BY <1>1 DEF GateInv, RowsOfWalkers
<1>3. gateRows[walker[p].row] \in GateRow /\ clock \in Time
  BY <1>2, RowTypes DEF GateInv, Types
<1>4. PICK someFailed \in BOOLEAN :
        gateRows' = [gateRows EXCEPT ![walker[p].row] =
          [gateRows[walker[p].row] EXCEPT
             !.status = "completed", !.next = walker[p].next, !.items = walker[p].batch,
             !.failed = someFailed, !.completedAt = clock]]
  BY <1>2, <1>3 DEF CompleteRow
<1>5. PICK x : x = [gateRows[walker[p].row] EXCEPT
             !.status = "completed", !.next = walker[p].next, !.items = walker[p].batch,
             !.failed = someFailed, !.completedAt = clock]
  OBVIOUS
<1>6. /\ x \in GateRow /\ x.request = walker[p].request /\ x.items = walker[p].batch
      /\ x.next = walker[p].next
  <2>1. walker[p].next \in 0..LastRun /\ walker[p].batch \in SUBSET RunNo
    BY <1>1 DEF Working
  <2>2. clock \in 0..LastTime
    BY <1>3 DEF Time
  <2>3. PICK old \in GateRow : old = gateRows[walker[p].row]
    BY <1>3
  <2>4. PICK next \in 0..LastRun, batch \in SUBSET RunNo, now \in 0..LastTime :
          next = walker[p].next /\ batch = walker[p].batch /\ now = clock
    BY <2>1, <2>2
  <2>5. x = [old EXCEPT !.status = "completed", !.next = next, !.items = batch,
                        !.failed = someFailed, !.completedAt = now]
    BY <1>5, <2>3, <2>4
  <2>6. x \in GateRow
    BY <2>5 DEF GateRow
  <2>7. x.request = old.request /\ x.items = batch /\ x.next = next
    BY <2>5 DEF GateRow
  <2> QED
    BY <1>2, <2>3, <2>4, <2>6, <2>7
<1>7. GoodRow(x)
  BY <1>1, <1>6 DEF GoodRow
<1>8. CASE walker' = [walker EXCEPT ![p] = Nobody]
  <2>1. GoodWalker(Nobody) /\ Nobody.phase # "work"
    BY DEF GoodWalker, Walker, Nobody
  <2> QED
    BY <1>1, <1>4, <1>5, <1>6, <1>7, <1>8, <2>1, RowReplaced DEF CompleteRow
<1>9. CASE walker' = [walker EXCEPT ![p] =
             [phase |-> "select", startedAt |-> clock,
              request |-> [walker[p].request EXCEPT !.cursor = walker[p].next]]]
  <2>1. PICK q : q = [walker[p].request EXCEPT !.cursor = walker[p].next]
    OBVIOUS
  <2>2. q \in RecoveryRequest /\ q.asOf = walker[p].request.asOf
    BY <1>1, <2>1 DEF RecoveryRequest, Working
  <2>3. PICK w : w = [phase |-> "select", request |-> q, startedAt |-> clock]
    OBVIOUS
  <2>4. GoodWalker(w) /\ w.phase # "work"
    BY <1>1, <1>3, <2>2, <2>3 DEF GoodWalker, Walker, Selecting
  <2>5. walker' = [walker EXCEPT ![p] = w]
    BY <1>9, <2>1, <2>3
  <2> QED
    BY <1>1, <1>4, <1>5, <1>6, <1>7, <2>4, <2>5, RowReplaced DEF CompleteRow
<1> QED
  BY <1>8, <1>9 DEF CompleteRow, GateInv, Types

LEMMA FailPreserves ==
  ASSUME GateInv, NEW p \in RecoveryProcess, FailRow(p)
  PROVE  GateInv'
<1>1. walker[p].phase = "work"
  BY DEF FailRow
<1>2. walker[p].row \in RowNo /\ gateRows[walker[p].row].request = walker[p].request
  BY <1>1 DEF GateInv, RowsOfWalkers
<1>3. gateRows[walker[p].row] \in GateRow /\ GoodRow(gateRows[walker[p].row]) /\ clock \in Time
  BY <1>2, RowTypes, GoodAll DEF GateInv, Types
<1>4. PICK x : x = [gateRows[walker[p].row] EXCEPT !.status = "failed", !.completedAt = clock]
  OBVIOUS
<1>5. x \in GateRow /\ x.request = walker[p].request /\ x.status = "failed"
  <2>1. PICK now \in 0..LastTime : now = clock
    BY <1>3 DEF Time
  <2>2. PICK old \in GateRow : old = gateRows[walker[p].row]
    BY <1>3
  <2>3. x = [old EXCEPT !.status = "failed", !.completedAt = now]
    BY <1>4, <2>1, <2>2
  <2>4. x \in GateRow /\ x.request = old.request /\ x.status = "failed"
    BY <2>3 DEF GateRow
  <2> QED
    BY <1>2, <2>2, <2>4
<1>6. GoodRow(x)
  BY <1>2, <1>3, <1>5 DEF GoodRow
<1>7. gateRows' = [gateRows EXCEPT ![walker[p].row] = x]
  BY <1>2, <1>4 DEF FailRow, GateInv, Types
<1>8. GoodWalker(Nobody) /\ Nobody.phase # "work"
  BY DEF GoodWalker, Walker, Nobody
<1> QED
  BY <1>1, <1>5, <1>6, <1>7, <1>8, RowReplaced DEF FailRow

LEMMA NextPreserves ==
  ASSUME GateInv, [ReadinessNext]_readyVars
  PROVE  GateInv'
<1>1. CASE UNCHANGED readyVars
  BY <1>1, QuietRuns, WorldPreserves DEF readyVars, GateInv, Types, WorldTypes
<1>2. CASE (\E r \in RunNo : RunArrives(r) \/ RunEnds(r)) \/ ClockTicks
  BY <1>2, WorldMoves, WorldPreserves DEF GateInv
<1>3. ASSUME NEW p \in RecoveryProcess,
             \/ StartCommand(p) \/ SelectBatch(p) \/ BeginRow(p) \/ CompleteRow(p)
             \/ FailRow(p) \/ CommandVanishes(p)
      PROVE  GateInv'
  BY <1>3, StartPreserves, SelectPreserves, BeginPreserves, CompletePreserves,
     FailPreserves, VanishPreserves
<1> QED
  BY <1>1, <1>2, <1>3 DEF ReadinessNext

-----------------------------------------------------------------------------
(* While the gate is open, every run that was stored before the cutoff and *)
(* is not over was handled by a batch of that recovery                     *)
(* (process-runs/ops/postgres.ts:278-320, 448-544).                        *)
THEOREM GateIsSound == ReadinessSpec => []OpenGateMeansAllWereSeen
<1>1. ReadinessInit => GateInv
  BY InitEstablishes
<1>2. GateInv /\ [ReadinessNext]_readyVars => GateInv'
  BY NextPreserves
<1>3. GateInv => OpenGateMeansAllWereSeen
  BY InvariantImpliesSeen
<1> QED
  BY <1>1, <1>2, <1>3, PTL DEF ReadinessSpec

-----------------------------------------------------------------------------
(***************************************************************************)
(* The processes.  The invariant says of each runtime what its phase       *)
(* allows: its connections until it releases them, a timer only while it   *)
(* is open, a pass only until it has stopped.  A close() goes through its  *)
(* stages in order, and what is untouched, settling or exited follows from *)
(* the stages of the two signals.  No induction is needed over the number  *)
(* of requests, batches or jobs.                                           *)
(***************************************************************************)
USE RolesAssumption


Phase == {"built", "open", "stopping", "draining", "cancelled", "releasing", "closed"}

Stage == {"none", "server", "resources", "settling", "done"}

Connection == {"queue", "pool", "observation"}

PartState == [phase : Phase, forced : BOOLEAN, failed : BOOLEAN]

LoopState == [state : {"off", "active", "timer"}, passes : Nat]

SweepState == [at : 0..Batches, kept : 0..Batches, left : 0..BatchesPerSweep,
               done : SUBSET (1..Batches), lastDone : SUBSET (1..Batches)]

JobState == [state : {"none", "running", "recording"}, taken : Nat]

RequestState == {"none", "checking", "ready", "not ready", "executing", "querying",
                 "answered"}

RoleTypes ==
  /\ role \in Roles
  /\ life \in {"starting", "serving", "exited", "killed"}
  /\ exitCode \in {-1, 0, 1}
  /\ server \in {"down", "open", "refusing", "closed"}
  /\ closing \in [Signal -> Stage]
  /\ part \in [PartsOf(role) -> PartState]
  /\ loop \in [LoopsOf(role) -> LoopState]
  /\ sweep \in [PartsOf(role) -> SweepState]
  /\ job \in [PartsOf(role) -> JobState]
  /\ held \subseteq PartsOf(role) \X Connection
  /\ request \in [Request -> RequestState]
  /\ checks \subseteq Needs(role)
  /\ working \subseteq Dependency
  /\ roleFaults \in 0..RoleFaultBound

(* Before it releases them a runtime has its connections, and it releases  *)
(* them with a job under way only when it was told to.                     *)
PartSound(p) ==
  /\ part[p].phase \notin {"releasing", "closed"} =>
       ConnectionsOf(role, p) \subseteq HeldBy(p)
  /\ part[p].phase = "closed" => HeldBy(p) = {}
  /\ ~Consumes(role) => job[p].state = "none"
  /\ (part[p].phase \in {"releasing", "closed"} /\ job[p].state # "none") =>
       part[p].forced

(* A timer is set only while the runtime is open, and no pass outlasts its *)
(* stopping.                                                               *)
LoopSound(l) ==
  /\ part[l[1]].phase # "open" => loop[l].state # "timer"
  /\ part[l[1]].phase \notin {"open", "stopping"} => loop[l].state # "active"

(* What a sweep has examined as of the time it began with reaches to where *)
(* it is and to where the next one goes on.                                *)
SweepSound(p) ==
  /\ 1..sweep[p].at \subseteq sweep[p].done
  /\ 1..sweep[p].kept \subseteq sweep[p].done
  /\ sweep[p].lastDone \in {{}, 1..Batches}

Untouched(p) == part[p].phase \in {"built", "open"}

(* The API waits for its server only at the first of two signals.          *)
BothSignalled == role = "api" /\ \A s \in Signal : closing[s] # "none"

ClosingOrder ==
  /\ life = "starting" =>
       /\ server = "down"
       /\ \A s \in Signal : closing[s] = "none"
       /\ \A p \in PartsOf(role) : Untouched(p)
  /\ life = "serving" =>
       /\ \A p \in PartsOf(role) : part[p].phase # "built"
       /\ server # "down"
       /\ server = "open" <=> \A s \in Signal : closing[s] = "none"
  /\ server = "closed" => \A q \in Request : ~InFlight(q)
  /\ (\E s \in Signal : closing[s] \in {"resources", "settling"}) =>
       server = "closed" \/ BothSignalled
  /\ (\E p \in PartsOf(role) : ~Untouched(p)) =>
       /\ server = "closed" \/ BothSignalled
       /\ \/ \E s \in Signal : closing[s] = "settling"
          \/ \A p \in PartsOf(role) : part[p].phase = "closed" /\ ~part[p].failed
          \/ life = "exited"
  /\ life = "exited" =>
       /\ held = {}
       /\ exitCode = 0 => \A p \in PartsOf(role) : ~part[p].failed

RolesInv ==
  /\ RoleTypes
  /\ \A p \in PartsOf(role) : PartSound(p)
  /\ \A l \in LoopsOf(role) : LoopSound(l)
  /\ \A p \in PartsOf(role) : SweepSound(p)
  /\ ClosingOrder

(* What the monitor knows it has been told while it was looking.           *)
MonitorTypes ==
  /\ monitor \in {"waiting", "probing", "reported", "done"}
  /\ probe \in [{"role", "redis"} -> Status \cup {"none", "asking", "asked"}]
  /\ code \in {-1, 0, 1}

Answered ==
  /\ request["probe"] # "checking" => checks = {}
  /\ request["probe"] \in {"checking", "ready"} /\ monitor = "probing" =>
       {"serving"} \cup (Needs(role) \ checks) \subseteq seen

Progress ==
  /\ monitor = "waiting" => request["probe"] = "none"
  /\ monitor \in {"waiting", "done"} =>
       probe.role \notin {"asking", "asked"} /\ probe.redis \notin {"asking", "asked"}
  /\ monitor = "reported" => probe.role \in Status /\ probe.redis \in Status
  /\ monitor # "done" => code = -1

Believed ==
  /\ monitor \in {"probing", "reported"} /\ probe.role = "available" =>
       {"serving"} \cup Needs(role) \subseteq seen
  /\ monitor \in {"probing", "reported"} /\ probe.redis = "available" =>
       "safe" \in seen

MonitorInv ==
  /\ MonitorTypes /\ Answered /\ Progress /\ Believed /\ AvailableWasSeen


LEMMA LoopPlaces ==
  ASSUME NEW r
  PROVE  /\ \A l \in LoopsOf(r) : /\ l[1] \in PartsOf(r) /\ l[2] \in LoopNames(r)
                                  /\ l = <<l[1], l[2]>>
         /\ \A p \in PartsOf(r), n \in LoopNames(r) :
              /\ <<p, n>> \in LoopsOf(r)
              /\ <<p, n>>[1] = p /\ <<p, n>>[2] = n
BY DEF LoopsOf

LEMMA SomeParts ==
  ASSUME NEW r
  PROVE  PartsOf(r) # {}
BY DEF PartsOf

LEMMA NeedsAreDependencies ==
  ASSUME NEW r
  PROVE  Needs(r) \subseteq Dependency
BY DEF Needs, Dependency

LEMMA TwoSignals ==
  ASSUME NEW s \in Signal, NEW t \in Signal, s # t
  PROVE  \A u \in Signal : u = s \/ u = t
BY DEF Signal

LEMMA ProbeRequest == "probe" \in Request /\ "probe" \notin Client /\ Client \subseteq Request
BY DEF Request

LEMMA PhaseChange ==
  ASSUME NEW w \in PartState, NEW f \in Phase
  PROVE  /\ [w EXCEPT !.phase = f] \in PartState
         /\ [w EXCEPT !.phase = f].phase = f
         /\ [w EXCEPT !.phase = f].forced = w.forced
         /\ [w EXCEPT !.phase = f].failed = w.failed
BY DEF PartState

LEMMA PartFields ==
  ASSUME NEW w \in PartState
  PROVE  w.phase \in Phase /\ w.forced \in BOOLEAN /\ w.failed \in BOOLEAN
BY DEF PartState

LEMMA SweepFields ==
  ASSUME NEW w \in SweepState
  PROVE  /\ w.at \in 0..Batches /\ w.kept \in 0..Batches
         /\ w.left \in 0..BatchesPerSweep
         /\ w.done \subseteq 1..Batches /\ w.lastDone \subseteq 1..Batches
BY DEF SweepState

LEMMA BeginSweepSound ==
  ASSUME NEW w \in SweepState
  PROVE  /\ BeginSweep(w) \in SweepState
         /\ BeginSweep(w).at = w.kept
         /\ BeginSweep(w).kept = w.kept
         /\ BeginSweep(w).lastDone = w.lastDone
         /\ 1..w.kept \subseteq w.done =>
              1..BeginSweep(w).kept \subseteq BeginSweep(w).done
<1> DEFINE n == IF w.kept = 0 THEN {} ELSE w.done
<1>1. /\ w.kept \in 0..Batches /\ BatchesPerSweep \in 0..BatchesPerSweep
      /\ n \in SUBSET (1..Batches)
  BY SweepFields
<1>2. BeginSweep(w) = [w EXCEPT !.at = w.kept, !.left = BatchesPerSweep, !.done = n]
  BY DEF BeginSweep
<1>3. BeginSweep(w) = [at |-> w.kept, kept |-> w.kept, left |-> BatchesPerSweep,
                       done |-> n, lastDone |-> w.lastDone]
  BY <1>2 DEF SweepState
<1>4. w.kept = 0 => 1..w.kept = {}
  OBVIOUS
<1> QED
  BY <1>1, <1>3, <1>4, SweepFields DEF SweepState

LEMMA StartKeeps ==
  ASSUME RolesInv, Start
  PROVE  RolesInv'
<1>r. role' = role
  BY DEF Start, BeginSweep
<1>e. ASSUME NEW x \in PartsOf(role)
      PROVE  /\ part'[x] \in PartState /\ part'[x].phase = "open"
             /\ part'[x].forced = part[x].forced /\ part'[x].failed = part[x].failed
  BY PhaseChange DEF Start, RolesInv, RoleTypes, Phase
<1>t5. part' \in [PartsOf(role) -> PartState]
  BY <1>e DEF Start
<1>t6. loop' \in [LoopsOf(role) -> LoopState]
  BY LoopPlaces DEF Start, BeginSweep, RolesInv, RoleTypes, LoopState
<1>t7. sweep' \in [PartsOf(role) -> SweepState]
  BY BeginSweepSound DEF Start, RolesInv, RoleTypes
<1>t. RoleTypes'
  BY <1>r, <1>t5, <1>t6, <1>t7 DEF Start, BeginSweep, RolesInv, RoleTypes
<1>p. ASSUME NEW x \in PartsOf(role)
      PROVE  PartSound(x)'
  BY <1>r, <1>e DEF Start, RolesInv, PartSound, HeldBy
<1>l. ASSUME NEW x \in LoopsOf(role)
      PROVE  LoopSound(x)'
  BY <1>r, <1>e, LoopPlaces DEF Start, LoopSound
<1>s. ASSUME NEW x \in PartsOf(role)
      PROVE  SweepSound(x)'
  <2>1. sweep'[x] = BeginSweep(sweep[x]) \/ sweep'[x] = sweep[x]
    BY DEF Start
  <2> QED
    BY <1>r, <2>1, BeginSweepSound DEF RolesInv, RoleTypes, SweepSound
<1>c. ClosingOrder'
  BY <1>r, <1>e DEF Start, RolesInv, RoleTypes, ClosingOrder, Untouched,
                      BothSignalled, InFlight
<1> QED
  BY <1>r, <1>t, <1>p, <1>l, <1>s, <1>c DEF RolesInv

LEMMA ListenKeeps ==
  ASSUME RolesInv, Listen
  PROVE  RolesInv'
<1>r. role' = role
  BY DEF Listen
<1>t1. life' \in {"starting", "serving", "exited", "killed"}
  BY DEF Listen, RolesInv, RoleTypes
<1>t3. server' \in {"down", "open", "refusing", "closed"}
  BY DEF Listen, RolesInv, RoleTypes
<1>t. RoleTypes'
  BY <1>r, <1>t1, <1>t3 DEF Listen, RolesInv, RoleTypes
<1>p. \A x \in PartsOf(role) : PartSound(x)'
  BY <1>r DEF Listen, RolesInv, PartSound, HeldBy
<1>l. \A x \in LoopsOf(role) : LoopSound(x)'
  BY <1>r DEF Listen, RolesInv, LoopSound
<1>s. \A x \in PartsOf(role) : SweepSound(x)'
  BY <1>r DEF Listen, RolesInv, SweepSound
<1>c. ClosingOrder'
  BY <1>r, SomeParts
  DEF Listen, RolesInv, RoleTypes, ClosingOrder, Untouched, BothSignalled,
      InFlight
<1> QED
  BY <1>r, <1>t, <1>p, <1>l, <1>s, <1>c DEF RolesInv

LEMMA StartFailsKeeps ==
  ASSUME RolesInv, StartFails
  PROVE  RolesInv'
<1>r. role' = role
  BY DEF StartFails, Fault
<1>t1. life' \in {"starting", "serving", "exited", "killed"}
  BY DEF StartFails, Fault, RolesInv, RoleTypes
<1>t2. exitCode' \in {-1, 0, 1}
  BY DEF StartFails
<1>t13. roleFaults' \in 0..RoleFaultBound
  BY DEF StartFails, Fault, RolesInv, RoleTypes
<1>t. RoleTypes'
  BY <1>r, <1>t1, <1>t2, <1>t13 DEF StartFails, Fault, RolesInv, RoleTypes
<1>p. \A x \in PartsOf(role) : PartSound(x)'
  BY <1>r DEF StartFails, Fault, RolesInv, PartSound, HeldBy
<1>l. \A x \in LoopsOf(role) : LoopSound(x)'
  BY <1>r DEF StartFails, Fault, RolesInv, LoopSound
<1>s. \A x \in PartsOf(role) : SweepSound(x)'
  BY <1>r DEF StartFails, Fault, RolesInv, SweepSound
<1>c. ClosingOrder'
  BY <1>r
  DEF StartFails, Fault, RolesInv, RoleTypes, ClosingOrder, Untouched,
      BothSignalled, InFlight
<1> QED
  BY <1>r, <1>t, <1>p, <1>l, <1>s, <1>c DEF RolesInv

LEMMA DieKeeps ==
  ASSUME RolesInv, Die
  PROVE  RolesInv'
<1>r. role' = role
  BY DEF Die, Fault, Alive
<1>t1. life' \in {"starting", "serving", "exited", "killed"}
  BY DEF Die, Fault, Alive, RolesInv, RoleTypes
<1>t13. roleFaults' \in 0..RoleFaultBound
  BY DEF Die, Fault, Alive, RolesInv, RoleTypes
<1>t. RoleTypes'
  BY <1>r, <1>t1, <1>t13 DEF Die, Fault, Alive, RolesInv, RoleTypes
<1>p. \A x \in PartsOf(role) : PartSound(x)'
  BY <1>r DEF Die, Fault, Alive, RolesInv, PartSound, HeldBy
<1>l. \A x \in LoopsOf(role) : LoopSound(x)'
  BY <1>r DEF Die, Fault, Alive, RolesInv, LoopSound
<1>s. \A x \in PartsOf(role) : SweepSound(x)'
  BY <1>r DEF Die, Fault, Alive, RolesInv, SweepSound
<1>c. ClosingOrder'
  BY <1>r
  DEF Die, Fault, Alive, RolesInv, RoleTypes, ClosingOrder, Untouched,
      BothSignalled, InFlight
<1> QED
  BY <1>r, <1>t, <1>p, <1>l, <1>s, <1>c DEF RolesInv

LEMMA DependencyFailsKeeps ==
  ASSUME RolesInv, NEW d \in Dependency, DependencyFails(d)
  PROVE  RolesInv'
<1>r. role' = role
  BY DEF DependencyFails, Fault, Alive
<1>t12. working' \subseteq Dependency
  BY DEF DependencyFails, Fault, Alive, RolesInv, RoleTypes
<1>t13. roleFaults' \in 0..RoleFaultBound
  BY DEF DependencyFails, Fault, Alive, RolesInv, RoleTypes
<1>t. RoleTypes'
  BY <1>r, <1>t12, <1>t13 DEF DependencyFails, Fault, Alive, RolesInv, RoleTypes
<1>p. \A x \in PartsOf(role) : PartSound(x)'
  BY <1>r DEF DependencyFails, Fault, Alive, RolesInv, PartSound, HeldBy
<1>l. \A x \in LoopsOf(role) : LoopSound(x)'
  BY <1>r DEF DependencyFails, Fault, Alive, RolesInv, LoopSound
<1>s. \A x \in PartsOf(role) : SweepSound(x)'
  BY <1>r DEF DependencyFails, Fault, Alive, RolesInv, SweepSound
<1>c. ClosingOrder'
  BY <1>r
  DEF DependencyFails, Fault, Alive, RolesInv, ClosingOrder, Untouched,
      BothSignalled, InFlight
<1> QED
  BY <1>r, <1>t, <1>p, <1>l, <1>s, <1>c DEF RolesInv

LEMMA DependencyReturnsKeeps ==
  ASSUME RolesInv, NEW d \in Dependency, DependencyReturns(d)
  PROVE  RolesInv'
<1>r. role' = role
  BY DEF DependencyReturns, Alive
<1>t12. working' \subseteq Dependency
  BY DEF DependencyReturns, Alive, RolesInv, RoleTypes
<1>t. RoleTypes'
  BY <1>r, <1>t12 DEF DependencyReturns, Alive, RolesInv, RoleTypes
<1>p. \A x \in PartsOf(role) : PartSound(x)'
  BY <1>r DEF DependencyReturns, Alive, RolesInv, PartSound, HeldBy
<1>l. \A x \in LoopsOf(role) : LoopSound(x)'
  BY <1>r DEF DependencyReturns, Alive, RolesInv, LoopSound
<1>s. \A x \in PartsOf(role) : SweepSound(x)'
  BY <1>r DEF DependencyReturns, Alive, RolesInv, SweepSound
<1>c. ClosingOrder'
  BY <1>r
  DEF DependencyReturns, Alive, RolesInv, ClosingOrder, Untouched,
      BothSignalled, InFlight
<1> QED
  BY <1>r, <1>t, <1>p, <1>l, <1>s, <1>c DEF RolesInv

LEMMA PassStartsKeeps ==
  ASSUME RolesInv, NEW m \in LoopsOf(role), PassStarts(m)
  PROVE  RolesInv'
<1>r. role' = role
  BY DEF PassStarts, Alive, LoopVars, BeginSweep
<1>t6. loop' \in [LoopsOf(role) -> LoopState]
  BY LoopPlaces
  DEF PassStarts, Alive, LoopVars, BeginSweep, RolesInv, RoleTypes, LoopState
<1>t7. sweep' \in [PartsOf(role) -> SweepState]
  <2>1. sweep[m[1]] \in SweepState /\ BeginSweep(sweep[m[1]]) \in SweepState
    BY LoopPlaces, BeginSweepSound DEF RolesInv, RoleTypes
  <2> QED
    BY <2>1 DEF PassStarts, RolesInv, RoleTypes
<1>t. RoleTypes'
  BY <1>r, <1>t6, <1>t7
  DEF PassStarts, Alive, LoopVars, BeginSweep, RolesInv, RoleTypes
<1>p. \A x \in PartsOf(role) : PartSound(x)'
  BY <1>r
  DEF PassStarts, Alive, LoopVars, BeginSweep, RolesInv, PartSound, HeldBy
<1>l. ASSUME NEW x \in LoopsOf(role)
      PROVE  LoopSound(x)'
  BY <1>r, LoopPlaces
  DEF PassStarts, Alive, LoopVars, BeginSweep, RolesInv, RoleTypes, LoopSound,
      PartState, LoopState
<1>s. ASSUME NEW x \in PartsOf(role)
      PROVE  SweepSound(x)'
  <2>1. x \in PartsOf(role) /\ m[1] \in PartsOf(role)
    BY LoopPlaces
  <2>2. sweep'[x] = BeginSweep(sweep[x]) \/ sweep'[x] = sweep[x]
    BY <2>1 DEF PassStarts, RolesInv, RoleTypes
  <2> QED
    BY <1>r, <2>2, BeginSweepSound DEF RolesInv, RoleTypes, SweepSound
<1>c. ClosingOrder'
  BY <1>r
  DEF PassStarts, Alive, LoopVars, BeginSweep, RolesInv, ClosingOrder,
      Untouched, BothSignalled, InFlight
<1> QED
  BY <1>r, <1>t, <1>p, <1>l, <1>s, <1>c DEF RolesInv

LEMMA PassEndsKeeps ==
  ASSUME RolesInv, NEW m \in LoopsOf(role), PassEnds(m)
  PROVE  RolesInv'
<1>r. role' = role
  BY DEF PassEnds, Alive, LoopVars, Rest
<1>t6. loop' \in [LoopsOf(role) -> LoopState]
  BY LoopPlaces
  DEF PassEnds, Alive, LoopVars, Rest, RolesInv, RoleTypes, LoopState
<1>t. RoleTypes'
  BY <1>r, <1>t6 DEF PassEnds, Alive, LoopVars, Rest, RolesInv, RoleTypes
<1>p. \A x \in PartsOf(role) : PartSound(x)'
  BY <1>r DEF PassEnds, Alive, LoopVars, Rest, RolesInv, PartSound, HeldBy
<1>l. ASSUME NEW x \in LoopsOf(role)
      PROVE  LoopSound(x)'
  BY <1>r, LoopPlaces
  DEF PassEnds, Alive, LoopVars, Rest, RolesInv, RoleTypes, LoopSound,
      PartState, LoopState
<1>s. \A x \in PartsOf(role) : SweepSound(x)'
  BY <1>r DEF PassEnds, Alive, LoopVars, Rest, RolesInv, SweepSound
<1>c. ClosingOrder'
  BY <1>r
  DEF PassEnds, Alive, LoopVars, Rest, RolesInv, ClosingOrder, Untouched,
      BothSignalled, InFlight
<1> QED
  BY <1>r, <1>t, <1>p, <1>l, <1>s, <1>c DEF RolesInv

LEMMA SweepBatchKeeps ==
  ASSUME RolesInv, NEW m \in LoopsOf(role), SweepBatch(m)
  PROVE  RolesInv'
<1>r. role' = role
  BY DEF SweepBatch, Alive, LoopVars
<1> DEFINE w == sweep[m[1]]
           v == [w EXCEPT !.at = @ + 1, !.left = @ - 1, !.done = @ \cup {w.at + 1}]
<1>e. /\ v \in SweepState /\ sweep' = [sweep EXCEPT ![m[1]] = v]
      /\ v.at = w.at + 1 /\ v.kept = w.kept /\ v.lastDone = w.lastDone
      /\ v.done = w.done \cup {w.at + 1}
  <2>1. w \in SweepState
    BY LoopPlaces DEF RolesInv, RoleTypes
  <2>2. /\ w.at + 1 \in 0..Batches /\ w.left - 1 \in 0..BatchesPerSweep
        /\ w.done \cup {w.at + 1} \in SUBSET (1..Batches)
    BY <2>1, SweepFields DEF SweepBatch
  <2> QED
    <3>1. sweep' = [sweep EXCEPT ![m[1]] = v]
      BY DEF SweepBatch
    <3> DEFINE a == w.at + 1
               e == w.left - 1
               d == w.done \cup {w.at + 1}
    <3>2. v = [w EXCEPT !.at = a, !.left = e, !.done = d]
      OBVIOUS
    <3>3. /\ [w EXCEPT !.at = a, !.left = e, !.done = d] \in SweepState
          /\ [w EXCEPT !.at = a, !.left = e, !.done = d].at = a
          /\ [w EXCEPT !.at = a, !.left = e, !.done = d].kept = w.kept
          /\ [w EXCEPT !.at = a, !.left = e, !.done = d].done = d
          /\ [w EXCEPT !.at = a, !.left = e, !.done = d].lastDone = w.lastDone
      <4>1. a \in 0..Batches /\ e \in 0..BatchesPerSweep /\ d \in SUBSET (1..Batches)
        BY <2>2
      <4> HIDE DEF a, e, d, w
      <4> QED
        BY <2>1, <4>1 DEF SweepState
    <3> QED
      BY <3>1, <3>2, <3>3
<1>t7. sweep' \in [PartsOf(role) -> SweepState]
  BY <1>e DEF RolesInv, RoleTypes
<1>t. RoleTypes'
  BY <1>r, <1>t7 DEF SweepBatch, Alive, LoopVars, RolesInv, RoleTypes
<1>p. \A x \in PartsOf(role) : PartSound(x)'
  BY <1>r DEF SweepBatch, Alive, LoopVars, RolesInv, PartSound, HeldBy
<1>l. \A x \in LoopsOf(role) : LoopSound(x)'
  BY <1>r DEF SweepBatch, Alive, LoopVars, RolesInv, LoopSound
<1>s. ASSUME NEW x \in PartsOf(role)
      PROVE  SweepSound(x)'
  <2>1. x = m[1] => sweep'[x] = v
    BY <1>e DEF RolesInv, RoleTypes
  <2>2. x # m[1] => sweep'[x] = sweep[x]
    BY <1>e DEF RolesInv, RoleTypes
  <2>3. w \in SweepState /\ SweepSound(m[1])
    BY LoopPlaces DEF RolesInv, RoleTypes
  <2>4. 1..(w.at + 1) \subseteq w.done \cup {w.at + 1}
    BY <2>3, SweepFields DEF SweepSound
  <2>5. 1..w.kept \subseteq w.done \cup {w.at + 1}
    BY <2>3 DEF SweepSound
  <2>6. CASE x = m[1]
    <3> HIDE DEF v
    <3> QED
      BY <1>e, <2>1, <2>3, <2>4, <2>5, <2>6 DEF SweepSound
  <2>7. CASE x # m[1]
    BY <2>2, <2>7 DEF RolesInv, SweepSound
  <2> QED
    BY <2>6, <2>7
<1>c. ClosingOrder'
  BY <1>r
  DEF SweepBatch, Alive, LoopVars, RolesInv, ClosingOrder, Untouched,
      BothSignalled, InFlight
<1> QED
  BY <1>r, <1>t, <1>p, <1>l, <1>s, <1>c DEF RolesInv

LEMMA SweepEndsKeeps ==
  ASSUME RolesInv, NEW m \in LoopsOf(role), SweepEnds(m)
  PROVE  RolesInv'
<1>r. role' = role
  BY DEF SweepEnds, Alive, LoopVars, Rest, Continuation
<1> DEFINE w == sweep[m[1]]
           k == IF w.at = Batches THEN 0 ELSE w.at
           y == IF w.at = Batches THEN w.done ELSE w.lastDone
           n == IF w.at = Batches THEN {} ELSE w.done
           v == [w EXCEPT !.kept = k, !.at = 0, !.left = 0, !.lastDone = y, !.done = n]
<1>w. w \in SweepState /\ SweepSound(m[1])
  BY LoopPlaces DEF RolesInv, RoleTypes
<1>e. /\ v \in SweepState /\ sweep' = [sweep EXCEPT ![m[1]] = v]
      /\ v.at = 0 /\ v.kept = k /\ v.done = n /\ v.lastDone = y
  <2>1. /\ k \in 0..Batches /\ 0 \in 0..Batches /\ 0 \in 0..BatchesPerSweep
        /\ y \in SUBSET (1..Batches) /\ n \in SUBSET (1..Batches)
    BY <1>w, SweepFields
  <2>2. sweep' = [sweep EXCEPT ![m[1]] = v]
    BY DEF SweepEnds, Continuation
  <2> HIDE DEF k, y, n, w
  <2>3. /\ v \in SweepState
        /\ v.at = 0 /\ v.kept = k /\ v.done = n /\ v.lastDone = y
    BY <1>w, <2>1 DEF SweepState
  <2> QED
    BY <2>2, <2>3
<1>t6. loop' \in [LoopsOf(role) -> LoopState]
  BY LoopPlaces
  DEF SweepEnds, Alive, LoopVars, Rest, Continuation, RolesInv, RoleTypes,
      LoopState
<1>t7. sweep' \in [PartsOf(role) -> SweepState]
  BY <1>e DEF RolesInv, RoleTypes
<1>t. RoleTypes'
  BY <1>r, <1>t6, <1>t7
  DEF SweepEnds, Alive, LoopVars, Rest, Continuation, RolesInv, RoleTypes
<1>p. \A x \in PartsOf(role) : PartSound(x)'
  BY <1>r
  DEF SweepEnds, Alive, LoopVars, Rest, Continuation, RolesInv, PartSound,
      HeldBy
<1>l. ASSUME NEW x \in LoopsOf(role)
      PROVE  LoopSound(x)'
  BY <1>r, LoopPlaces
  DEF SweepEnds, Alive, LoopVars, Rest, Continuation, RolesInv, RoleTypes,
      LoopSound, PartState, LoopState
<1>s. ASSUME NEW x \in PartsOf(role)
      PROVE  SweepSound(x)'
  <2>1. x # m[1] \/ sweep'[x] = v
    BY <1>e DEF RolesInv, RoleTypes
  <2>2. CASE x # m[1]
    BY <1>e, <2>2 DEF RolesInv, RoleTypes, SweepSound
  <2>3. CASE sweep'[x] = v
    <3>1. v.at = 0 /\ v.kept = k /\ v.done = n /\ v.lastDone = y
      BY <1>e
    <3>2. 1..0 = {}
      OBVIOUS
    <3>3. 1..k \subseteq n
      BY <1>w, <3>2 DEF SweepSound
    <3>4. y \in {{}, 1..Batches}
      BY <1>w, SweepFields DEF SweepSound
    <3> QED
      BY <2>3, <3>1, <3>2, <3>3, <3>4 DEF SweepSound
  <2> QED
    BY <2>1, <2>2, <2>3
<1>c. ClosingOrder'
  BY <1>r
  DEF SweepEnds, Alive, LoopVars, Rest, Continuation, RolesInv, ClosingOrder,
      Untouched, BothSignalled, InFlight
<1> QED
  BY <1>r, <1>t, <1>p, <1>l, <1>s, <1>c DEF RolesInv

LEMMA SweepFailsKeeps ==
  ASSUME RolesInv, NEW m \in LoopsOf(role), SweepFails(m)
  PROVE  RolesInv'
<1>r. role' = role
  BY DEF SweepFails, Alive, Fault, Rest
<1> DEFINE w == sweep[m[1]]
           v == [w EXCEPT !.at = 0, !.left = 0]
<1>w. w \in SweepState /\ SweepSound(m[1])
  BY LoopPlaces DEF RolesInv, RoleTypes
<1>e. /\ v \in SweepState /\ sweep' = [sweep EXCEPT ![m[1]] = v]
      /\ v.at = 0 /\ v.kept = w.kept /\ v.done = w.done /\ v.lastDone = w.lastDone
  <2>1. 0 \in 0..Batches /\ 0 \in 0..BatchesPerSweep
    OBVIOUS
  <2> QED
    BY <1>w, <2>1 DEF SweepFails, SweepState
<1>t6. loop' \in [LoopsOf(role) -> LoopState]
  BY LoopPlaces
  DEF SweepFails, Alive, Fault, Rest, RolesInv, RoleTypes, LoopState
<1>t7. sweep' \in [PartsOf(role) -> SweepState]
  BY <1>e DEF RolesInv, RoleTypes
<1>t13. roleFaults' \in 0..RoleFaultBound
  BY DEF SweepFails, Alive, Fault, Rest, RolesInv, RoleTypes
<1>t. RoleTypes'
  BY <1>r, <1>t6, <1>t7, <1>t13
  DEF SweepFails, Alive, Fault, Rest, RolesInv, RoleTypes
<1>p. \A x \in PartsOf(role) : PartSound(x)'
  BY <1>r DEF SweepFails, Alive, Fault, Rest, RolesInv, PartSound, HeldBy
<1>l. ASSUME NEW x \in LoopsOf(role)
      PROVE  LoopSound(x)'
  BY <1>r, LoopPlaces
  DEF SweepFails, Alive, Fault, Rest, RolesInv, RoleTypes, LoopSound,
      PartState, LoopState
<1>s. ASSUME NEW x \in PartsOf(role)
      PROVE  SweepSound(x)'
  <2>1. x = m[1] => sweep'[x] = v
    BY <1>e DEF RolesInv, RoleTypes
  <2>2. x # m[1] => sweep'[x] = sweep[x]
    BY <1>e DEF RolesInv, RoleTypes
  <2>3. 1..0 = {}
    OBVIOUS
  <2> QED
    BY <1>w, <1>e, <2>1, <2>2, <2>3 DEF RolesInv, SweepSound
<1>c. ClosingOrder'
  BY <1>r
  DEF SweepFails, Alive, Fault, Rest, RolesInv, ClosingOrder, Untouched,
      BothSignalled, InFlight
<1> QED
  BY <1>r, <1>t, <1>p, <1>l, <1>s, <1>c DEF RolesInv

LEMMA JobStartsKeeps ==
  ASSUME RolesInv, NEW m \in PartsOf(role), JobStarts(m)
  PROVE  RolesInv'
<1>r. role' = role
  BY DEF JobStarts, Alive, JobVars
<1>t8. job' \in [PartsOf(role) -> JobState]
  BY DEF JobStarts, Alive, JobVars, RolesInv, RoleTypes, JobState
<1>t. RoleTypes'
  BY <1>r, <1>t8 DEF JobStarts, Alive, JobVars, RolesInv, RoleTypes
<1>p. ASSUME NEW x \in PartsOf(role)
      PROVE  PartSound(x)'
  BY <1>r, LoopPlaces
  DEF JobStarts, Alive, JobVars, RolesInv, RoleTypes, PartSound, HeldBy,
      PartState, JobState
<1>l. \A x \in LoopsOf(role) : LoopSound(x)'
  BY <1>r DEF JobStarts, Alive, JobVars, RolesInv, LoopSound
<1>s. \A x \in PartsOf(role) : SweepSound(x)'
  BY <1>r DEF JobStarts, Alive, JobVars, RolesInv, SweepSound
<1>c. ClosingOrder'
  BY <1>r
  DEF JobStarts, Alive, JobVars, RolesInv, ClosingOrder, Untouched,
      BothSignalled, InFlight
<1> QED
  BY <1>r, <1>t, <1>p, <1>l, <1>s, <1>c DEF RolesInv

LEMMA JobCompletesKeeps ==
  ASSUME RolesInv, NEW m \in PartsOf(role), JobCompletes(m)
  PROVE  RolesInv'
<1>r. role' = role
  BY DEF JobCompletes, Alive, JobVars
<1>t8. job' \in [PartsOf(role) -> JobState]
  BY DEF JobCompletes, Alive, JobVars, RolesInv, RoleTypes, JobState
<1>t. RoleTypes'
  BY <1>r, <1>t8 DEF JobCompletes, Alive, JobVars, RolesInv, RoleTypes
<1>p. ASSUME NEW x \in PartsOf(role)
      PROVE  PartSound(x)'
  BY <1>r, LoopPlaces
  DEF JobCompletes, Alive, JobVars, RolesInv, RoleTypes, PartSound, HeldBy,
      PartState, JobState
<1>l. \A x \in LoopsOf(role) : LoopSound(x)'
  BY <1>r DEF JobCompletes, Alive, JobVars, RolesInv, LoopSound
<1>s. \A x \in PartsOf(role) : SweepSound(x)'
  BY <1>r DEF JobCompletes, Alive, JobVars, RolesInv, SweepSound
<1>c. ClosingOrder'
  BY <1>r
  DEF JobCompletes, Alive, JobVars, RolesInv, ClosingOrder, Untouched,
      BothSignalled, InFlight
<1> QED
  BY <1>r, <1>t, <1>p, <1>l, <1>s, <1>c DEF RolesInv

LEMMA RecordingEndsKeeps ==
  ASSUME RolesInv, NEW m \in PartsOf(role), RecordingEnds(m)
  PROVE  RolesInv'
<1>r. role' = role
  BY DEF RecordingEnds, Alive, JobVars
<1>t8. job' \in [PartsOf(role) -> JobState]
  BY DEF RecordingEnds, Alive, JobVars, RolesInv, RoleTypes, JobState
<1>t. RoleTypes'
  BY <1>r, <1>t8 DEF RecordingEnds, Alive, JobVars, RolesInv, RoleTypes
<1>p. ASSUME NEW x \in PartsOf(role)
      PROVE  PartSound(x)'
  BY <1>r, LoopPlaces
  DEF RecordingEnds, Alive, JobVars, RolesInv, RoleTypes, PartSound, HeldBy,
      PartState, JobState
<1>l. \A x \in LoopsOf(role) : LoopSound(x)'
  BY <1>r DEF RecordingEnds, Alive, JobVars, RolesInv, LoopSound
<1>s. \A x \in PartsOf(role) : SweepSound(x)'
  BY <1>r DEF RecordingEnds, Alive, JobVars, RolesInv, SweepSound
<1>c. ClosingOrder'
  BY <1>r
  DEF RecordingEnds, Alive, JobVars, RolesInv, ClosingOrder, Untouched,
      BothSignalled, InFlight
<1> QED
  BY <1>r, <1>t, <1>p, <1>l, <1>s, <1>c DEF RolesInv

LEMMA ReadinessAskedKeeps ==
  ASSUME RolesInv, ReadinessAsked
  PROVE  RolesInv'
<1>r. role' = role
  BY DEF ReadinessAsked, RequestVars
<1>t10. request' \in [Request -> RequestState]
  BY ProbeRequest
  DEF ReadinessAsked, RequestVars, RolesInv, RoleTypes, RequestState
<1>t11. checks' \subseteq Needs(role)
  BY NeedsAreDependencies DEF ReadinessAsked, RequestVars, RolesInv, RoleTypes
<1>t. RoleTypes'
  BY <1>r, <1>t10, <1>t11 DEF ReadinessAsked, RequestVars, RolesInv, RoleTypes
<1>p. \A x \in PartsOf(role) : PartSound(x)'
  BY <1>r DEF ReadinessAsked, RequestVars, RolesInv, PartSound, HeldBy
<1>l. \A x \in LoopsOf(role) : LoopSound(x)'
  BY <1>r DEF ReadinessAsked, RequestVars, RolesInv, LoopSound
<1>s. \A x \in PartsOf(role) : SweepSound(x)'
  BY <1>r DEF ReadinessAsked, RequestVars, RolesInv, SweepSound
<1>c. ClosingOrder'
  BY <1>r, ProbeRequest
  DEF ReadinessAsked, RequestVars, RolesInv, RoleTypes, ClosingOrder,
      Untouched, BothSignalled, InFlight
<1> QED
  BY <1>r, <1>t, <1>p, <1>l, <1>s, <1>c DEF RolesInv

LEMMA CheckPassesKeeps ==
  ASSUME RolesInv, NEW d \in Dependency, CheckPasses(d)
  PROVE  RolesInv'
<1>r. role' = role
  BY DEF CheckPasses, RequestVars, Alive
<1>t11. checks' \subseteq Needs(role)
  BY NeedsAreDependencies
  DEF CheckPasses, RequestVars, Alive, RolesInv, RoleTypes
<1>t. RoleTypes'
  BY <1>r, <1>t11 DEF CheckPasses, RequestVars, Alive, RolesInv, RoleTypes
<1>p. \A x \in PartsOf(role) : PartSound(x)'
  BY <1>r DEF CheckPasses, RequestVars, Alive, RolesInv, PartSound, HeldBy
<1>l. \A x \in LoopsOf(role) : LoopSound(x)'
  BY <1>r DEF CheckPasses, RequestVars, Alive, RolesInv, LoopSound
<1>s. \A x \in PartsOf(role) : SweepSound(x)'
  BY <1>r DEF CheckPasses, RequestVars, Alive, RolesInv, SweepSound
<1>c. ClosingOrder'
  BY <1>r
  DEF CheckPasses, RequestVars, Alive, RolesInv, ClosingOrder, Untouched,
      BothSignalled, InFlight
<1> QED
  BY <1>r, <1>t, <1>p, <1>l, <1>s, <1>c DEF RolesInv

LEMMA SaysReadyKeeps ==
  ASSUME RolesInv, SaysReady
  PROVE  RolesInv'
<1>r. role' = role
  BY DEF SaysReady, RequestVars, Alive, ReadinessPassed
<1>t10. request' \in [Request -> RequestState]
  BY ProbeRequest
  DEF SaysReady, RequestVars, Alive, ReadinessPassed, RolesInv, RoleTypes,
      RequestState
<1>t11. checks' \subseteq Needs(role)
  BY NeedsAreDependencies
  DEF SaysReady, RequestVars, Alive, ReadinessPassed, RolesInv, RoleTypes
<1>t. RoleTypes'
  BY <1>r, <1>t10, <1>t11
  DEF SaysReady, RequestVars, Alive, ReadinessPassed, RolesInv, RoleTypes
<1>p. \A x \in PartsOf(role) : PartSound(x)'
  BY <1>r
  DEF SaysReady, RequestVars, Alive, ReadinessPassed, RolesInv, PartSound,
      HeldBy
<1>l. \A x \in LoopsOf(role) : LoopSound(x)'
  BY <1>r
  DEF SaysReady, RequestVars, Alive, ReadinessPassed, RolesInv, LoopSound
<1>s. \A x \in PartsOf(role) : SweepSound(x)'
  BY <1>r
  DEF SaysReady, RequestVars, Alive, ReadinessPassed, RolesInv, SweepSound
<1>c. ClosingOrder'
  BY <1>r, ProbeRequest
  DEF SaysReady, RequestVars, Alive, ReadinessPassed, RolesInv, RoleTypes,
      ClosingOrder, Untouched, BothSignalled, InFlight
<1> QED
  BY <1>r, <1>t, <1>p, <1>l, <1>s, <1>c DEF RolesInv

LEMMA SaysNotReadyKeeps ==
  ASSUME RolesInv, SaysNotReady
  PROVE  RolesInv'
<1>r. role' = role
  BY DEF SaysNotReady, RequestVars, Alive
<1>t10. request' \in [Request -> RequestState]
  BY ProbeRequest
  DEF SaysNotReady, RequestVars, Alive, RolesInv, RoleTypes, RequestState
<1>t11. checks' \subseteq Needs(role)
  BY NeedsAreDependencies
  DEF SaysNotReady, RequestVars, Alive, RolesInv, RoleTypes
<1>t. RoleTypes'
  BY <1>r, <1>t10, <1>t11
  DEF SaysNotReady, RequestVars, Alive, RolesInv, RoleTypes
<1>p. \A x \in PartsOf(role) : PartSound(x)'
  BY <1>r DEF SaysNotReady, RequestVars, Alive, RolesInv, PartSound, HeldBy
<1>l. \A x \in LoopsOf(role) : LoopSound(x)'
  BY <1>r DEF SaysNotReady, RequestVars, Alive, RolesInv, LoopSound
<1>s. \A x \in PartsOf(role) : SweepSound(x)'
  BY <1>r DEF SaysNotReady, RequestVars, Alive, RolesInv, SweepSound
<1>c. ClosingOrder'
  BY <1>r, ProbeRequest
  DEF SaysNotReady, RequestVars, Alive, RolesInv, RoleTypes, ClosingOrder,
      Untouched, BothSignalled, InFlight
<1> QED
  BY <1>r, <1>t, <1>p, <1>l, <1>s, <1>c DEF RolesInv

LEMMA RequestArrivesKeeps ==
  ASSUME RolesInv, NEW q \in Client, RequestArrives(q)
  PROVE  RolesInv'
<1>r. role' = role
  BY DEF RequestArrives, RequestVars
<1>t10. request' \in [Request -> RequestState]
  <2>1. PICK a \in {"executing", "querying"} : request' = [request EXCEPT ![q] =
          IF a = "executing" /\ Executions >= MaxExecutions THEN "answered" ELSE a]
    BY DEF RequestArrives
  <2>2. (IF a = "executing" /\ Executions >= MaxExecutions THEN "answered" ELSE a)
          \in RequestState
    BY DEF RequestState
  <2> QED
    BY <2>1, <2>2 DEF RolesInv, RoleTypes
<1>t. RoleTypes'
  BY <1>r, <1>t10 DEF RequestArrives, RequestVars, RolesInv, RoleTypes
<1>p. \A x \in PartsOf(role) : PartSound(x)'
  BY <1>r DEF RequestArrives, RequestVars, RolesInv, PartSound, HeldBy
<1>l. \A x \in LoopsOf(role) : LoopSound(x)'
  BY <1>r DEF RequestArrives, RequestVars, RolesInv, LoopSound
<1>s. \A x \in PartsOf(role) : SweepSound(x)'
  BY <1>r DEF RequestArrives, RequestVars, RolesInv, SweepSound
<1>c. ClosingOrder'
  BY <1>r, ProbeRequest
  DEF RequestArrives, RequestVars, RolesInv, RoleTypes, ClosingOrder,
      Untouched, BothSignalled, InFlight
<1> QED
  BY <1>r, <1>t, <1>p, <1>l, <1>s, <1>c DEF RolesInv

LEMMA RequestEndsKeeps ==
  ASSUME RolesInv, NEW q \in Client, RequestEnds(q)
  PROVE  RolesInv'
<1>r. role' = role
  BY DEF RequestEnds, RequestVars, Alive
<1>t10. request' \in [Request -> RequestState]
  BY ProbeRequest
  DEF RequestEnds, RequestVars, Alive, RolesInv, RoleTypes, RequestState
<1>t. RoleTypes'
  BY <1>r, <1>t10 DEF RequestEnds, RequestVars, Alive, RolesInv, RoleTypes
<1>p. \A x \in PartsOf(role) : PartSound(x)'
  BY <1>r DEF RequestEnds, RequestVars, Alive, RolesInv, PartSound, HeldBy
<1>l. \A x \in LoopsOf(role) : LoopSound(x)'
  BY <1>r DEF RequestEnds, RequestVars, Alive, RolesInv, LoopSound
<1>s. \A x \in PartsOf(role) : SweepSound(x)'
  BY <1>r DEF RequestEnds, RequestVars, Alive, RolesInv, SweepSound
<1>c. ClosingOrder'
  BY <1>r, ProbeRequest
  DEF RequestEnds, RequestVars, Alive, RolesInv, RoleTypes, ClosingOrder,
      Untouched, BothSignalled, InFlight
<1> QED
  BY <1>r, <1>t, <1>p, <1>l, <1>s, <1>c DEF RolesInv

LEMMA TerminateKeeps ==
  ASSUME RolesInv, NEW s \in Signal, Terminate(s)
  PROVE  RolesInv'
<1>r. role' = role
  BY DEF Terminate, CloseVars, AlreadyClosing
<1>t3. server' \in {"down", "open", "refusing", "closed"}
  BY DEF Terminate, CloseVars, AlreadyClosing, RolesInv, RoleTypes
<1>t4. closing' \in [Signal -> Stage]
  BY DEF Terminate, CloseVars, AlreadyClosing, RolesInv, RoleTypes, Stage
<1>t. RoleTypes'
  BY <1>r, <1>t3, <1>t4
  DEF Terminate, CloseVars, AlreadyClosing, RolesInv, RoleTypes
<1>p. \A x \in PartsOf(role) : PartSound(x)'
  BY <1>r DEF Terminate, CloseVars, AlreadyClosing, RolesInv, PartSound, HeldBy
<1>l. \A x \in LoopsOf(role) : LoopSound(x)'
  BY <1>r DEF Terminate, CloseVars, AlreadyClosing, RolesInv, LoopSound
<1>s. \A x \in PartsOf(role) : SweepSound(x)'
  BY <1>r DEF Terminate, CloseVars, AlreadyClosing, RolesInv, SweepSound
<1>c. ClosingOrder'
  BY <1>r, TwoSignals
  DEF Terminate, CloseVars, AlreadyClosing, RolesInv, RoleTypes, ClosingOrder,
      Untouched, BothSignalled, InFlight
<1> QED
  BY <1>r, <1>t, <1>p, <1>l, <1>s, <1>c DEF RolesInv

LEMMA ServerClosesKeeps ==
  ASSUME RolesInv, NEW s \in Signal, ServerCloses(s)
  PROVE  RolesInv'
<1>r. role' = role
  BY DEF ServerCloses, CloseVars
<1>t3. server' \in {"down", "open", "refusing", "closed"}
  BY DEF ServerCloses, CloseVars, RolesInv, RoleTypes
<1>t4. closing' \in [Signal -> Stage]
  BY DEF ServerCloses, CloseVars, RolesInv, RoleTypes, Stage
<1>t. RoleTypes'
  BY <1>r, <1>t3, <1>t4 DEF ServerCloses, CloseVars, RolesInv, RoleTypes
<1>p. \A x \in PartsOf(role) : PartSound(x)'
  BY <1>r DEF ServerCloses, CloseVars, RolesInv, PartSound, HeldBy
<1>l. \A x \in LoopsOf(role) : LoopSound(x)'
  BY <1>r DEF ServerCloses, CloseVars, RolesInv, LoopSound
<1>s. \A x \in PartsOf(role) : SweepSound(x)'
  BY <1>r DEF ServerCloses, CloseVars, RolesInv, SweepSound
<1>c. ClosingOrder'
  BY <1>r, TwoSignals
  DEF ServerCloses, CloseVars, RolesInv, RoleTypes, ClosingOrder, Untouched,
      BothSignalled, InFlight
<1> QED
  BY <1>r, <1>t, <1>p, <1>l, <1>s, <1>c DEF RolesInv

LEMMA ClosesPartsKeeps ==
  ASSUME RolesInv, NEW s \in Signal, ClosesParts(s)
  PROVE  RolesInv'
<1>r. role' = role
  BY DEF ClosesParts
<1>e. \/ /\ \A x \in PartsOf(role) : part[x].phase = "open"
         /\ closing' = [closing EXCEPT ![s] = "settling"]
         /\ part' \in [PartsOf(role) -> PartState]
         /\ \A x \in PartsOf(role) :
              /\ part'[x].phase = IF role = "api" THEN "releasing" ELSE "stopping"
              /\ part'[x].forced = part[x].forced /\ part'[x].failed = part[x].failed
      \/ /\ \E x \in PartsOf(role) : part[x].phase # "open"
         /\ closing' = [closing EXCEPT ![s] = "done"]
         /\ part' = part
  <2>1. CASE \A x \in PartsOf(role) : part[x].phase = "open"
    <3> DEFINE f == IF role = "api" THEN "releasing" ELSE "stopping"
    <3>1. f \in Phase
      BY DEF Phase
    <3>2. /\ closing' = [closing EXCEPT ![s] = "settling"]
          /\ part' = [x \in PartsOf(role) |-> [part[x] EXCEPT !.phase = f]]
      BY <2>1 DEF ClosesParts
    <3> HIDE DEF f
    <3>3. ASSUME NEW x \in PartsOf(role)
          PROVE  /\ part'[x] \in PartState /\ part'[x].phase = f
                 /\ part'[x].forced = part[x].forced /\ part'[x].failed = part[x].failed
      BY <3>1, <3>2, PhaseChange DEF RolesInv, RoleTypes
    <3>4. part' \in [PartsOf(role) -> PartState]
      BY <3>2, <3>3
    <3> QED
      BY <2>1, <3>2, <3>3, <3>4 DEF f
  <2>2. CASE \E x \in PartsOf(role) : part[x].phase # "open"
    BY <2>2 DEF ClosesParts
  <2> QED
    BY <2>1, <2>2
<1>o. /\ server = "closed" \/ BothSignalled
      /\ life = "serving" /\ closing[s] = "resources"
      /\ server' = server /\ life' = life /\ held' = held /\ job' = job
      /\ exitCode' = exitCode /\ request' = request
  BY DEF ClosesParts, RolesInv, ClosingOrder
<1>api. role = "api" => LoopsOf(role) = {} /\ ~Consumes(role)
  BY DEF LoopsOf, LoopNames, Consumes
<1>t4. closing' \in [Signal -> Stage]
  BY <1>e DEF RolesInv, RoleTypes, Stage
<1>t5. part' \in [PartsOf(role) -> PartState]
  BY <1>e DEF RolesInv, RoleTypes
<1>t6. loop' \in [LoopsOf(role) -> LoopState]
  <2>1. ASSUME NEW x \in LoopsOf(role)
        PROVE  loop'[x] \in LoopState
    <3>1. loop[x] \in LoopState
      BY DEF RolesInv, RoleTypes
    <3>2. loop'[x] = loop[x] \/ loop'[x] = [loop[x] EXCEPT !.state = "off"]
      BY <1>r DEF ClosesParts
    <3> QED
      BY <3>1, <3>2 DEF LoopState
  <2>2. loop' = [x \in LoopsOf(role) |-> loop'[x]]
    BY <1>r DEF ClosesParts
  <2> QED
    BY <2>1, <2>2
<1>t. RoleTypes'
  BY <1>r, <1>t4, <1>t5, <1>t6 DEF ClosesParts, RolesInv, RoleTypes
<1>p. ASSUME NEW x \in PartsOf(role)
      PROVE  PartSound(x)'
  BY <1>r, <1>e, <1>o, <1>api DEF RolesInv, RoleTypes, PartSound, HeldBy
<1>l. ASSUME NEW x \in LoopsOf(role)
      PROVE  LoopSound(x)'
  <2>1. loop'[x] = IF part'[x[1]].phase # "open" /\ loop[x].state = "timer"
                   THEN [loop[x] EXCEPT !.state = "off"] ELSE loop[x]
    BY <1>r DEF ClosesParts
  <2>2. loop[x] \in LoopState /\ LoopSound(x) /\ x[1] \in PartsOf(role)
    BY LoopPlaces DEF RolesInv, RoleTypes
  <2>3. /\ loop'[x].state # "timer" \/ part'[x[1]].phase = "open"
        /\ loop[x].state # "active" => loop'[x].state # "active"
    BY <2>1, <2>2 DEF LoopState
  <2>4. CASE part' = part
    BY <1>r, <2>2, <2>3, <2>4 DEF LoopSound
  <2>5. CASE part' # part
    BY <1>r, <1>e, <1>api, <2>2, <2>3, <2>5 DEF LoopSound
  <2> QED
    BY <2>4, <2>5
<1>s. \A x \in PartsOf(role) : SweepSound(x)'
  BY <1>r DEF ClosesParts, RolesInv, SweepSound
<1>c. ClosingOrder'
  <2>1. /\ closing' \in [Signal -> Stage] /\ closing'[s] \in {"settling", "done"}
        /\ \A t \in Signal : t # s => closing'[t] = closing[t]
    BY <1>e DEF RolesInv, RoleTypes, Stage
  <2>2. BothSignalled => BothSignalled'
    BY <1>r, <2>1 DEF BothSignalled
  <2>3. CASE \A x \in PartsOf(role) : part[x].phase = "open"
    <3>1. closing'[s] = "settling"
      BY <1>e, <2>3 DEF RolesInv, RoleTypes
    <3>2. \A x \in PartsOf(role) : part'[x].phase # "built"
      BY <1>e, <2>3
    <3> QED
      BY <1>r, <1>o, <2>1, <2>2, <2>3, <3>1, <3>2
      DEF RolesInv, ClosingOrder, Untouched, InFlight
  <2>4. CASE \E x \in PartsOf(role) : part[x].phase # "open"
    <3>1. part' = part
      BY <1>e, <2>4
    <3> QED
      BY <1>r, <1>o, <2>1, <2>2, <3>1
      DEF RolesInv, ClosingOrder, Untouched, InFlight
  <2> QED
    BY <2>3, <2>4
<1> QED
  BY <1>r, <1>t, <1>p, <1>l, <1>s, <1>c DEF RolesInv

LEMMA PartStoppedKeeps ==
  ASSUME RolesInv, NEW m \in PartsOf(role), PartStopped(m)
  PROVE  RolesInv'
<1>r. role' = role
  BY DEF PartStopped, PartVars, PassesAwaited
<1>t5. part' \in [PartsOf(role) -> PartState]
  BY DEF PartStopped, PartVars, PassesAwaited, RolesInv, RoleTypes, PartState,
     Phase
<1>t. RoleTypes'
  BY <1>r, <1>t5 DEF PartStopped, PartVars, PassesAwaited, RolesInv, RoleTypes
<1>p. ASSUME NEW x \in PartsOf(role)
      PROVE  PartSound(x)'
  BY <1>r, LoopPlaces
  DEF PartStopped, PartVars, PassesAwaited, RolesInv, RoleTypes, PartSound,
      HeldBy, PartState, JobState
<1>l. ASSUME NEW x \in LoopsOf(role)
      PROVE  LoopSound(x)'
  BY <1>r, LoopPlaces
  DEF PartStopped, PartVars, PassesAwaited, RolesInv, RoleTypes, LoopSound,
      PartState, LoopState
<1>s. \A x \in PartsOf(role) : SweepSound(x)'
  BY <1>r DEF PartStopped, PartVars, PassesAwaited, RolesInv, SweepSound
<1>c. ClosingOrder'
  BY <1>r
  DEF PartStopped, PartVars, PassesAwaited, RolesInv, RoleTypes, ClosingOrder,
      Untouched, BothSignalled, InFlight
<1> QED
  BY <1>r, <1>t, <1>p, <1>l, <1>s, <1>c DEF RolesInv

LEMMA DrainedKeeps ==
  ASSUME RolesInv, NEW m \in PartsOf(role), Drained(m)
  PROVE  RolesInv'
<1>r. role' = role
  BY DEF Drained, PartVars
<1>t5. part' \in [PartsOf(role) -> PartState]
  BY DEF Drained, PartVars, RolesInv, RoleTypes, PartState, Phase
<1>t. RoleTypes'
  BY <1>r, <1>t5 DEF Drained, PartVars, RolesInv, RoleTypes
<1>p. ASSUME NEW x \in PartsOf(role)
      PROVE  PartSound(x)'
  BY <1>r, LoopPlaces
  DEF Drained, PartVars, RolesInv, RoleTypes, PartSound, HeldBy, PartState,
      JobState
<1>l. ASSUME NEW x \in LoopsOf(role)
      PROVE  LoopSound(x)'
  BY <1>r, LoopPlaces
  DEF Drained, PartVars, RolesInv, RoleTypes, LoopSound, PartState, LoopState
<1>s. \A x \in PartsOf(role) : SweepSound(x)'
  BY <1>r DEF Drained, PartVars, RolesInv, SweepSound
<1>c. ClosingOrder'
  BY <1>r
  DEF Drained, PartVars, RolesInv, RoleTypes, ClosingOrder, Untouched,
      BothSignalled, InFlight
<1> QED
  BY <1>r, <1>t, <1>p, <1>l, <1>s, <1>c DEF RolesInv

LEMMA GraceExpiresKeeps ==
  ASSUME RolesInv, NEW m \in PartsOf(role), GraceExpires(m)
  PROVE  RolesInv'
<1>r. role' = role
  BY DEF GraceExpires, PartVars
<1>t5. part' \in [PartsOf(role) -> PartState]
  <2>1. part[m] \in PartState
    BY DEF RolesInv, RoleTypes
  <2>2. /\ [part[m] EXCEPT !.phase = "cancelled"] \in PartState
        /\ [part[m] EXCEPT !.phase = "releasing", !.forced = TRUE] \in PartState
    BY <2>1 DEF PartState, Phase
  <2>3. \/ part' = [part EXCEPT ![m] = [part[m] EXCEPT !.phase = "cancelled"]]
        \/ part' = [part EXCEPT ![m] = [part[m] EXCEPT !.phase = "releasing", !.forced = TRUE]]
    BY DEF GraceExpires, RolesInv, RoleTypes
  <2> QED
    BY <2>2, <2>3 DEF RolesInv, RoleTypes
<1>t. RoleTypes'
  BY <1>r, <1>t5 DEF GraceExpires, PartVars, RolesInv, RoleTypes
<1>p. ASSUME NEW x \in PartsOf(role)
      PROVE  PartSound(x)'
  BY <1>r, LoopPlaces
  DEF GraceExpires, PartVars, RolesInv, RoleTypes, PartSound, HeldBy,
      PartState, JobState
<1>l. ASSUME NEW x \in LoopsOf(role)
      PROVE  LoopSound(x)'
  BY <1>r, LoopPlaces
  DEF GraceExpires, PartVars, RolesInv, RoleTypes, LoopSound, PartState,
      LoopState
<1>s. \A x \in PartsOf(role) : SweepSound(x)'
  BY <1>r DEF GraceExpires, PartVars, RolesInv, SweepSound
<1>c. ClosingOrder'
  BY <1>r
  DEF GraceExpires, PartVars, RolesInv, RoleTypes, ClosingOrder, Untouched,
      BothSignalled, InFlight
<1> QED
  BY <1>r, <1>t, <1>p, <1>l, <1>s, <1>c DEF RolesInv

LEMMA ConsumerFailsKeeps ==
  ASSUME RolesInv, NEW m \in PartsOf(role), ConsumerFails(m)
  PROVE  RolesInv'
<1>r. role' = role
  BY DEF ConsumerFails, PartVars, Fault
<1>t5. part' \in [PartsOf(role) -> PartState]
  BY DEF ConsumerFails, PartVars, Fault, RolesInv, RoleTypes, PartState, Phase
<1>t13. roleFaults' \in 0..RoleFaultBound
  BY DEF ConsumerFails, PartVars, Fault, RolesInv, RoleTypes
<1>t. RoleTypes'
  BY <1>r, <1>t5, <1>t13 DEF ConsumerFails, PartVars, Fault, RolesInv, RoleTypes
<1>p. ASSUME NEW x \in PartsOf(role)
      PROVE  PartSound(x)'
  BY <1>r, LoopPlaces
  DEF ConsumerFails, PartVars, Fault, RolesInv, RoleTypes, PartSound, HeldBy,
      PartState, JobState
<1>l. ASSUME NEW x \in LoopsOf(role)
      PROVE  LoopSound(x)'
  BY <1>r, LoopPlaces
  DEF ConsumerFails, PartVars, Fault, RolesInv, RoleTypes, LoopSound,
      PartState, LoopState
<1>s. \A x \in PartsOf(role) : SweepSound(x)'
  BY <1>r DEF ConsumerFails, PartVars, Fault, RolesInv, SweepSound
<1>c. ClosingOrder'
  BY <1>r
  DEF ConsumerFails, PartVars, Fault, RolesInv, RoleTypes, ClosingOrder,
      Untouched, BothSignalled, InFlight
<1> QED
  BY <1>r, <1>t, <1>p, <1>l, <1>s, <1>c DEF RolesInv

LEMMA ReleasesKeeps ==
  ASSUME RolesInv, NEW m \in PartsOf(role), NEW c \in HeldBy(m), Releases(m, c)
  PROVE  RolesInv'
<1>r. role' = role
  BY DEF Releases, PartVars, Fault, ReleasesNext
<1>e. /\ part' \in [PartsOf(role) -> PartState]
      /\ part'[m].phase = "releasing" /\ part'[m].forced = part[m].forced
      /\ \A x \in PartsOf(role) : x # m => part'[x] = part[x]
  <2>1. part[m] \in PartState /\ part[m].phase = "releasing"
    BY DEF Releases, RolesInv, RoleTypes
  <2>2. part' = part \/ part' = [part EXCEPT ![m] = [part[m] EXCEPT !.failed = TRUE]]
    BY DEF Releases, RolesInv, RoleTypes
  <2>3. /\ [part[m] EXCEPT !.failed = TRUE] \in PartState
        /\ [part[m] EXCEPT !.failed = TRUE].phase = "releasing"
        /\ [part[m] EXCEPT !.failed = TRUE].forced = part[m].forced
    BY <2>1 DEF PartState
  <2> QED
    BY <2>1, <2>2, <2>3 DEF RolesInv, RoleTypes
<1>h. /\ held' = held \ {<<m, c>>} /\ life = "serving" /\ part[m].phase = "releasing"
      /\ life' = life /\ server' = server /\ closing' = closing /\ job' = job
      /\ exitCode' = exitCode /\ request' = request
  BY DEF Releases, PartVars
<1>t5. part' \in [PartsOf(role) -> PartState]
  BY <1>e
<1>t9. held' \subseteq PartsOf(role) \X Connection
  BY DEF Releases, PartVars, Fault, ReleasesNext, RolesInv, RoleTypes
<1>t13. roleFaults' \in 0..RoleFaultBound
  BY DEF Releases, PartVars, Fault, ReleasesNext, RolesInv, RoleTypes
<1>t. RoleTypes'
  BY <1>r, <1>t5, <1>t9, <1>t13
  DEF Releases, PartVars, Fault, ReleasesNext, RolesInv, RoleTypes
<1>p. ASSUME NEW x \in PartsOf(role)
      PROVE  PartSound(x)'
  <2>1. CASE x = m
    BY <1>r, <1>e, <1>h, <2>1 DEF RolesInv, PartSound
  <2>2. CASE x # m
    <3>1. HeldBy(x)' = HeldBy(x)
      BY <1>h, <2>2 DEF HeldBy
    <3> QED
      BY <1>r, <1>e, <1>h, <2>2, <3>1 DEF RolesInv, PartSound
  <2> QED
    BY <2>1, <2>2
<1>l. ASSUME NEW x \in LoopsOf(role)
      PROVE  LoopSound(x)'
  <2>1. x[1] \in PartsOf(role) /\ loop' = loop
    BY LoopPlaces DEF Releases, PartVars
  <2>2. part'[x[1]].phase = part[x[1]].phase
    BY <1>e, <1>h, <2>1
  <2> QED
    BY <2>1, <2>2 DEF RolesInv, LoopSound
<1>s. \A x \in PartsOf(role) : SweepSound(x)'
  BY <1>r DEF Releases, PartVars, Fault, ReleasesNext, RolesInv, SweepSound
<1>c. ClosingOrder'
  <2>1. \A x \in PartsOf(role) : Untouched(x)' => Untouched(x)
    BY <1>e, <1>h DEF Untouched
  <2>2. \A x \in PartsOf(role) : part'[x].phase = part[x].phase
    BY <1>e, <1>h
  <2> QED
    BY <1>r, <1>h, <2>1, <2>2
    DEF RolesInv, ClosingOrder, Untouched, BothSignalled, InFlight
<1> QED
  BY <1>r, <1>t, <1>p, <1>l, <1>s, <1>c DEF RolesInv

LEMMA PartClosesKeeps ==
  ASSUME RolesInv, NEW m \in PartsOf(role), PartCloses(m)
  PROVE  RolesInv'
<1>r. role' = role
  BY DEF PartCloses, PartVars, PartEnds
<1>t5. part' \in [PartsOf(role) -> PartState]
  BY DEF PartCloses, PartVars, PartEnds, RolesInv, RoleTypes, PartState, Phase
<1>t. RoleTypes'
  BY <1>r, <1>t5 DEF PartCloses, PartVars, PartEnds, RolesInv, RoleTypes
<1>p. ASSUME NEW x \in PartsOf(role)
      PROVE  PartSound(x)'
  BY <1>r, LoopPlaces
  DEF PartCloses, PartVars, PartEnds, RolesInv, RoleTypes, PartSound, HeldBy,
      PartState, JobState
<1>l. ASSUME NEW x \in LoopsOf(role)
      PROVE  LoopSound(x)'
  BY <1>r, LoopPlaces
  DEF PartCloses, PartVars, PartEnds, RolesInv, RoleTypes, LoopSound,
      PartState, LoopState
<1>s. \A x \in PartsOf(role) : SweepSound(x)'
  BY <1>r DEF PartCloses, PartVars, PartEnds, RolesInv, SweepSound
<1>c. ClosingOrder'
  BY <1>r
  DEF PartCloses, PartVars, PartEnds, RolesInv, RoleTypes, ClosingOrder,
      Untouched, BothSignalled, InFlight
<1> QED
  BY <1>r, <1>t, <1>p, <1>l, <1>s, <1>c DEF RolesInv

LEMMA CloseEndsKeeps ==
  ASSUME RolesInv, NEW s \in Signal, CloseEnds(s)
  PROVE  RolesInv'
<1>r. role' = role
  BY DEF CloseEnds, CloseVars, Settled
<1>e. /\ \A x \in PartsOf(role) : part[x].phase = "closed"
      /\ held = {}
      /\ life = "serving" /\ closing[s] = "settling"
      /\ server' = server /\ part' = part /\ held' = held /\ request' = request
  <2>1. \A x \in PartsOf(role) : part[x].phase = "closed" /\ HeldBy(x) = {}
    BY DEF CloseEnds, Settled, RolesInv, PartSound
  <2>2. held = {}
    BY <2>1 DEF HeldBy, RolesInv, RoleTypes, Connection
  <2> QED
    BY <2>1, <2>2 DEF CloseEnds, CloseVars
<1>t1. life' \in {"starting", "serving", "exited", "killed"}
  BY DEF CloseEnds, CloseVars, Settled, RolesInv, RoleTypes
<1>t2. exitCode' \in {-1, 0, 1}
  BY DEF CloseEnds, CloseVars, Settled, RolesInv, RoleTypes
<1>t4. closing' \in [Signal -> Stage]
  <2>1. closing' = closing \/ closing' = [closing EXCEPT ![s] = "done"]
    BY DEF CloseEnds
  <2> QED
    BY <2>1 DEF RolesInv, RoleTypes, Stage
<1>t. RoleTypes'
  BY <1>r, <1>t1, <1>t2, <1>t4
  DEF CloseEnds, CloseVars, Settled, RolesInv, RoleTypes
<1>p. \A x \in PartsOf(role) : PartSound(x)'
  BY <1>r DEF CloseEnds, CloseVars, Settled, RolesInv, PartSound, HeldBy
<1>l. \A x \in LoopsOf(role) : LoopSound(x)'
  BY <1>r DEF CloseEnds, CloseVars, Settled, RolesInv, LoopSound
<1>s. \A x \in PartsOf(role) : SweepSound(x)'
  BY <1>r DEF CloseEnds, CloseVars, Settled, RolesInv, SweepSound
<1>c. ClosingOrder'
  <2>1. CASE \E x \in PartsOf(role) : part[x].failed
    <3>1. life' = "exited" /\ exitCode' = 1 /\ closing' = closing
      BY <2>1 DEF CloseEnds
    <3> QED
      BY <1>r, <1>e, <3>1
      DEF RolesInv, ClosingOrder, Untouched, BothSignalled, InFlight
  <2>2. CASE ~ \E x \in PartsOf(role) : part[x].failed
    <3>1. closing' = [closing EXCEPT ![s] = "done"] /\ life' = life /\ exitCode' = exitCode
      BY <2>2 DEF CloseEnds
    <3>2. /\ closing'[s] = "done"
          /\ \A t \in Signal : t # s => closing'[t] = closing[t]
      BY <3>1 DEF RolesInv, RoleTypes
    <3>3. BothSignalled => BothSignalled'
      BY <1>r, <3>2 DEF BothSignalled
    <3> QED
      BY <1>r, <1>e, <2>2, <3>1, <3>2, <3>3
      DEF RolesInv, ClosingOrder, Untouched, InFlight
  <2> QED
    BY <2>1, <2>2
<1> QED
  BY <1>r, <1>t, <1>p, <1>l, <1>s, <1>c DEF RolesInv

LEMMA ExitsKeeps ==
  ASSUME RolesInv, Exits
  PROVE  RolesInv'
<1>r. role' = role
  BY DEF Exits, CloseVars
<1>e. /\ \A x \in PartsOf(role) : part[x].phase = "closed" /\ ~part[x].failed
      /\ held = {}
      /\ life = "serving" /\ life' = "exited"
      /\ server' = server /\ part' = part /\ held' = held /\ request' = request
      /\ closing' = closing
  <2>1. \A x \in PartsOf(role) : part[x].phase = "closed" /\ HeldBy(x) = {}
    BY DEF Exits, RolesInv, PartSound
  <2>2. held = {}
    BY <2>1 DEF HeldBy, RolesInv, RoleTypes, Connection
  <2>3. \A x \in PartsOf(role) : ~part[x].failed
    BY <2>1, SomeParts DEF Exits, RolesInv, ClosingOrder, Untouched
  <2> QED
    BY <2>1, <2>2, <2>3 DEF Exits, CloseVars
<1>t1. life' \in {"starting", "serving", "exited", "killed"}
  BY DEF Exits, CloseVars, RolesInv, RoleTypes
<1>t2. exitCode' \in {-1, 0, 1}
  BY DEF Exits, CloseVars, RolesInv, RoleTypes
<1>t. RoleTypes'
  BY <1>r, <1>t1, <1>t2 DEF Exits, CloseVars, RolesInv, RoleTypes
<1>p. \A x \in PartsOf(role) : PartSound(x)'
  BY <1>r DEF Exits, CloseVars, RolesInv, PartSound, HeldBy
<1>l. \A x \in LoopsOf(role) : LoopSound(x)'
  BY <1>r DEF Exits, CloseVars, RolesInv, LoopSound
<1>s. \A x \in PartsOf(role) : SweepSound(x)'
  BY <1>r DEF Exits, CloseVars, RolesInv, SweepSound
<1>c. ClosingOrder'
  BY <1>r, <1>e DEF RolesInv, ClosingOrder, Untouched, BothSignalled, InFlight
<1> QED
  BY <1>r, <1>t, <1>p, <1>l, <1>s, <1>c DEF RolesInv

LEMMA RolesInitially ==
  ASSUME RolesInit
  PROVE  RolesInv
<1>1. BatchesPerSweep \in Nat /\ 0 \in 0..Batches /\ 0 \in 0..BatchesPerSweep
  OBVIOUS
<1>2. NewSweep \in SweepState
  BY <1>1 DEF NewSweep, SweepState
<1>3. \A p \in PartsOf(role) :
        /\ part[p] = [phase |-> "built", forced |-> FALSE, failed |-> FALSE]
        /\ job[p] = [state |-> "none", taken |-> 0]
        /\ sweep[p] = NewSweep
  BY DEF RolesInit
<1>4. held \subseteq PartsOf(role) \X Connection
  BY DEF RolesInit, ConnectionsOf, Connection
<1>5. ASSUME NEW p \in PartsOf(role)
      PROVE  ConnectionsOf(role, p) \subseteq HeldBy(p)
  <2>1. ConnectionsOf(role, p) \subseteq {"queue", "pool", "observation"}
    BY DEF ConnectionsOf
  <2> QED
    BY <2>1 DEF RolesInit, HeldBy
<1>6. part \in [PartsOf(role) -> PartState]
  BY DEF RolesInit, PartState, Phase
<1>7. loop \in [LoopsOf(role) -> LoopState]
  BY DEF RolesInit, LoopState
<1>8. job \in [PartsOf(role) -> JobState]
  BY DEF RolesInit, JobState
<1>9. RoleTypes
  BY <1>2, <1>4, <1>6, <1>7, <1>8 DEF RolesInit, RoleTypes, Stage, RequestState
<1>10. \A p \in PartsOf(role) : PartSound(p)
  BY <1>3, <1>5 DEF PartSound
<1>11. \A l \in LoopsOf(role) : LoopSound(l)
  BY DEF RolesInit, LoopSound
<1>12. 1..0 = {}
  OBVIOUS
<1>13. \A p \in PartsOf(role) : SweepSound(p)
  BY <1>3, <1>12 DEF SweepSound, NewSweep
<1>14. ClosingOrder
  BY <1>3 DEF RolesInit, ClosingOrder, Untouched
<1> QED
  BY <1>9, <1>10, <1>11, <1>13, <1>14 DEF RolesInv

LEMMA RolesSame ==
  ASSUME RolesInv, UNCHANGED roleVars
  PROVE  RolesInv'
BY DEF roleVars, RolesInv, RoleTypes, PartSound, LoopSound, SweepSound,
   ClosingOrder,
       Untouched, BothSignalled, InFlight, HeldBy

LEMMA RolesEnds ==
  ASSUME RolesInv, Ends
  PROVE  RolesInv'
BY PassEndsKeeps, SweepBatchKeeps, SweepEndsKeeps, JobCompletesKeeps,
   RecordingEndsKeeps, RequestEndsKeeps, CheckPassesKeeps, SaysReadyKeeps,
   SaysNotReadyKeeps DEF Ends

LEMMA RolesCloses ==
  ASSUME RolesInv, Closes
  PROVE  RolesInv'
BY ServerClosesKeeps, ClosesPartsKeeps, CloseEndsKeeps, PartStoppedKeeps, DrainedKeeps,
   GraceExpiresKeeps, ReleasesKeeps, PartClosesKeeps, ExitsKeeps DEF Closes

LEMMA RolesKeep ==
  ASSUME RolesInv, RolesNext
  PROVE  RolesInv'
BY StartKeeps, ListenKeeps, StartFailsKeeps, DieKeeps, DependencyFailsKeeps, DependencyReturnsKeeps,
   PassStartsKeeps, SweepFailsKeeps, JobStartsKeeps, ConsumerFailsKeeps,
   RequestArrivesKeeps, TerminateKeeps, RolesEnds, RolesCloses DEF RolesNext

LEMMA RedisChangesKeeps ==
  ASSUME RolesInv, RedisChanges
  PROVE  RolesInv'
<1>1. UNCHANGED <<role, life, exitCode, server, closing, part, loop, sweep, job, held,
                  request, checks, working>>
  BY DEF RedisChanges
<1>2. roleFaults' \in 0..RoleFaultBound
  BY DEF RedisChanges, Fault, RolesInv, RoleTypes
<1>3. RoleTypes'
  BY <1>1, <1>2 DEF RolesInv, RoleTypes
<1> QED
  BY <1>1, <1>3 DEF RolesInv, PartSound, LoopSound, SweepSound, ClosingOrder,
     Untouched, BothSignalled, InFlight, HeldBy

LEMMA MonitorKeepsRoles ==
  ASSUME RolesInv, MonitorNext
  PROVE  RolesInv'
<1>1. CASE RolesNext
  BY <1>1, RolesKeep
<1>2. CASE ReadinessAsked
  BY <1>2, ReadinessAskedKeeps
<1>3. CASE RedisChanges
  BY <1>3, RedisChangesKeeps
<1>4. CASE UNCHANGED roleVars
  BY <1>4, RolesSame
<1> QED
  BY <1>1, <1>2, <1>3, <1>4
  DEF MonitorNext, MonitorStep, RoleStep, StartProbing, AskRole, RoleAnswers, PingRedis,
      RedisAnswers, Report, Notify, Conclude, roleVars

LEMMA RolesInvImplies ==
  ASSUME RolesInv
  PROVE  RolesConsistent
<1>1. RolesTypeOK
  BY LoopPlaces
  DEF RolesInv, RoleTypes, RolesTypeOK, PartState, LoopState, Phase, Stage
<1>2. ResourcesOutliveWork
  <2>1. ASSUME NEW p \in PartsOf(role), ~(ConnectionsOf(role, p) \subseteq HeldBy(p))
        PROVE  /\ \A l \in LoopsOf(role) : l[1] = p => loop[l].state # "active"
               /\ job[p].state # "none" => part[p].forced
    <3>1. PartSound(p) /\ part[p].phase \in {"releasing", "closed"}
      BY <2>1 DEF RolesInv, PartSound
    <3> QED
      BY <3>1 DEF RolesInv, PartSound, LoopSound
  <2> QED
    BY <2>1 DEF ResourcesOutliveWork
<1>3. RequestsKeepTheirResources
  <2>1. ASSUME Alive, NEW q \in Request, InFlight(q), ~BothSignalled,
               NEW p \in PartsOf(role)
        PROVE  ConnectionsOf(role, p) \subseteq HeldBy(p)
    <3>1. server # "closed"
      BY <2>1 DEF RolesInv, ClosingOrder
    <3>2. Untouched(p)
      BY <2>1, <3>1 DEF RolesInv, ClosingOrder
    <3> QED
      BY <3>2 DEF RolesInv, PartSound, Untouched
  <2> QED
    BY <2>1 DEF RequestsKeepTheirResources, BothSignalled
<1>4. NothingLeaks
  BY DEF RolesInv, ClosingOrder, NothingLeaks
<1>5. SweepsMissNothing
  BY DEF RolesInv, SweepSound, SweepsMissNothing
<1> QED
  BY <1>1, <1>2, <1>3, <1>4, <1>5 DEF RolesConsistent

(***************************************************************************)
(* Whatever fails and whoever is told to stop, for any numbers of requests *)
(* and batches, any limits and any bounds: a runtime gives its connections *)
(* back only when nothing uses them, a request keeps those it needs, a     *)
(* process that ends by itself holds none, and a sweep that says it is     *)
(* complete has examined every batch.                                      *)
(***************************************************************************)
THEOREM RolesStayConsistent == MonitorSpec => []RolesConsistent
<1>1. MonitorInit => RolesInv
  BY RolesInitially DEF MonitorInit
<1>2. RolesInv /\ [MonitorNext]_<<roleVars, monitorVars>> => RolesInv'
  BY MonitorKeepsRoles, RolesSame
<1>3. RolesInv => RolesConsistent
  BY RolesInvImplies
<1> QED
  BY <1>1, <1>2, <1>3, PTL DEF MonitorSpec

-----------------------------------------------------------------------------
(* The monitor.  What it has seen only grows until it reports, and an      *)
(* answer is there only after each of its checks has passed.               *)

LEMMA SeenGrows ==
  ASSUME Witness
  PROVE  /\ monitor' = "probing" /\ code' # 1 => seen' = seen \cup Facts'
         /\ monitor' # "probing" /\ code' # 1 => seen' = seen
BY DEF Witness

LEMMA Asking ==
  ASSUME MonitorInv, probe.role \in {"asking", "asked"} \/ probe.redis \in {"asking", "asked"}
  PROVE  monitor = "probing" /\ code = -1
BY DEF MonitorInv, MonitorTypes, Progress, Status

(* Only the checks themselves and their answer touch the probe's request.  *)
LEMMA ProbeTouched ==
  ASSUME RolesInv, RolesNext
  PROVE  /\ role' = role
         /\ \/ request'["probe"] = request["probe"] /\ checks' = checks
            \/ \E d \in Dependency : CheckPasses(d)
            \/ SaysReady
            \/ SaysNotReady
<1> DEFINE Goal == /\ role' = role
                   /\ \/ request'["probe"] = request["probe"] /\ checks' = checks
                      \/ \E d \in Dependency : CheckPasses(d)
                      \/ SaysReady
                      \/ SaysNotReady
<1>1. ASSUME role' = role, request' = request, checks' = checks
      PROVE  Goal
  BY <1>1
<1> HIDE DEF Goal
<1>2. CASE Ends
  <2>1. CASE \E l \in LoopsOf(role) : PassEnds(l) \/ SweepBatch(l) \/ SweepEnds(l)
    BY <1>1, <2>1 DEF PassEnds, SweepBatch, SweepEnds, LoopVars
  <2>2. CASE \E p \in PartsOf(role) : JobCompletes(p) \/ RecordingEnds(p)
    BY <1>1, <2>2 DEF JobCompletes, RecordingEnds, JobVars
  <2>3. CASE \E q \in Client : RequestEnds(q)
    BY <2>3, ProbeRequest
    DEF RequestEnds, RequestVars, RolesInv, RoleTypes, Goal
  <2>4. CASE (\E d \in Dependency : CheckPasses(d)) \/ SaysReady \/ SaysNotReady
    BY <2>4 DEF CheckPasses, SaysReady, SaysNotReady, RequestVars, Goal
  <2> QED
    BY <1>2, <2>1, <2>2, <2>3, <2>4 DEF Ends
<1>3. CASE Closes
  <2>1. CASE \E s \in Signal : ServerCloses(s) \/ ClosesParts(s) \/ CloseEnds(s)
    BY <1>1, <2>1 DEF ServerCloses, ClosesParts, CloseEnds, CloseVars
  <2>2. CASE Exits
    BY <1>1, <2>2 DEF Exits, CloseVars
  <2>3. CASE \E p \in PartsOf(role) :
               \/ PartStopped(p)
               \/ Drained(p)
               \/ GraceExpires(p)
               \/ \E c \in HeldBy(p) : Releases(p, c)
               \/ PartCloses(p)
    BY <1>1, <2>3
    DEF PartStopped, Drained, GraceExpires, PartCloses, Releases, PartVars
  <2> QED
    BY <1>3, <2>1, <2>2, <2>3 DEF Closes
<1>4. CASE Start \/ Listen \/ StartFails \/ Die
  BY <1>1, <1>4 DEF Start, Listen, StartFails, Die
<1>5. ASSUME NEW d \in Dependency, DependencyFails(d) \/ DependencyReturns(d)
      PROVE  Goal
  BY <1>1, <1>5 DEF DependencyFails, DependencyReturns
<1>6. ASSUME NEW l \in LoopsOf(role), PassStarts(l) \/ SweepFails(l)
      PROVE  Goal
  BY <1>1, <1>6 DEF PassStarts, SweepFails, LoopVars
<1>7. ASSUME NEW p \in PartsOf(role), JobStarts(p) \/ ConsumerFails(p)
      PROVE  Goal
  BY <1>1, <1>7 DEF JobStarts, ConsumerFails, JobVars, PartVars
<1>8. ASSUME NEW q \in Client, RequestArrives(q)
      PROVE  Goal
  <2>2. q # "probe" /\ q \in Request /\ "probe" \in Request
    BY ProbeRequest
  <2>3. PICK a : request' = [request EXCEPT ![q] = a]
    BY <1>8 DEF RequestArrives
  <2> QED
    BY <1>8, <2>2, <2>3
    DEF RequestArrives, RequestVars, RolesInv, RoleTypes, Goal
<1>9. ASSUME NEW s \in Signal, Terminate(s)
      PROVE  Goal
  BY <1>1, <1>9 DEF Terminate, CloseVars
<1> QED
  BY <1>2, <1>3, <1>4, <1>5, <1>6, <1>7, <1>8, <1>9 DEF RolesNext, Goal

(* What does not touch the request, the probes and the monitor's stage     *)
(* keeps what is known: `seen` only grows while the monitor probes.        *)
LEMMA KnowledgeKept ==
  ASSUME MonitorInv, Witness, role' = role, monitor' = monitor, probe' = probe,
         code' = code, request'["probe"] = request["probe"], checks' = checks
  PROVE  MonitorInv'
<1>1. monitor = "probing" \/ code = 0 \/ monitor = "reported" => seen \subseteq seen'
  BY SeenGrows DEF MonitorInv, Progress
<1> QED
  BY <1>1
  DEF MonitorInv, MonitorTypes, Answered, Progress, Believed, AvailableWasSeen,
      Needs

LEMMA RolesKeepKnowledge ==
  ASSUME RolesInv, MonitorInv, RoleStep(RolesNext), Witness
  PROVE  MonitorInv'
<1>1. /\ role' = role /\ monitor' = monitor /\ probe' = probe /\ code' = code
      /\ Needs(role') = Needs(role)
  BY ProbeTouched DEF RoleStep
<1>2. monitor = "probing" => seen' = seen \cup Facts'
  BY <1>1, SeenGrows DEF MonitorInv, Progress
<1>3. monitor = "probing" \/ code = 0 \/ monitor = "reported" => seen \subseteq seen'
  BY <1>1, SeenGrows DEF MonitorInv, Progress
<1>4. MonitorTypes' /\ Believed' /\ AvailableWasSeen'
  BY <1>1, <1>3
  DEF MonitorInv, MonitorTypes, Believed, AvailableWasSeen, Progress
<1>5. CASE request'["probe"] = request["probe"] /\ checks' = checks
  BY <1>1, <1>5, KnowledgeKept
<1>6. ASSUME NEW d \in Dependency, CheckPasses(d)
      PROVE  MonitorInv'
  <2>1. /\ request'["probe"] = "checking" /\ request["probe"] = "checking"
        /\ checks' = checks \ {d} /\ d \in working'
    BY <1>6 DEF CheckPasses, RequestVars
  <2>2. d \in Facts'
    BY <1>6, <2>1 DEF Facts
  <2>5. monitor = "probing" => seen \subseteq seen' /\ d \in seen'
    BY <1>2, <2>2
  <2>3. Answered'
    BY <1>1, <2>1, <2>5 DEF MonitorInv, Answered
  <2>4. Progress'
    BY <1>1, <2>1 DEF MonitorInv, Progress
  <2> QED
    BY <1>4, <2>3, <2>4 DEF MonitorInv
<1>7. CASE SaysReady \/ SaysNotReady
  <2>1. /\ request["probe"] = "checking" /\ request'["probe"] \in {"ready", "not ready"}
        /\ checks' = {}
        /\ request'["probe"] = "ready" => checks = {}
    BY <1>7, ProbeRequest
    DEF SaysReady, SaysNotReady, ReadinessPassed, RolesInv, RoleTypes
  <2>2. Answered'
    BY <1>1, <1>2, <2>1 DEF MonitorInv, Answered
  <2>3. Progress'
    BY <1>1, <2>1 DEF MonitorInv, Progress
  <2> QED
    BY <1>4, <2>2, <2>3 DEF MonitorInv
<1>8. RolesNext
  BY DEF RoleStep
<1> QED
  BY <1>5, <1>6, <1>7, <1>8, ProbeTouched

LEMMA AskingKeepsKnowledge ==
  ASSUME RolesInv, MonitorInv, StartProbing \/ AskRole \/ RoleAnswers, Witness
  PROVE  MonitorInv'
<1>1. CASE StartProbing
  <2>1. /\ monitor = "waiting" /\ monitor' = "probing" /\ code' = code /\ code = -1
        /\ probe' = [role |-> "asking", redis |-> "asking"]
        /\ request' = request /\ checks' = checks /\ role' = role
        /\ request["probe"] = "none"
    BY <1>1 DEF StartProbing, roleVars, MonitorInv, Progress
  <2> QED
    BY <2>1 DEF MonitorInv, MonitorTypes, Answered, Progress, Believed,
                AvailableWasSeen, Status
<1>2. CASE AskRole
  <2>1. /\ monitor = "probing" /\ code = -1 /\ monitor' = monitor /\ code' = code
        /\ probe' = [probe EXCEPT !.role = "asked"]
    BY <1>2, Asking DEF AskRole
  <2>2. /\ request'["probe"] = "checking" /\ checks' = Needs(role) /\ role' = role
        /\ server' = "open"
    BY <1>2, ProbeRequest
    DEF AskRole, ReadinessAsked, RequestVars, RolesInv, RoleTypes
  <2>9. /\ life = "serving" /\ life' = life /\ part' = part
    BY <1>2 DEF AskRole, ReadinessAsked, RequestVars
  <2>10. Serving'
    BY <2>2, <2>9 DEF Serving, RolesInv, ClosingOrder
  <2>3. "serving" \in seen' /\ seen \subseteq seen'
    BY <2>1, <2>10, SeenGrows DEF Facts
  <2>4. /\ probe' \in [{"role", "redis"} -> Status \cup {"none", "asking", "asked"}]
        /\ probe'.role = "asked" /\ probe'.redis = probe.redis
    BY <2>1 DEF MonitorInv, MonitorTypes
  <2>5. MonitorTypes' /\ Progress' /\ AvailableWasSeen'
    BY <2>1, <2>4 DEF MonitorInv, MonitorTypes, Progress, AvailableWasSeen
  <2>6. Answered'
    BY <2>2, <2>3 DEF Answered
  <2>7. Believed'
    BY <2>1, <2>3, <2>4 DEF MonitorInv, Believed
  <2> QED
    BY <2>5, <2>6, <2>7 DEF MonitorInv
<1>3. CASE RoleAnswers
  <2>1. /\ monitor = "probing" /\ code = -1 /\ monitor' = monitor /\ code' = code
        /\ probe' = [probe EXCEPT !.role = RoleStatus]
        /\ request' = request /\ checks' = checks /\ role' = role
    BY <1>3, Asking DEF RoleAnswers, roleVars
  <2>2. RoleStatus \in {"available", "unavailable"}
    BY DEF RoleStatus
  <2>3. seen \subseteq seen'
    BY <2>1, SeenGrows
  <2>4. /\ probe' \in [{"role", "redis"} -> Status \cup {"none", "asking", "asked"}]
        /\ probe'.role = RoleStatus /\ probe'.redis = probe.redis
    BY <2>1, <2>2 DEF MonitorInv, MonitorTypes, Status
  <2>5. MonitorTypes' /\ Progress' /\ AvailableWasSeen'
    BY <2>1, <2>4 DEF MonitorInv, MonitorTypes, Progress, AvailableWasSeen
  <2>6. Answered'
    BY <2>1, <2>3 DEF MonitorInv, Answered, Needs
  <2>7. RoleStatus = "available" => {"serving"} \cup Needs(role) \subseteq seen
    BY <2>1 DEF RoleStatus, MonitorInv, Answered
  <2>8. Believed'
    BY <2>1, <2>3, <2>4, <2>7 DEF MonitorInv, Believed, Needs
  <2> QED
    BY <2>5, <2>6, <2>8 DEF MonitorInv
<1> QED
  BY <1>1, <1>2, <1>3

LEMMA RedisKeepsKnowledge ==
  ASSUME MonitorInv, PingRedis \/ RedisAnswers \/ RedisChanges, Witness
  PROVE  MonitorInv'
<1>1. CASE RedisChanges
  BY <1>1, KnowledgeKept DEF RedisChanges
<1>2. CASE PingRedis \/ RedisAnswers
  <2>1. /\ monitor = "probing" /\ code = -1 /\ monitor' = monitor /\ code' = code
        /\ request' = request /\ checks' = checks /\ role' = role
        /\ working' = working /\ redisState' = redisState
    BY <1>2, Asking DEF PingRedis, RedisAnswers, roleVars
  <2>2. PICK a \in {"asked", "available", "degraded", "unavailable"} :
          /\ probe' = [probe EXCEPT !.redis = a]
          /\ a = "available" => redisState = "safe" /\ "redis" \in working
    BY <1>2 DEF PingRedis, RedisAnswers, RedisStatus
  <2>3. seen \subseteq seen' /\ (a = "available" => "safe" \in seen')
    BY <2>1, <2>2, SeenGrows DEF Facts
  <2>4. /\ probe' \in [{"role", "redis"} -> Status \cup {"none", "asking", "asked"}]
        /\ probe'.redis = a /\ probe'.role = probe.role
    BY <2>2 DEF MonitorInv, MonitorTypes, Status
  <2>5. MonitorTypes' /\ Progress' /\ AvailableWasSeen'
    BY <2>1, <2>4 DEF MonitorInv, MonitorTypes, Progress, AvailableWasSeen
  <2>6. Answered'
    BY <2>1, <2>3 DEF MonitorInv, Answered, Needs
  <2>7. Believed'
    BY <2>1, <2>3, <2>4 DEF MonitorInv, Believed, Needs
  <2> QED
    BY <2>5, <2>6, <2>7 DEF MonitorInv
<1> QED
  BY <1>1, <1>2

LEMMA ReportingKeepsKnowledge ==
  ASSUME MonitorInv, Report \/ Notify \/ Conclude, Witness
  PROVE  MonitorInv'
<1>1. /\ request' = request /\ checks' = checks /\ role' = role
  BY DEF Report, Notify, Conclude, roleVars
<1>2. CASE Report
  <2>1. /\ monitor = "probing" /\ monitor' = "reported" /\ code = -1 /\ code' = -1
        /\ probe' = probe /\ probe.role \in Status /\ probe.redis \in Status
        /\ seen' = seen
    BY <1>2, SeenGrows DEF Report, MonitorInv, Progress
  <2> QED
    BY <1>1, <2>1 DEF MonitorInv, MonitorTypes, Answered, Progress, Believed,
                      AvailableWasSeen, Needs
<1>3. CASE Notify
  BY <1>1, <1>3, KnowledgeKept DEF Notify
<1>4. CASE Conclude
  <2>1. /\ monitor = "reported" /\ monitor' = "done" /\ code' \in {0, 1}
        /\ probe' = [role |-> "none", redis |-> "none"]
        /\ code' = 0 => Aggregate = "available"
    BY <1>4 DEF Conclude
  <2>2. Aggregate = "available" => probe.role = "available" /\ probe.redis = "available"
    BY <2>1 DEF MonitorInv, Progress, Status, Aggregate
  <2>3. code' = 0 => {"serving", "safe"} \cup Needs(role) \subseteq seen
    BY <2>1, <2>2 DEF MonitorInv, Believed
  <2>4. code' = 0 => seen' = seen
    BY <2>1, SeenGrows
  <2> QED
    BY <1>1, <2>1, <2>3, <2>4
    DEF MonitorInv, MonitorTypes, Answered, Progress, Believed, AvailableWasSeen, Needs,
        Status
<1> QED
  BY <1>2, <1>3, <1>4

(***************************************************************************)
(* A monitor that exits with 0 has seen, since it began to look, the role  *)
(* serving, every dependency its readiness stands for answering and Redis  *)
(* safe: for every role, whatever fails and returns in between.            *)
(***************************************************************************)
THEOREM AvailableWasAlwaysSeen == MonitorSpec => []AvailableWasSeen
<1>1. MonitorInit => RolesInv /\ MonitorInv
  <2>1. MonitorInit => RolesInv
    BY RolesInitially DEF MonitorInit
  <2> QED
    BY <2>1, ProbeRequest
    DEF MonitorInit, RolesInit, MonitorInv, MonitorTypes, Answered, Progress, Believed,
        AvailableWasSeen, Status
<1>2. RolesInv /\ MonitorInv /\ [MonitorNext]_<<roleVars, monitorVars>> =>
        RolesInv' /\ MonitorInv'
  <2> SUFFICES ASSUME RolesInv, MonitorInv, [MonitorNext]_<<roleVars, monitorVars>>
               PROVE  RolesInv' /\ MonitorInv'
    OBVIOUS
  <2>1. RolesInv'
    BY MonitorKeepsRoles, RolesSame
  <2>2. CASE MonitorNext
    <3>1. Witness /\ (MonitorStep \/ RoleStep(RolesNext))
      BY <2>2 DEF MonitorNext
    <3> QED
      BY <2>1, <3>1, RolesKeepKnowledge, AskingKeepsKnowledge, RedisKeepsKnowledge,
         ReportingKeepsKnowledge DEF MonitorStep
  <2>3. CASE UNCHANGED <<roleVars, monitorVars>>
    BY <2>1, <2>3 DEF roleVars, monitorVars, MonitorInv, MonitorTypes, Answered,
       Progress, Believed, AvailableWasSeen
  <2> QED
    BY <2>1, <2>2, <2>3
<1>3. RolesInv /\ MonitorInv => AvailableWasSeen
  BY DEF MonitorInv
<1> QED
  BY <1>1, <1>2, <1>3, PTL DEF MonitorSpec
=============================================================================
