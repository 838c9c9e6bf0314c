---------------------------- MODULE RunObservation ----------------------------
(***************************************************************************)
(* What is kept for operators about finished runs: one Run Record per run  *)
(* and the timeline of its attempts (src/src/run-observation,              *)
(* src/src/app/run-observation.ts).  Attempts emit activity entries while  *)
(* they run (src/src/process-runtime/logging.ts); the entries are written  *)
(* in the background and may fail.  When a run has its outcome, the        *)
(* process that completed it waits for the entries it has handed over so   *)
(* far and then stores the record.  A list of records is read page by page *)
(* by the console while records are stored and pruned.                     *)
(*                                                                         *)
(* Runs of the async service are executed by workers, one attempt after    *)
(* another or, when a lease was lost, two at a time; runs of POST          *)
(* /v1/process-runs by the API process.  Everything here is best effort    *)
(* and must not disagree with the run itself.                              *)
(***************************************************************************)
EXTENDS Integers, FiniteSets, Sequences, SequencesExt

CONSTANTS
  AsyncRun,       \* runs executed by workers
  SyncRun,        \* runs executed within an HTTP request
  Together,       \* the sets of runs observed together, one of them at a time
  MaxAttempts,    \* bound on the attempts of an asynchronous run
  ActivityBound,  \* [Run -> bound on the activities of an attempt]
  Retention,      \* PROCESS_RUN_RECORD_RETENTION_DAYS
  LastDay,        \* bound on the clock
  PageSize,       \* the limit of a list request
  FaultBound,     \* bound on failed writes and crashes together
  None

Run == AsyncRun \cup SyncRun

ASSUME ObservationAssumption ==
  /\ AsyncRun \subseteq Nat
  /\ SyncRun \subseteq Nat
  /\ AsyncRun \cap SyncRun = {}
  /\ Together \subseteq SUBSET Run
  /\ MaxAttempts \in Nat \ {0}
  /\ ActivityBound \in [Run -> Nat]
  /\ Retention \in Nat \ {0}
  /\ LastDay \in Nat
  /\ PageSize \in Nat \ {0}
  /\ FaultBound \in Nat
  /\ None \notin Nat
  /\ None \notin [at : Nat, run : Nat]
  /\ None \notin [attempt : Nat, at : Nat, kept : BOOLEAN,
                   status : {"none", "succeeded", "failed"}]

VARIABLES
  archive,    \* PROCESS_RUN_RECORD_STORE
  present,    \* the runs there are
  day,        \* the clock
  run,        \* [Run -> attempts made, the attempt that holds it, outcome]
  log,        \* [Run -> [Attempt -> the attempt's activity log]]
  pending,    \* [Instance -> entries handed over and not yet written]
  timeline,   \* the activity entries stored
  recording,  \* [Run -> the recording of its outcome under way]
  records,    \* [Run -> its Run Record]
  prune,      \* the pruning under way
  reader,     \* a console reading the list page by page
  faults

obsVars == <<archive, present, day, run, log, pending, timeline, recording, records,
             prune, reader, faults>>
runVars == <<run, log, recording>>

Attempt == 1..MaxAttempts

(* Processes with an archive of their own: 0 is the API, k the worker that *)
(* runs attempt k of asynchronous runs.                                    *)
Instance == 0..MaxAttempts
InstanceOf(r, a) == IF r \in SyncRun THEN 0 ELSE a

Event == {"attempt_started", "activity_started", "activity_finished",
          "attempt_finished"}
Entry == [run : Run, attempt : Attempt, seq : Nat, event : Event,
          activity : Nat, day : 0..LastDay]

NoLog == [phase |-> "none", seq |-> 0, begun |-> 0, active |-> {},
          since |-> 0, result |-> "none"]
NoRecording == [phase |-> "none", attempt |-> 0, waits |-> {}, at |-> 0]
Closed == [phase |-> "closed", cursor |-> None, seen |-> <<>>, owed |-> {}]

ObservationInit ==
  /\ archive \in {"postgres", "file"}
  /\ present \in Together
  /\ day = 0
  /\ run = [r \in Run |-> [attempts |-> 0, owner |-> 0, outcome |-> "none"]]
  /\ log = [r \in Run |-> [a \in Attempt |-> NoLog]]
  /\ pending = [i \in Instance |-> <<>>]
  /\ timeline = {}
  /\ recording = [r \in Run |-> NoRecording]
  /\ records = [r \in Run |-> None]
  /\ prune = None
  /\ reader = Closed
  /\ faults = 0

-----------------------------------------------------------------------------
(* The attempt's log.                                                      *)

(* `emit`: numbers an entry and hands it to the archive of the process.    *)
EntryOf(r, a, n, event, activity) ==
  [run |-> r, attempt |-> a, seq |-> n, event |-> event,
   activity |-> activity, day |-> day]

HandOver(r, a, entries) ==
  pending' = [pending EXCEPT ![InstanceOf(r, a)] = @ \o entries]

Begin(r, a) ==
  /\ run' = [run EXCEPT ![r].attempts = a, ![r].owner = a]
  /\ log' = [log EXCEPT ![r][a] = [NoLog EXCEPT !.phase = "running",
                                                !.seq = 1, !.since = day]]
  /\ HandOver(r, a, <<EntryOf(r, a, 1, "attempt_started", 0)>>)
  /\ UNCHANGED recording

(* A worker claims the run: for the first time, for a retry, or because    *)
(* the lease of an attempt that is still running has passed.               *)
Claim(r) ==
  /\ r \in AsyncRun
  /\ run[r].outcome = "none"
  /\ run[r].attempts < MaxAttempts
  /\ Begin(r, run[r].attempts + 1)

Execute(r) ==
  /\ r \in SyncRun
  /\ run[r].outcome = "none"
  /\ run[r].attempts = 0
  /\ Begin(r, 1)

BrokenMayLog(l) == l.phase \in {"running", "ended", "done"}

(* What the attempt abandoned may still call runActivity; a finished log   *)
(* runs the operation and says nothing.                                    *)
MayLog(l) == l.phase = "running"

LogBegun(l, n) ==
  [l EXCEPT !.begun = n, !.seq = l.seq + 1, !.active = l.active \cup {n}]

RunActivity(r, a) ==
  LET l == log[r][a]
      n == l.begun + 1
  IN  /\ MayLog(l)
      /\ n <= ActivityBound[r]
      /\ log' = [log EXCEPT ![r][a] = LogBegun(l, n)]
      /\ HandOver(r, a, <<EntryOf(r, a, l.seq + 1, "activity_started", n)>>)
      /\ UNCHANGED <<run, recording>>

LogSettled(l, n) == [l EXCEPT !.seq = l.seq + 1, !.active = l.active \ {n}]

ActivitySettles(r, a, n) ==
  LET l == log[r][a]
  IN  /\ n \in l.active
      /\ log' = [log EXCEPT ![r][a] = LogSettled(l, n)]
      /\ HandOver(r, a, <<EntryOf(r, a, l.seq + 1, "activity_finished", n)>>)
      /\ UNCHANGED <<run, recording>>

(* The members of S, one after another.                                    *)
Ordered(S, Before(_, _)) ==
  CHOOSE s \in [1..Cardinality(S) -> S] :
    \A i, j \in 1..Cardinality(S) : i < j => Before(s[i], s[j])

(* The entries `finish` emits: what is still active is closed, newest      *)
(* first, and the attempt's own end comes last.                            *)
Closing(r, a) ==
  LET l == log[r][a]
      open == Ordered(l.active, >)
  IN  [k \in 1..(Len(open) + 1) |->
         IF k <= Len(open)
         THEN EntryOf(r, a, l.seq + k, "activity_finished", open[k])
         ELSE EntryOf(r, a, l.seq + k, "attempt_finished", 0)]

LogEnded(l, result, entries) ==
  [l EXCEPT !.phase = "ended", !.result = result, !.active = {}, !.since = 0,
            !.seq = l.seq + Len(entries)]

(* The attempt's own answer, its time limit or the caller's abort.         *)
FinishAttempt(r, a, result) ==
  LET l == log[r][a]
  IN  /\ l.phase = "running"
      /\ log' = [log EXCEPT ![r][a] = LogEnded(l, result, Closing(r, a))]
      /\ HandOver(r, a, Closing(r, a))
      /\ UNCHANGED <<run, recording>>

-----------------------------------------------------------------------------
(* The outcome and its record.                                             *)

BrokenUnwritten(i) == {}

(* `record` of app/run-observation.ts: first the entries this process has  *)
(* handed over so far, all of them.                                        *)
Unwritten(i) == Range(pending[i])

StartRecording(r, a) ==
  recording' = [recording EXCEPT ![r] =
    [phase |-> "flushing", attempt |-> a, at |-> 0,
     waits |-> Unwritten(InstanceOf(r, a))]]

(* The run is completed by the attempt that holds it, and by no other.     *)
Holds(r, a) == run[r].owner = a /\ run[r].outcome = "none"

Complete(r, a) ==
  /\ log[r][a].phase = "ended"
  /\ Holds(r, a)
  /\ run' = [run EXCEPT ![r].outcome = log[r][a].result]
  /\ log' = [log EXCEPT ![r][a].phase = "done"]
  /\ StartRecording(r, a)
  /\ UNCHANGED pending

ScheduleRetry(r, a) ==
  /\ r \in AsyncRun
  /\ log[r][a].phase = "ended"
  /\ log[r][a].result = "failed"
  /\ run[r].attempts < MaxAttempts
  /\ Holds(r, a)
  /\ run' = [run EXCEPT ![r].owner = 0]
  /\ log' = [log EXCEPT ![r][a].phase = "done"]
  /\ UNCHANGED <<pending, recording>>

BrokenIgnoredCompletion(r, a) == StartRecording(r, a)

(* `complete` found that the run is somebody else's: nothing is recorded.  *)
IgnoredCompletion(r, a) == UNCHANGED recording

CompleteRefused(r, a) ==
  /\ log[r][a].phase = "ended"
  /\ ~Holds(r, a)
  /\ log' = [log EXCEPT ![r][a].phase = "done"]
  /\ IgnoredCompletion(r, a)
  /\ UNCHANGED <<run, pending>>

(* A request that is not accepted is recorded without any attempt.         *)
Reject(r) ==
  /\ r \in SyncRun
  /\ run[r].outcome = "none"
  /\ run[r].attempts = 0
  /\ run' = [run EXCEPT ![r].outcome = "failed"]
  /\ recording' = [recording EXCEPT ![r] =
       [phase |-> "flushing", attempt |-> 0, at |-> 0, waits |-> Unwritten(0)]]
  /\ UNCHANGED <<log, pending>>

RunStep ==
  /\ \E r \in present :
       \/ Claim(r)
       \/ Execute(r)
       \/ Reject(r)
       \/ \E a \in Attempt :
            \/ RunActivity(r, a)
            \/ \E n \in log[r][a].active : ActivitySettles(r, a, n)
            \/ \E result \in {"succeeded", "failed"} :
                 FinishAttempt(r, a, result)
            \/ Complete(r, a)
            \/ ScheduleRetry(r, a)
            \/ CompleteRefused(r, a)
  /\ UNCHANGED <<archive, present, day, timeline, records, prune, reader, faults>>

(* Every query of the database runs on its own; lines of a file are        *)
(* appended one after another.                                             *)
MayEnd(i, k) == archive = "file" => k = 1

WriteEnds(i, k) ==
  /\ MayEnd(i, k)
  /\ \/ timeline' = timeline \cup {pending[i][k]} /\ UNCHANGED faults
     \/ /\ faults < FaultBound
        /\ faults' = faults + 1
        /\ UNCHANGED timeline
  /\ pending' = [pending EXCEPT ![i] = RemoveAt(@, k)]
  /\ UNCHANGED <<archive, present, day, runVars, records, prune, reader>>

FlushEnds(r) ==
  LET c == recording[r]
  IN  /\ c.phase = "flushing"
      /\ c.waits \cap Range(pending[InstanceOf(r, c.attempt)]) = {}
      /\ recording' = [recording EXCEPT ![r] =
           [c EXCEPT !.phase = "storing", !.waits = {}, !.at = day]]
      /\ UNCHANGED <<archive, present, day, run, log, pending, timeline, records,
                     prune, reader, faults>>

(* The row is written over an older one, the line after it.                *)
StoreRecord(r) ==
  LET c == recording[r]
  IN  /\ c.phase = "storing"
      /\ recording' = [recording EXCEPT ![r] = NoRecording]
      /\ \/ /\ records' = [records EXCEPT ![r] =
                 [attempt |-> c.attempt, at |-> c.at, kept |-> TRUE,
                  status |-> IF c.attempt = 0 THEN "failed"
                             ELSE log[r][c.attempt].result]]
            /\ UNCHANGED faults
         \/ /\ faults < FaultBound
            /\ faults' = faults + 1
            /\ UNCHANGED records
      /\ UNCHANGED <<archive, present, day, run, log, pending, timeline, prune, reader>>

(* A process dies with what it has not written and the attempts it runs.   *)
Crash(i) ==
  /\ faults < FaultBound
  /\ faults' = faults + 1
  /\ \E r \in Run, a \in Attempt :
       InstanceOf(r, a) = i /\ log[r][a].phase # "none"
  /\ pending' = [pending EXCEPT ![i] = <<>>]
  /\ log' = [r \in Run |-> [a \in Attempt |->
       IF InstanceOf(r, a) = i /\ log[r][a].phase \in {"running", "ended"}
       THEN [log[r][a] EXCEPT !.phase = "dead", !.active = {}]
       ELSE log[r][a]]]
  /\ recording' = [r \in Run |->
       IF InstanceOf(r, recording[r].attempt) = i THEN NoRecording
                                                  ELSE recording[r]]
  /\ UNCHANGED <<archive, present, day, run, timeline, records, prune, reader>>

-----------------------------------------------------------------------------
(* Retention.  Time limits are minutes, so nothing runs for two midnights. *)
Tick ==
  /\ day < LastDay
  /\ \A r \in Run, a \in Attempt :
       /\ log[r][a].phase = "running" => log[r][a].since = day
       /\ log[r][a].phase # "ended"
  /\ \A r \in Run : recording[r].phase = "none"
  /\ \A i \in Instance : pending[i] = <<>>
  /\ day' = day + 1
  /\ UNCHANGED <<archive, present, runVars, pending, timeline, records, prune, reader,
                 faults>>

(* A process starts and trims what is past its window.  The window of the  *)
(* files ends at a midnight, that of the database at the hour it is now.   *)
(* What removes nothing when it starts removes nothing later.              *)
StartPrune(cutoff) ==
  /\ prune = None
  /\ IF archive = "file" THEN cutoff = day - (Retention - 1)
                         ELSE cutoff \in {day - Retention, day - Retention + 1}
  /\ \/ \E e \in timeline : e.day < cutoff
     \/ \E r \in Run : records[r] # None /\ records[r].kept /\ records[r].at < cutoff
  /\ prune' = [cutoff |-> cutoff, left |-> {"timeline", "records"}]
  /\ UNCHANGED <<archive, present, day, runVars, pending, timeline, records, reader,
                 faults>>

BrokenPruneInOrder(what) ==
  archive = "postgres" /\ what = "timeline" => "records" \notin prune.left

(* The database is trimmed by two statements in this order; the two kinds  *)
(* of files by two tasks that do not wait for each other.                  *)
PruneInOrder(what) ==
  archive = "postgres" /\ what = "records" => "timeline" \notin prune.left

PruneStep(what) ==
  /\ prune # None
  /\ what \in prune.left
  /\ PruneInOrder(what)
  /\ prune' = IF prune.left = {what} THEN None
              ELSE [prune EXCEPT !.left = @ \ {what}]
  /\ IF what = "timeline"
     THEN /\ timeline' = {e \in timeline : e.day >= prune.cutoff}
          /\ UNCHANGED records
     ELSE /\ records' = [r \in Run |->
               IF records[r] # None /\ records[r].at < prune.cutoff
               THEN [records[r] EXCEPT !.kept = FALSE] ELSE records[r]]
          /\ UNCHANGED timeline
  /\ UNCHANGED <<archive, present, day, runVars, pending, reader, faults>>

(* The rest of a pruning that failed is left to the next start.            *)
PruneFails ==
  /\ prune # None
  /\ faults < FaultBound
  /\ faults' = faults + 1
  /\ prune' = None
  /\ UNCHANGED <<archive, present, day, runVars, pending, timeline, records, reader>>

-----------------------------------------------------------------------------
(* Reading.  Files outside the window are not opened.                      *)
InWindow(d) == archive = "file" => d >= day - (Retention - 1)

Visible == {r \in Run : /\ records[r] # None
                        /\ records[r].kept
                        /\ InWindow(records[r].at)}

(* `findByRun`: the files are read newest day first, and a file without    *)
(* the run ends the search once a newer one had it.                        *)
TimelineOf(r) ==
  LET mine == {e \in timeline : e.run = r /\ InWindow(e.day)}
      days == {e.day : e \in mine}
      EndsSearch(x) == /\ \E e \in timeline : e.day = x
                       /\ x \notin days
                       /\ \E y \in days : y > x
  IN  IF archive = "file"
      THEN {e \in mine : \A x \in (e.day + 1)..day : ~EndsSearch(x)}
      ELSE mine

(* Newest first, and of two records of one instant the greater run id.     *)
Newer(r, s) ==
  \/ records[r].at > records[s].at
  \/ records[r].at = records[s].at /\ r > s

BrokenBelowCursor(r) ==
  reader.cursor = None \/ records[r].at < reader.cursor.at

(* What the cursor leaves out: it holds the instant and the run id.        *)
BelowCursor(r) ==
  \/ reader.cursor = None
  \/ records[r].at < reader.cursor.at
  \/ records[r].at = reader.cursor.at /\ r < reader.cursor.run

(* A list that is empty is read at once.                                   *)
OpenList ==
  /\ reader.phase = "closed"
  /\ Visible # {}
  /\ reader' = [Closed EXCEPT !.phase = "reading", !.owed = Visible]
  /\ UNCHANGED <<archive, present, day, runVars, pending, timeline, records, prune,
                 faults>>

ReadPage ==
  LET left == Ordered({r \in Visible : BelowCursor(r)}, Newer)
      more == Len(left) > PageSize
      page == IF more THEN SubSeq(left, 1, PageSize) ELSE left
  IN  /\ reader.phase = "reading"
      /\ reader' = [reader EXCEPT
           !.phase = IF more THEN "reading" ELSE "read",
           !.cursor = IF more THEN [at |-> records[Last(page)].at,
                                    run |-> Last(page)] ELSE None,
           !.seen = @ \o page]
      /\ UNCHANGED <<archive, present, day, runVars, pending, timeline, records, prune,
                     faults>>

ObservationNext ==
  \/ RunStep
  \/ \E i \in Instance : \E k \in DOMAIN pending[i] : WriteEnds(i, k)
  \/ \E r \in Run : FlushEnds(r) \/ StoreRecord(r)
  \/ \E i \in Instance : Crash(i)
  \/ Tick
  \/ \E cutoff \in 0..LastDay : StartPrune(cutoff)
  \/ \E what \in {"timeline", "records"} : PruneStep(what)
  \/ PruneFails
  \/ OpenList
  \/ ReadPage

ObservationSpec == ObservationInit /\ [][ObservationNext]_obsVars

-----------------------------------------------------------------------------
ObservationTypeOK ==
  /\ archive \in {"postgres", "file"}
  /\ day \in 0..LastDay
  /\ \A r \in Run :
       /\ run[r].attempts \in 0..MaxAttempts
       /\ run[r].owner \in 0..MaxAttempts
       /\ run[r].outcome \in {"none", "succeeded", "failed"}
       /\ records[r] = None \/ records[r].attempt \in 0..MaxAttempts
       /\ recording[r].phase \in {"none", "flushing", "storing"}
  /\ \A i \in Instance : Range(pending[i]) \subseteq Entry
  /\ timeline \subseteq Entry
  /\ faults \in 0..FaultBound

(***************************************************************************)
(* Once a Run Record is visible, every entry of the attempt that ended the *)
(* run has been written or has failed, and the attempt will never emit     *)
(* another one, whatever its abandoned operations still do                 *)
(* (app/run-observation.ts:78-82 and the `finished` flag of logging.ts).   *)
(***************************************************************************)
TimelineVisibleWithRecord ==
  \A r \in Run : records[r] # None =>
    \A i \in Instance : \A e \in Range(pending[i]) :
      ~(e.run = r /\ e.attempt = records[r].attempt)

(***************************************************************************)
(* What the archive says of a run is what the authoritative run says: an   *)
(* attempt that was overtaken, or that ends after the run was completed,   *)
(* leaves no record behind, in whatever order completions and writes       *)
(* happen (process-runs/worker/index.ts:165-184).                          *)
(***************************************************************************)
RecordsAgreeWithRuns ==
  \A r \in Run : records[r] # None =>
    /\ records[r].status = run[r].outcome
    /\ records[r].attempt = run[r].owner

(***************************************************************************)
(* A timeline does not outlive its record: whenever pruning has removed    *)
(* the record of a run, at any point between its two statements or after   *)
(* one of them failed, no reader finds entries of the attempt the record   *)
(* was about (run-observation/postgres.ts, pruneProcessRunObservation).    *)
(***************************************************************************)
TimelineNeverOutlivesRecord ==
  \A r \in Run : (records[r] # None /\ r \notin Visible) =>
    \A e \in TimelineOf(r) : e.attempt # records[r].attempt

(***************************************************************************)
(* Reading the list to its end gives every record that was there at the    *)
(* start and still is, and none twice, while other records are stored and  *)
(* pruned and whatever records share an instant.                           *)
(***************************************************************************)
PagingIsComplete ==
  reader.phase = "read" =>
    /\ \A r \in reader.owed \cap Visible : r \in Range(reader.seen)
    /\ Cardinality(Range(reader.seen)) = Len(reader.seen)

(* What a reader can see of a run is whole and true: a record agrees with    *)
(* the run, the timeline comes with the record and goes with it, and paging  *)
(* leaves no record out.                                                     *)
TimelinesConsistent ==
  /\ ObservationTypeOK /\ RecordsAgreeWithRuns /\ TimelineVisibleWithRecord
  /\ TimelineNeverOutlivesRecord /\ PagingIsComplete
=============================================================================
