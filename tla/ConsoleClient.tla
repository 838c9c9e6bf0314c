---------------------------- MODULE ConsoleClient ----------------------------
(***************************************************************************)
(* The console's Process Run Client (console/process-run-client.ts) and    *)
(* the form that drives it (console/views.tsx, SubmitView), in one browser *)
(* tab.  An operation writes its idempotency key to the tab's storage      *)
(* before its first POST; whatever happens afterwards, the record says how *)
(* to go on: post again under the same key, or query the accepted run.     *)
(* Reloading the page forgets everything but the record.  Any access to    *)
(* the storage may fail.                                                   *)
(*                                                                         *)
(* The user may continue or replace an operation, dismiss the record,      *)
(* cancel a query, or leave.  `fate` is a history variable: what became of *)
(* each key the tab has made, as far as the user was told.                 *)
(***************************************************************************)
EXTENDS ProcessRunApi

VARIABLES
  pending,    \* the record in the tab's storage
  op,         \* the operation under way, `active` in the code
  fate,       \* [Key -> what became of it]
  reported    \* the results shown: pairs of a run and a status

consoleVars == <<pending, op, fate, reported>>

Class == {"acceptance-unknown", "retryable", "accepted"}
NoPending == [class |-> "none", key |-> 0, request |-> None, run |-> 0]
Pending == [class : Class, key : Key, request : Request, run : Nat]

Idle == [phase |-> "idle", intent |-> "continue", request |-> None, run |-> 0]
Operation == [phase : {"hashing", "posting", "polling"}, intent : {"continue", "new"},
              request : Request, run : Nat]

Fate == {"unused", "held", "answered", "rejected", "dismissed", "replaced"}

ConsoleInit ==
  /\ pending = NoPending
  /\ op = Idle
  /\ fate = [k \in Key |-> "unused"]
  /\ reported = {}

\* The operation ends; what it answers is told by what it leaves behind.
End == op' = Idle

Keep == UNCHANGED <<pending, fate, reported>>

\* A failed access to the storage ends the operation and changes nothing.
StorageFails == Fault /\ End /\ Keep

Write(p) == pending' = p /\ UNCHANGED <<fate, reported>>

-----------------------------------------------------------------------------
(* execute                                                                 *)

\* The form: a new operation over an accepted one is not offered, and without
\* a record there is nothing to replace.  The digest is computed asynchronously.
Execute(q, intent) ==
  /\ op = Idle
  /\ intent = "new" => pending.class \in {"acceptance-unknown", "retryable"}
  /\ op' = [phase |-> "hashing", intent |-> intent, request |-> q, run |-> 0]
  /\ Keep
  /\ UNCHANGED apiVars

\* The digest identifies the body.
BrokenMatches == TRUE
Matches == pending.request = op.request

BrokenStartsNew == op.intent = "new" \/ pending.class # "accepted"
StartsNew == op.intent = "new" \/ pending = NoPending

ReadFails ==
  /\ op.phase = "hashing"
  /\ StorageFails
  /\ UNCHANGED <<serviceVars, networkVars, keys>>

StartNew ==
  /\ op.phase = "hashing"
  /\ StartsNew
  /\ keys < MaxKeys
  /\ SendPost(keys + 1, op.request)
  /\ keys' = keys + 1
  /\ pending' = [class |-> "acceptance-unknown", key |-> keys + 1,
                 request |-> op.request, run |-> 0]
  /\ fate' = [k \in Key |-> IF k = keys + 1 THEN "held"
                            ELSE IF k = pending.key /\ op.intent = "new" THEN "replaced"
                            ELSE fate[k]]
  /\ op' = [op EXCEPT !.phase = "posting"]
  /\ UNCHANGED <<serviceVars, faults, reported>>

\* REQUEST_MISMATCH: another body under the same key is never sent.
RefuseMismatch ==
  /\ op.phase = "hashing"
  /\ ~StartsNew
  /\ pending.class # "accepted" /\ ~Matches
  /\ End /\ Keep
  /\ UNCHANGED apiVars

Replay ==
  /\ op.phase = "hashing"
  /\ ~StartsNew
  /\ pending.class # "accepted" /\ Matches
  /\ SendPost(pending.key, op.request)
  /\ op' = [op EXCEPT !.phase = "posting"]
  /\ Keep
  /\ UNCHANGED <<serviceVars, keys, faults>>

Resume ==
  /\ op.phase = "hashing"
  /\ ~StartsNew
  /\ pending.class = "accepted"
  /\ op' = [op EXCEPT !.phase = "polling", !.run = pending.run]
  /\ Keep
  /\ UNCHANGED apiVars

-----------------------------------------------------------------------------
(* The answer to the POST                                                  *)

\* isRetryableSubmission
Retryable(code) == code \in BacklogCode \cup {"ASYNC_SERVICE_UNAVAILABLE"}

\* submissionErrorStatuses without the retryable codes: of these, the service
\* gives the following.  ASYNC_INTAKE_CLOSED is not among them, so that answer
\* is a protocol error.
Definite(code) == code \in {"CALLER_UNAUTHORIZED", "INVALID_INPUT", "IDEMPOTENCY_CONFLICT"}

Receive(code) ==
  /\ op.phase = "posting"
  /\ answer.code = code
  /\ TakeAnswer
  /\ UNCHANGED <<serviceVars, keys>>

\* No answer, or only its headers: the service may have accepted.
AnswerLost ==
  \E code \in {"TRANSPORT", "BODY_LOST"} :
    /\ Receive(code)
    /\ \/ Write([pending EXCEPT !.class = "acceptance-unknown"]) /\ End /\ UNCHANGED faults
       \/ StorageFails

ProtocolError ==
  \E code \in {"GARBLED", "ASYNC_INTAKE_CLOSED"} :
    Receive(code) /\ End /\ Keep /\ UNCHANGED faults

RetryLater ==
  \E code \in SubmitCode :
    /\ Retryable(code)
    /\ Receive(code)
    /\ \/ Write([pending EXCEPT !.class = "retryable"]) /\ End /\ UNCHANGED faults
       \/ StorageFails

Rejected ==
  \E code \in SubmitCode :
    /\ Definite(code)
    /\ Receive(code)
    /\ \/ /\ pending' = NoPending
          /\ fate' = [fate EXCEPT ![pending.key] = "rejected"]
          /\ End
          /\ UNCHANGED <<reported, faults>>
       \/ StorageFails

Accepted ==
  /\ \/ /\ Write([pending EXCEPT !.class = "accepted", !.run = answer.run])
        /\ op' = [op EXCEPT !.phase = "polling", !.run = answer.run]
        /\ UNCHANGED faults
     \/ StorageFails
  /\ Receive("ACCEPTED")

\* The caller's signal breaks off the POST; the service may still get it.
CancelPost ==
  /\ op.phase = "posting"
  /\ TakeAnswer
  /\ \/ Write([pending EXCEPT !.class = "acceptance-unknown"]) /\ End /\ UNCHANGED faults
     \/ StorageFails
  /\ UNCHANGED <<serviceVars, keys>>

-----------------------------------------------------------------------------
(* poll                                                                    *)

Terminated == {"succeeded", "failed", "result-expired"}

\* A final view clears the record before it is shown.
ShowResult == pending' = NoPending /\ reported' = reported \cup {<<op.run, runs[op.run].status>>}

PollTerminal ==
  /\ op.phase = "polling"
  /\ ViewOf(op.run) \in Terminated
  /\ \/ /\ ShowResult
        /\ fate' = [fate EXCEPT ![pending.key] = "answered"]
        /\ End
        /\ UNCHANGED faults
     \/ StorageFails
  /\ UNCHANGED <<serviceVars, networkVars, keys>>

\* 404 or 401: the record stays, and with it the claim on the next operation.
PollRejected ==
  /\ op.phase = "polling"
  /\ ViewOf(op.run) \in {"PROCESS_RUN_NOT_FOUND", "CALLER_UNAUTHORIZED"}
  /\ End /\ Keep
  /\ UNCHANGED apiVars

\* The time limit, the user's abort, or an answer that is no Process Run.  A
\* query that fails otherwise is repeated and leaves no trace.
PollStops ==
  /\ op.phase = "polling"
  /\ End /\ Keep
  /\ UNCHANGED apiVars

-----------------------------------------------------------------------------
(* The page                                                                *)

Dismiss ==
  /\ op = Idle
  /\ pending # NoPending
  /\ pending' = NoPending
  /\ fate' = [fate EXCEPT ![pending.key] = "dismissed"]
  /\ UNCHANGED <<op, reported, apiVars>>

Reload ==
  /\ op # Idle
  /\ Fault
  /\ op' = Idle
  /\ awaited' = 0 /\ answer' = NoAnswer
  /\ Keep
  /\ UNCHANGED <<serviceVars, wire, posts, keys>>

ConsoleNext ==
  \/ \E q \in Request, intent \in {"continue", "new"} : Execute(q, intent)
  \/ ReadFails \/ StartNew \/ RefuseMismatch \/ Replay \/ Resume
  \/ AnswerLost \/ ProtocolError \/ RetryLater \/ Rejected \/ Accepted \/ CancelPost
  \/ PollTerminal \/ PollRejected \/ PollStops
  \/ Dismiss \/ Reload

-----------------------------------------------------------------------------
ConsoleTypeOK ==
  /\ pending \in Pending \cup {NoPending}
  /\ op \in Operation \cup {Idle}
  /\ fate \in [Key -> Fate]
  /\ reported \subseteq Nat \X Terminal

\* A run the tab has paid for is never lost from sight: as long as the user
\* was neither shown its result nor gave it up, its key is the one the tab
\* would use again.  A submission reported as rejected has no run, now or
\* when a POST that was given up arrives late.
NoRunIsForgotten ==
  \A r \in RunId :
    /\ fate[runs[r].key] # "rejected"
    /\ fate[runs[r].key] = "held" => pending.key = runs[r].key

\* The record of an accepted operation names the run of its own key and body,
\* and what the page showed of a run is how that run ended.
ShownIsTrue ==
  /\ pending.class = "accepted" =>
       /\ pending.run \in RunId
       /\ runs[pending.run].key = pending.key
       /\ runs[pending.run].request = pending.request
  /\ \A p \in reported : p[1] \in RunId /\ runs[p[1]].status = p[2]
=============================================================================
