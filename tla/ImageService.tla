----------------------------- MODULE ImageService -----------------------------
(***************************************************************************)
(* One run of a paid image Process and the Business API that renders for   *)
(* it.  An attempt of the run compiles a prompt (src/src/processes/*/      *)
(* registration.ts), posts it with the run id as idempotency key           *)
(* (capability.http.ts) and turns the answer into the attempt's result.    *)
(* The server (src/src/business-api/crt-server.ts) keeps one record file   *)
(* per key; CRT and news requests of one server process also share one     *)
(* promise.  The provider charges for a call once it has begun to render,  *)
(* whether or not anybody is still waiting for the picture.                *)
(*                                                                         *)
(* Keys share nothing (each has its own files and its own map entry), so   *)
(* one run is modelled.  A run has several attempts when its worker dies   *)
(* or is overtaken: an overtaken attempt may still be waiting, and its     *)
(* result is no longer the run's (src/src/process-runs/store/postgres.ts,  *)
(* complete).                                                              *)
(***************************************************************************)
EXTENDS Integers, FiniteSets

CONSTANTS
  Process,       \* the image Processes considered, some of ImageProcess
  Digest,        \* what a rendering request can say; each attempt compiles anew
  MaxAttempts,   \* bound on the attempts of the run
  CrashBound,    \* bound on the crashes of the server process
  None

ImageProcess == {"crt", "news", "photo", "emoji"}

VARIABLES
  process,    \* the Process of this run
  client,     \* [Attempt -> phase, digest and result]
  outcome,    \* the result of the attempt that completed the run
  handler,    \* [Attempt -> phase of the server's handler of its request]
  call,       \* [Attempt -> state of the provider call its handler made]
  record,     \* the key's record file
  promise,    \* the key's entry of the `transforms` map of this server process
  reply,      \* [Attempt -> the answer on the wire]
  crashes

imageVars ==
  <<process, client, outcome, handler, call, record, promise, reply, crashes>>

Attempt == 1..MaxAttempts

(* A picture: which digest it was rendered for, by whose call.             *)
Picture == [digest : Digest, by : Attempt]

Failure == {"conflict", "pending", "unreadable", "refused", "failed", "committed"}

ErrorCode == {"IDEMPOTENCY_CONFLICT", "UNAVAILABLE", "INCOMPLETE", "REJECTED",
              "INTERNAL_ERROR"}

Result == {"succeeded", "AGENT_FAILURE", "DEPENDENCY_FAILURE",
           "DEPENDENCY_FAILURE_AFTER_COMMIT", "PROCESS_TIMEOUT"}

ASSUME ServiceAssumption ==
  /\ Process \subseteq ImageProcess
  /\ MaxAttempts \in Nat \ {0}
  /\ CrashBound \in Nat
  /\ None \notin Digest \cup ErrorCode \cup Result

(***************************************************************************)
(* How each route names a failure.  The names are CRT_RENDERING_*,         *)
(* NEWS_IMAGE_RENDERING_*, PHOTO_POSTER_* and CHARACTER_EMOJI_* in the     *)
(* code; the prefix is the Process.  "failed" is a provider call that did  *)
(* not return, "committed" a picture that could not be delivered.          *)
(***************************************************************************)
CrtError(f) ==
  CASE f = "conflict"   -> "IDEMPOTENCY_CONFLICT"
    [] f = "unreadable" -> "INTERNAL_ERROR"
    [] f = "committed"  -> "INCOMPLETE"
    [] OTHER            -> "UNAVAILABLE"

NewsError(f) ==
  CASE f = "conflict"   -> "IDEMPOTENCY_CONFLICT"
    [] f = "unreadable" -> "INTERNAL_ERROR"
    [] OTHER            -> "UNAVAILABLE"

(* The photo and emoji routes remember whether they dispatched: what fails  *)
(* before is REJECTED, a record that cannot be read or written included.   *)
PhotoError(f) ==
  CASE f = "conflict"                  -> "IDEMPOTENCY_CONFLICT"
    [] f \in {"unreadable", "refused"} -> "REJECTED"
    [] OTHER                           -> "INCOMPLETE"

EmojiError(f) == PhotoError(f)

ErrorOf(f) ==
  CASE process = "crt"   -> CrtError(f)
    [] process = "news"  -> NewsError(f)
    [] process = "photo" -> PhotoError(f)
    [] process = "emoji" -> EmojiError(f)

(* Routes that look in and publish to an in-memory map of promises.        *)
SharesPromise == process \in {"crt", "news"}

(***************************************************************************)
(* What the caller's adapter and registration make of an answer.  `e` is   *)
(* the error code, None when no answer came (timeout, broken connection).  *)
(***************************************************************************)
CrtCommitted(e)   == e = "INCOMPLETE"
NewsCommitted(e)  == FALSE
BrokenPhotoCommitted(e) == e = "INCOMPLETE"
PhotoCommitted(e) == e # "REJECTED"
EmojiCommitted(e) == e # "REJECTED"

Committed(e) ==
  CASE process = "crt"   -> CrtCommitted(e)
    [] process = "news"  -> NewsCommitted(e)
    [] process = "photo" -> PhotoCommitted(e)
    [] process = "emoji" -> EmojiCommitted(e)

FailureResult(e) ==
  IF Committed(e) THEN "DEPENDENCY_FAILURE_AFTER_COMMIT" ELSE "DEPENDENCY_FAILURE"

-----------------------------------------------------------------------------
(* The record file and the map entry.                                      *)

NoRecord    == [state |-> "absent",   digest |-> None, picture |-> None]
EmptyRecord == [state |-> "empty",    digest |-> None, picture |-> None]
Pending(d)  == [state |-> "pending",  digest |-> d,    picture |-> None]
Complete(d, p) == [state |-> "complete", digest |-> d, picture |-> p]

NoPromise      == [state |-> "none", digest |-> None, picture |-> None]
OpenPromise(d) == [state |-> "open", digest |-> d,    picture |-> None]

NoReply  == [kind |-> "none", error |-> None, picture |-> None]
Fail(f)  == [kind |-> "error", error |-> ErrorOf(f), picture |-> None]
Ok(p)    == [kind |-> "ok", error |-> None, picture |-> p]

ImageInit ==
  /\ process \in Process
  /\ client  = [a \in Attempt |-> [phase |-> "idle", digest |-> None, result |-> None]]
  /\ outcome = None
  /\ handler = [a \in Attempt |-> "none"]
  /\ call    = [a \in Attempt |-> "none"]
  /\ record  = NoRecord
  /\ promise = NoPromise
  /\ reply   = [a \in Attempt |-> NoReply]
  /\ crashes = 0

-----------------------------------------------------------------------------
(* The attempts of the run.                                                *)

Started(a) == client[a].phase # "idle"
Latest(a)  == Started(a) /\ \A b \in Attempt : b > a => ~Started(b)

(* An attempt ends with a result; it is the run's result only if no later  *)
(* attempt has taken the claim.                                            *)
Finish(a, result) ==
  /\ client'  = [client EXCEPT ![a].phase = "done", ![a].result = result]
  /\ outcome' = IF Latest(a) THEN result ELSE outcome

(* The attempt compiles its prompt and posts it.  A next attempt starts    *)
(* when the lease of the one before has run out, whatever became of it,    *)
(* unless the run has completed.                                           *)
Post(a, d) ==
  /\ outcome = None
  /\ ~Started(a) /\ \A b \in Attempt : b < a => Started(b)
  /\ client'  = [client EXCEPT ![a].phase = "waiting", ![a].digest = d]
  /\ handler' = [handler EXCEPT ![a] = "sent"]
  /\ UNCHANGED <<process, outcome, call, record, promise, reply, crashes>>

(* No valid prompt came out of the compilation: nothing is posted.         *)
CompileFails(a) ==
  /\ outcome = None
  /\ ~Started(a) /\ \A b \in Attempt : b < a => Started(b)
  /\ client'  = [client EXCEPT ![a].phase = "done", ![a].result = "AGENT_FAILURE"]
  /\ outcome' = "AGENT_FAILURE"
  /\ UNCHANGED <<process, handler, call, record, promise, reply, crashes>>

Waiting(a) == client[a].phase = "waiting"

ReceiveAnswer(a) ==
  /\ Waiting(a) /\ reply[a].kind # "none"
  /\ Finish(a, IF reply[a].kind = "ok" THEN "succeeded"
               ELSE FailureResult(reply[a].error))
  /\ UNCHANGED <<process, handler, call, record, promise, reply, crashes>>

(* The request times out, or its connection breaks with or without the     *)
(* server's answer on it.                                                  *)
LoseAnswer(a) ==
  /\ Waiting(a)
  /\ Finish(a, FailureResult(None))
  /\ UNCHANGED <<process, handler, call, record, promise, reply, crashes>>

(* The attempt's own time limit wins the race (process-runtime/attempt.ts).*)
TimeOut(a) ==
  /\ Waiting(a)
  /\ Finish(a, "PROCESS_TIMEOUT")
  /\ UNCHANGED <<process, handler, call, record, promise, reply, crashes>>

WorkerDies(a) ==
  /\ Waiting(a)
  /\ client' = [client EXCEPT ![a].phase = "dead"]
  /\ UNCHANGED <<process, outcome, handler, call, record, promise, reply, crashes>>

-----------------------------------------------------------------------------
(* The server's handler of the request of attempt a.                       *)

Asked(a) == client[a].digest

Answer(a, r) ==
  /\ reply'   = [reply EXCEPT ![a] = r]
  /\ handler' = [handler EXCEPT ![a] = "gone"]

Goto(a, from, to) ==
  /\ handler[a] = from
  /\ handler' = [handler EXCEPT ![a] = to]

HasPromise == SharesPromise /\ promise.state # "none"

(* This server process knows the key with another request.                 *)
RejectDigest(a) ==
  /\ handler[a] = "sent" /\ HasPromise /\ promise.digest # Asked(a)
  /\ Answer(a, Fail("conflict"))
  /\ UNCHANGED <<process, client, outcome, call, record, promise, crashes>>

(* This server process is rendering, or has rendered, the same request.    *)
Join(a) ==
  /\ HasPromise /\ promise.digest = Asked(a)
  /\ Goto(a, "sent", "joined")
  /\ UNCHANGED <<process, client, outcome, call, record, promise, reply, crashes>>

AnswerJoined(a) ==
  /\ handler[a] = "joined"
  /\ promise.state \in {"kept", "failed", "committed"}
  /\ Answer(a, IF promise.state = "kept" THEN Ok(promise.picture) ELSE Fail(promise.state))
  /\ UNCHANGED <<process, client, outcome, call, record, promise, crashes>>

Arrive(a) ==
  /\ ~HasPromise
  /\ Goto(a, "sent", "claiming")
  /\ UNCHANGED <<process, client, outcome, call, record, promise, reply, crashes>>

BrokenCreateRecord(a) ==
  /\ Goto(a, "claiming", "creating")
  /\ record' = EmptyRecord
  /\ UNCHANGED <<process, client, outcome, call, promise, reply, crashes>>

(* writeFile with flag "wx" creates the file, then writes it.              *)
CreateRecord(a) ==
  /\ record.state = "absent"
  /\ Goto(a, "claiming", "creating")
  /\ record' = EmptyRecord
  /\ UNCHANGED <<process, client, outcome, call, promise, reply, crashes>>

WriteRecord(a) ==
  /\ Goto(a, "creating", "claimed")
  /\ record' = Pending(Asked(a))
  /\ UNCHANGED <<process, client, outcome, call, promise, reply, crashes>>

(* The file cannot be created, or not be written: no call is made.         *)
ClaimFails(a) ==
  /\ handler[a] \in {"claiming", "creating"}
  /\ Answer(a, Fail("unreadable"))
  /\ UNCHANGED <<process, client, outcome, call, record, promise, crashes>>

FindRecord(a) ==
  /\ record.state # "absent"
  /\ Goto(a, "claiming", "reading")
  /\ UNCHANGED <<process, client, outcome, call, record, promise, reply, crashes>>

BrokenReading(d) ==
  CASE record.state = "empty"    -> Fail("unreadable")
    [] record.state = "pending"  -> Fail("pending")
    [] record.state = "complete" -> Ok(record.picture)

(* What a record says to a request for digest d.                           *)
Reading(d) ==
  IF record.state = "empty" THEN Fail("unreadable")
  ELSE IF record.digest # d THEN Fail("conflict")
  ELSE IF record.state = "pending" THEN Fail("pending")
  ELSE Ok(record.picture)

ReadRecord(a) ==
  /\ handler[a] = "reading"
  /\ Answer(a, Reading(Asked(a)))
  /\ UNCHANGED <<process, client, outcome, call, record, promise, crashes>>

(* The promise of the handler that claimed the key; the other routes have  *)
(* none.                                                                   *)
Settle(a, state, picture) ==
  promise' = IF SharesPromise
             THEN [state |-> state, digest |-> Asked(a), picture |-> picture]
             ELSE promise

(* The call is made, and the promise published, in one synchronous stretch.*)
Dispatch(a) ==
  /\ Goto(a, "claimed", "rendering")
  /\ call' = [call EXCEPT ![a] = "sent"]
  /\ Settle(a, "open", None)
  /\ UNCHANGED <<process, client, outcome, record, reply, crashes>>

(* The photo and emoji routes look at the connection before they dispatch. *)
RefuseAborted(a) ==
  /\ handler[a] = "claimed" /\ ~SharesPromise /\ ~Waiting(a)
  /\ Answer(a, Fail("refused"))
  /\ UNCHANGED <<process, client, outcome, call, record, promise, crashes>>

(* edit() or generate() throws: before it sent anything, when the provider *)
(* refuses, or when the answer is late or lost.                            *)
EditFails(a) ==
  /\ handler[a] \in {"claimed", "rendering"}
  /\ Answer(a, Fail("failed"))
  /\ Settle(a, "failed", None)
  /\ UNCHANGED <<process, client, outcome, call, record, crashes>>

EditReturns(a) ==
  /\ call[a] = "charged"
  /\ Goto(a, "rendering", "delivering")
  /\ call' = [call EXCEPT ![a] = "returned"]
  /\ UNCHANGED <<process, client, outcome, record, promise, reply, crashes>>

(* The picture does not pass, is not stored or not written.                *)
DeliveryFails(a) ==
  /\ handler[a] = "delivering"
  /\ LET f == IF process = "news" THEN "failed" ELSE "committed"
     IN  Answer(a, Fail(f)) /\ Settle(a, f, None)
  /\ UNCHANGED <<process, client, outcome, call, record, crashes>>

(* The picture passes and is stored; only its record is still to write.    *)
Deliver(a) ==
  /\ Goto(a, "delivering", "delivered")
  /\ call' = [call EXCEPT ![a] = "delivered"]
  /\ UNCHANGED <<process, client, outcome, record, promise, reply, crashes>>

(* A temporary file, then rename.  On the CRT route this runs after the    *)
(* block whose failures are marked as committed.                           *)
RecordFails(a) ==
  /\ handler[a] = "delivered"
  /\ LET f == IF SharesPromise THEN "failed" ELSE "committed"
     IN  Answer(a, Fail(f)) /\ Settle(a, f, None)
  /\ UNCHANGED <<process, client, outcome, call, record, crashes>>

CompleteRecord(a) ==
  /\ Goto(a, "delivered", "recorded")
  /\ LET p == [digest |-> Asked(a), by |-> a]
     IN  record' = Complete(Asked(a), p) /\ Settle(a, "kept", p)
  /\ UNCHANGED <<process, client, outcome, call, reply, crashes>>

AnswerRecorded(a) ==
  /\ handler[a] = "recorded"
  /\ Answer(a, Ok(record.picture))
  /\ UNCHANGED <<process, client, outcome, call, record, promise, crashes>>

(* The provider, which answers to nobody here.                             *)
ProviderCharges(a) ==
  /\ call[a] = "sent"
  /\ call' = [call EXCEPT ![a] = "charged"]
  /\ UNCHANGED <<process, client, outcome, handler, record, promise, reply, crashes>>

ProviderRefuses(a) ==
  /\ call[a] = "sent"
  /\ call' = [call EXCEPT ![a] = "refused"]
  /\ UNCHANGED <<process, client, outcome, handler, record, promise, reply, crashes>>

(* The server process dies and is started again: handlers and promises are *)
(* gone, files and what was sent stay.                                     *)
Crash ==
  /\ crashes < CrashBound
  /\ crashes' = crashes + 1
  /\ handler' = [a \in Attempt |-> IF handler[a] = "none" THEN "none" ELSE "gone"]
  /\ promise' = NoPromise
  /\ UNCHANGED <<process, client, outcome, call, record, reply>>

ImageNext ==
  \/ \E a \in Attempt :
       \/ \E d \in Digest : Post(a, d)
       \/ CompileFails(a)
       \/ ReceiveAnswer(a)
       \/ LoseAnswer(a)
       \/ TimeOut(a)
       \/ WorkerDies(a)
       \/ RejectDigest(a)
       \/ Join(a)
       \/ AnswerJoined(a)
       \/ Arrive(a)
       \/ CreateRecord(a)
       \/ WriteRecord(a)
       \/ ClaimFails(a)
       \/ FindRecord(a)
       \/ ReadRecord(a)
       \/ Dispatch(a)
       \/ RefuseAborted(a)
       \/ EditFails(a)
       \/ EditReturns(a)
       \/ DeliveryFails(a)
       \/ Deliver(a)
       \/ RecordFails(a)
       \/ CompleteRecord(a)
       \/ AnswerRecorded(a)
       \/ ProviderCharges(a)
       \/ ProviderRefuses(a)
  \/ Crash

ImageSpec == ImageInit /\ [][ImageNext]_imageVars

-----------------------------------------------------------------------------
(* Properties.                                                             *)

ImageTypeOK ==
  /\ process \in Process
  /\ client \in [Attempt -> [phase  : {"idle", "waiting", "done", "dead"},
                             digest : Digest \cup {None},
                             result : Result \cup {None}]]
  /\ outcome \in Result \cup {None}
  /\ handler \in [Attempt -> {"none", "sent", "joined", "claiming", "creating",
                              "claimed", "reading", "rendering", "delivering",
                              "delivered", "recorded", "gone"}]
  /\ call \in [Attempt -> {"none", "sent", "charged", "refused", "returned", "delivered"}]
  /\ record \in [state   : {"absent", "empty", "pending", "complete"},
                 digest  : Digest \cup {None},
                 picture : Picture \cup {None}]
  /\ promise \in [state   : {"none", "open", "kept", "failed", "committed"},
                  digest  : Digest \cup {None},
                  picture : Picture \cup {None}]
  /\ reply \in [Attempt -> [kind    : {"none", "error", "ok"},
                            error   : ErrorCode \cup {None},
                            picture : Picture \cup {None}]]
  /\ crashes \in 0..CrashBound

(* However many attempts a run has, and however often the server crashes,   *)
(* the provider is called at most once for its key: "先记录占位再付费"        *)
(* (crt-server.ts:529).                                                    *)
OneCall ==
  \A a, b \in Attempt : call[a] # "none" /\ call[b] # "none" => a = b

(* A picture is only ever given to an attempt that asked for what it shows, *)
(* was paid for, and is the one the record keeps: every successful answer   *)
(* for a key is the same picture.                                          *)
AnswersAgree ==
  \A a \in Attempt : reply[a].kind = "ok" =>
    LET p == reply[a].picture
    IN  /\ p.digest = Asked(a)
        /\ call[p.by] = "delivered"
        /\ record = Complete(p.digest, p)

Told(a, e) == reply[a].kind = "error" /\ reply[a].error = e

(* What the answers and results say of money, as far as they promise it:    *)
(*  - a photo or emoji request that is told REJECTED, and an attempt that   *)
(*    reports DEPENDENCY_FAILURE for it, made no provider call;             *)
(*  - a CRT request whose edit returned a picture that was not delivered is *)
(*    never told UNAVAILABLE (crt-server.ts:928-931), and INCOMPLETE, and    *)
(*    DEPENDENCY_FAILURE_AFTER_COMMIT of an attempt, follow a paid edit.     *)
(* No more is promised.  A CRT picture that was delivered but not recorded  *)
(* is told UNAVAILABLE; a CRT attempt whose answer is lost, and any paid    *)
(* failure of a news image, report DEPENDENCY_FAILURE; PROCESS_TIMEOUT and   *)
(* AGENT_FAILURE say nothing of money, nor does an attempt of the requests  *)
(* of the attempts before it.                                              *)
ReportsAreHonest ==
  \A a \in Attempt :
    /\ process \in {"photo", "emoji"}
         /\ (Told(a, "REJECTED") \/ client[a].result = "DEPENDENCY_FAILURE")
         => call[a] = "none"
    /\ process = "crt" /\ Told(a, "UNAVAILABLE") => call[a] # "returned"
    /\ process = "crt"
         /\ (Told(a, "INCOMPLETE") \/ client[a].result = "DEPENDENCY_FAILURE_AFTER_COMMIT")
         => \E b \in Attempt : call[b] \in {"returned", "delivered"}

(* The record of a key only goes forward, and keeps the digest it was       *)
(* claimed with and the picture it was completed with.                     *)
RecordIsFinal ==
  [][/\ record.state = "complete" => UNCHANGED record
     /\ record.state = "pending"  => record'.state \in {"pending", "complete"}
     /\ record.digest # None      => record'.digest = record.digest]_record

(* One paid call for a key, whatever is repeated, joined or restarted; one   *)
(* answer; and what REJECTED, UNAVAILABLE and INCOMPLETE promise about money. *)
ImageConsistent == ImageTypeOK /\ OneCall /\ AnswersAgree /\ ReportsAreHonest
=============================================================================
