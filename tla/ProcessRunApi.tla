---------------------------- MODULE ProcessRunApi ----------------------------
(***************************************************************************)
(* The HTTP interface of asynchronous Process Runs as a client sees it:    *)
(* POST /process-runs and GET /process-runs/{id} (src/src/api/http.ts,     *)
(* src/src/process-runs/index.ts) over a network that loses, delays and    *)
(* garbles.  A POST that its client has given up on is still on the wire   *)
(* and may be served later.  The runs of one caller are kept as a          *)
(* sequence; what happens inside the service is ProcessRunStore's and      *)
(* ProcessRunSystem's subject and only its visible outcome is kept here.   *)
(***************************************************************************)
EXTENDS Integers, Sequences, FiniteSets

CONSTANTS
  Request,      \* request bodies
  Unservable,   \* those no Registration accepts
  MaxKeys,      \* bound on the idempotency keys the client makes
  MaxPosts,     \* bound on the POSTs it sends
  FaultBound,   \* bound on lost, garbled and refused exchanges
  None

ASSUME ApiAssumption ==
  /\ Unservable \subseteq Request
  /\ MaxKeys \in Nat /\ MaxPosts \in Nat /\ FaultBound \in Nat
  /\ None \notin Request

VARIABLES
  runs,         \* the caller's runs, in the order of their acceptance
  intake,       \* "open" or "closed", the operator's marker
  authorized,   \* the gateway knows the caller: fixed for a session
  wire,         \* POSTs on their way to the service
  posts,        \* POSTs sent so far
  awaited,      \* the number of the POST whose answer the client waits for
  answer,       \* that answer, once it is there
  keys,         \* idempotency keys made so far
  faults

serviceVars == <<runs, intake, authorized>>
networkVars == <<wire, posts, awaited, answer>>
apiVars == <<serviceVars, networkVars, keys, faults>>

Key == 1..MaxKeys
RunId == DOMAIN runs
Terminal == {"succeeded", "failed"}   \* "active" is queued or running

Post == [number : 1..MaxPosts, key : Key, request : Request]
Run == [key : Key, request : Request, status : {"active"} \cup Terminal,
        kept : {"result", "expired", "deleted"}]

BacklogCode == {"CALLER_BACKLOG_LIMIT_REACHED", "ASYNC_SERVICE_CAPACITY_REACHED"}

(* What a client can get for a POST.  "BODY_LOST" is an answer 202 whose    *)
(* headers arrived and whose body did not, "GARBLED" one that is no JSON   *)
(* of this interface, "TRANSPORT" none at all.                             *)
SubmitCode ==
  BacklogCode \cup
  {"ACCEPTED", "BODY_LOST", "GARBLED", "TRANSPORT", "CALLER_UNAUTHORIZED",
   "ASYNC_INTAKE_CLOSED", "INVALID_INPUT", "IDEMPOTENCY_CONFLICT",
   "ASYNC_SERVICE_UNAVAILABLE"}

Refused(code) == [code |-> code, run |-> 0]
NoAnswer == Refused("NONE")

ApiInit ==
  /\ runs = <<>>
  /\ intake = "open"
  /\ authorized \in BOOLEAN
  /\ wire = {}
  /\ posts = 0
  /\ awaited = 0
  /\ answer = NoAnswer
  /\ keys = 0
  /\ faults = 0

Fault == faults < FaultBound /\ faults' = faults + 1

-----------------------------------------------------------------------------
(* The client's side of an exchange                                        *)

CanSend == posts < MaxPosts

SendPost(k, q) ==
  /\ CanSend
  /\ posts' = posts + 1
  /\ wire' = wire \cup {[number |-> posts + 1, key |-> k, request |-> q]}
  /\ awaited' = posts + 1
  /\ answer' = NoAnswer

TakeAnswer ==
  /\ answer' = NoAnswer
  /\ awaited' = 0
  /\ UNCHANGED <<wire, posts>>

Answered == answer # NoAnswer

-----------------------------------------------------------------------------
(* POST /process-runs                                                      *)

\* The row with this caller and key, if retention has left it.
Known(m) == {r \in RunId : runs[r].kept # "deleted" /\ runs[r].key = m.key}

\* The reply reaches whoever waits for this very POST.
Reply(m, a) ==
  /\ wire' = wire \ {m}
  /\ answer' = IF awaited = m.number /\ ~Answered THEN a ELSE answer
  /\ UNCHANGED <<posts, awaited>>

\* In the order of submitProcessRun and submit: caller, intake, body, key,
\* backlog (of everybody's runs, so full or not for all this client knows).
Refusals(m) ==
  IF ~authorized THEN {"CALLER_UNAUTHORIZED"}
  ELSE IF intake = "closed" THEN {"ASYNC_INTAKE_CLOSED"}
  ELSE IF m.request \in Unservable THEN {"INVALID_INPUT"}
  ELSE IF Known(m) = {} THEN BacklogCode
  ELSE IF \E r \in Known(m) : runs[r].request # m.request THEN {"IDEMPOTENCY_CONFLICT"}
  ELSE {}

Refuse(m) ==
  /\ \E code \in Refusals(m) :
       /\ Reply(m, Refused(code))
       /\ IF code \in BacklogCode THEN Fault ELSE UNCHANGED faults
  /\ UNCHANGED <<serviceVars, keys>>

Admitted(m) == authorized /\ intake = "open" /\ m.request \notin Unservable

AnswerKnown(m) ==
  /\ Admitted(m)
  /\ \E r \in Known(m) :
       /\ runs[r].request = m.request
       /\ Reply(m, [code |-> "ACCEPTED", run |-> r])
  /\ UNCHANGED <<serviceVars, keys, faults>>

\* The new row; the answer may be lost with the database's connection.
Accept(m) ==
  /\ Admitted(m)
  /\ Known(m) = {}
  /\ runs' = Append(runs, [key |-> m.key, request |-> m.request,
                           status |-> "active", kept |-> "result"])
  /\ \/ /\ Reply(m, [code |-> "ACCEPTED", run |-> Len(runs) + 1])
        /\ UNCHANGED faults
     \/ /\ Reply(m, Refused("ASYNC_SERVICE_UNAVAILABLE"))
        /\ Fault
  /\ UNCHANGED <<intake, authorized, keys>>

\* Identity or database out of reach, before anything was written.
Unavailable(m) ==
  /\ Reply(m, Refused("ASYNC_SERVICE_UNAVAILABLE"))
  /\ Fault
  /\ UNCHANGED <<serviceVars, keys>>

ServePost ==
  \E m \in wire : Refuse(m) \/ AnswerKnown(m) \/ Accept(m) \/ Unavailable(m)

-----------------------------------------------------------------------------
(* GET /process-runs/{id}: no effect, so it is answered in one step        *)

ViewOf(r) ==
  IF ~authorized THEN "CALLER_UNAUTHORIZED"
  ELSE IF runs[r].kept = "deleted" THEN "PROCESS_RUN_NOT_FOUND"
  ELSE IF runs[r].kept = "expired" THEN "result-expired"
  ELSE runs[r].status

-----------------------------------------------------------------------------
(* The service and the network                                             *)

SetRun(r, status, kept) ==
  /\ runs' = [runs EXCEPT ![r].status = status, ![r].kept = kept]
  /\ UNCHANGED <<intake, authorized, networkVars, keys, faults>>

FinishRun(r) == runs[r].status = "active" /\ \E s \in Terminal : SetRun(r, s, "result")
ExpireResult(r) == /\ runs[r].status \in Terminal /\ runs[r].kept = "result"
                   /\ SetRun(r, runs[r].status, "expired")
DeleteRun(r) == runs[r].kept = "expired" /\ SetRun(r, runs[r].status, "deleted")

CloseIntake ==
  /\ intake = "open"
  /\ intake' = "closed"
  /\ UNCHANGED <<runs, authorized, networkVars, keys, faults>>

OpenIntake ==
  /\ intake = "closed"
  /\ Fault
  /\ intake' = "open"
  /\ UNCHANGED <<runs, authorized, networkVars, keys>>

\* A POST is lost on its way; its client's connection breaks.
LosePost ==
  /\ \E m \in wire : Reply(m, Refused("TRANSPORT"))
  /\ Fault
  /\ UNCHANGED <<serviceVars, keys>>

\* The client's connection breaks, or the gateway answers in the service's
\* place, while the POST is still on its way.
BreakExchange ==
  /\ awaited # 0 /\ ~Answered
  /\ \E code \in {"TRANSPORT", "GARBLED"} : answer' = Refused(code)
  /\ Fault
  /\ UNCHANGED <<serviceVars, wire, posts, awaited, keys>>

LoseAnswer ==
  /\ Answered /\ answer.code \notin {"TRANSPORT", "GARBLED", "BODY_LOST"}
  /\ \/ answer' = Refused("TRANSPORT")
     \/ answer.code = "ACCEPTED" /\ answer' = [answer EXCEPT !.code = "BODY_LOST"]
  /\ Fault
  /\ UNCHANGED <<serviceVars, wire, posts, awaited, keys>>

ApiNext ==
  \/ ServePost
  \/ \E r \in RunId : FinishRun(r)
  \/ CloseIntake \/ OpenIntake
  \/ LosePost \/ BreakExchange \/ LoseAnswer

ApiTypeOK ==
  /\ runs \in Seq(Run)
  /\ intake \in {"open", "closed"}
  /\ authorized \in BOOLEAN
  /\ wire \subseteq Post
  /\ posts \in 0..MaxPosts
  /\ awaited \in 0..MaxPosts
  /\ answer \in [code : SubmitCode \cup {"NONE"}, run : Nat]
  /\ keys \in 0..MaxKeys
  /\ faults \in 0..FaultBound
=============================================================================
