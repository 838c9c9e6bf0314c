----------------------- MODULE ProcessRunClientsProofs -----------------------
(***************************************************************************)
(* What TLAPS proves of ProcessRunClients, for any request bodies and any  *)
(* numbers of keys, POSTs and faults: no run a console tab has paid for is *)
(* forgotten, what its page showed is true, and so is what the smoke tests *)
(* of a release attest.                                                    *)
(*                                                                         *)
(* ServiceEffect is all a client notices of a step of the service or the   *)
(* network; each client's part of the invariant is kept by it once, and by *)
(* each of the client's own actions.                                       *)
(***************************************************************************)
EXTENDS ProcessRunClients, FiniteSetTheorems, SequenceTheorems, TLAPS

-----------------------------------------------------------------------------
(* The service and the network, whoever the client is: a POST is on the    *)
(* wire at most once, a key has one body, and an answer that names a run   *)
(* names one there is.                                                     *)
ApiSound ==
  /\ ApiTypeOK
  /\ \A m \in wire : m.number <= posts /\ m.key <= keys
  /\ \A m, n \in wire : m.number = n.number => m = n
  /\ \A m, n \in wire : m.key = n.key => m.request = n.request
  /\ \A m \in wire : \A r \in RunId : runs[r].key = m.key => runs[r].request = m.request
  /\ \A r \in RunId : /\ runs[r].key <= keys
                      /\ runs[r].request \notin Unservable
                      /\ runs[r].kept # "result" => runs[r].status \in Terminal
  /\ ~authorized => runs = <<>>
  /\ answer.code \in {"ACCEPTED", "BODY_LOST"} => answer.run \in RunId
  /\ answer.code = "NONE" => ~Answered

(* The POST the client waits for is one of key k; what it may have been    *)
(* answered says something of that key.                                    *)
Awaits(k, q) ==
  /\ \A m \in wire : m.number = awaited => m.key = k
  /\ answer.code = "ACCEPTED" => runs[answer.run].key = k
  /\ answer.code = "INVALID_INPUT" => q \in Unservable
  /\ answer.code = "CALLER_UNAUTHORIZED" => ~authorized
  /\ answer.code # "IDEMPOTENCY_CONFLICT"

HasBody(k, q) ==
  /\ \A m \in wire : m.key = k => m.request = q
  /\ \A r \in RunId : runs[r].key = k => runs[r].request = q

(* A key whose rejection was reported has no run and can get none.         *)
Dead(k) ==
  /\ pending.key # k
  /\ \A r \in RunId : runs[r].key # k
  /\ authorized => \A m \in wire : m.key = k => m.request \in Unservable

FateOfKeys ==
  \A k \in Key : /\ fate[k] = "held" => pending.key = k
                 /\ k > keys => fate[k] = "unused"
                 /\ fate[k] = "rejected" => Dead(k)

RecordSound ==
  /\ pending # NoPending => pending.key <= keys
  /\ HasBody(pending.key, pending.request)
  /\ op.phase = "posting" => pending # NoPending /\ Awaits(pending.key, pending.request)
  /\ op.phase = "polling" => pending.class = "accepted" /\ op.run = pending.run
  /\ pending.class = "accepted" => /\ pending.run \in RunId
                                   /\ runs[pending.run].key = pending.key

ReportsTrue ==
  \A p \in reported : p[1] \in RunId /\ runs[p[1]].status = p[2] /\ p[2] \in Terminal

ConsoleSound == ConsoleTypeOK /\ FateOfKeys /\ RecordSound /\ ReportsTrue

(* The smoke tests: nothing of theirs is deleted, so a key has one run.    *)
SmokeRuns ==
  /\ authorized
  /\ \A m \in wire : m.request = Body
  /\ \A r \in RunId : runs[r].kept = "result" /\ runs[r].request = Body
  /\ \A r, s \in RunId : runs[r].key = runs[s].key => r = s

PaidSound ==
  /\ step \in {"start", "interrupting", "replaying", "querying", "done", "thrown"}
  /\ keys = (IF step = "start" THEN 0 ELSE 1) /\ seen = {}
  /\ first # 0 => first \in RunId
  /\ step = "querying" => second \in RunId /\ first \in {0, second}
  /\ step \in {"start", "interrupting", "replaying"} => second = 0
  /\ step \in {"start", "interrupting", "replaying", "querying"} => evidence = <<>>
  /\ \A e \in {evidence[i] : i \in DOMAIN evidence} :
       /\ e.event = "paid" /\ e.uniqueRuns = 1 /\ e.run \in RunId
       /\ e.status # "unknown" => runs[e.run].status = e.status /\ e.status \in Terminal
       /\ RecoveryIsTrue(e)

KeyOfStep ==
  /\ step = "start" => keys = 0
  /\ step \in {"first_posted", "first_accepted"} => keys = 1
  /\ step \in {"second_posted", "waiting", "baselined"} => keys = 2
  /\ step \in {"probing", "done"} => keys = 3

(* The run of each key, once it is there; each seen at its expected end.   *)
RunsOfSteps ==
  /\ step \in {"first_accepted", "second_posted", "waiting", "baselined", "probing", "done"}
       => first \in RunId /\ runs[first].key = 1
  /\ step \in {"waiting", "baselined", "probing", "done"}
       => second \in RunId /\ runs[second].key = 2
  /\ step \in {"first_posted", "second_posted", "probing"} => Awaits(keys, Body)
  /\ step \in {"start", "first_posted", "first_accepted", "second_posted"}
       => seen = {} /\ evidence = <<>>
  /\ \A r \in seen : r \in RunId /\ runs[r].status = Expected(r)

(* The probe: while it may still be refused there is no run of its key.    *)
Probed ==
  /\ step = "probing" =>
       /\ \A m \in wire : m.key = keys => m.number = awaited
       /\ answer.code \in {"NONE", "ASYNC_INTAKE_CLOSED"} =>
            \A r \in RunId : runs[r].key # keys
       /\ answer.code = "ASYNC_INTAKE_CLOSED" => \A m \in wire : m.key # keys
  /\ step = "done" => /\ \A r \in RunId : runs[r].key # keys
                      /\ \A m \in wire : m.key # keys

InternalSound ==
  /\ KeyOfStep /\ RunsOfSteps /\ Probed
  /\ \A e \in {evidence[i] : i \in DOMAIN evidence} :
       /\ e.event \in {"baseline", "rollback"}
       /\ e.event = "rollback" => step = "done"
       /\ first \in RunId /\ second \in RunId /\ first # second
       /\ runs[first].status = "succeeded" /\ runs[second].status = "failed"

(* A client that is not there has done nothing.                            *)
ClientsInv ==
  /\ ApiSound /\ SmokeTypeOK
  /\ IF smoke = "none" THEN ConsoleSound ELSE ConsoleInit /\ SmokeRuns
  /\ smoke = "none" => /\ step = "start" /\ evidence = <<>>
                       /\ seen = {} /\ first = 0 /\ second = 0
  /\ smoke = "paid" => PaidSound
  /\ smoke = "internal" => InternalSound

-----------------------------------------------------------------------------
(* What a step of the service, of retention or of the network does to its  *)
(* clients.                                                                *)
RunsGrow ==
  \A r \in RunId : /\ r \in RunId'
                   /\ runs'[r].key = runs[r].key /\ runs'[r].request = runs[r].request
                   /\ runs'[r].kept # runs[r].kept => runs'[r].status \in Terminal
                   /\ runs[r].status \in Terminal => runs'[r].status = runs[r].status

AnswerTo(m) ==
  /\ m.number = awaited /\ ~Answered /\ wire' = wire \ {m}
  /\ answer'.code \notin {"NONE", "BODY_LOST"}
  /\ answer'.code = "ACCEPTED" => answer'.run \in RunId' /\ runs'[answer'.run].key = m.key
  /\ answer'.code = "CALLER_UNAUTHORIZED" => ~authorized
  /\ answer'.code = "INVALID_INPUT" => m.request \in Unservable
  /\ answer'.code = "IDEMPOTENCY_CONFLICT" =>
       \E r \in RunId : runs[r].key = m.key /\ runs[r].request # m.request
  /\ answer'.code = "ASYNC_INTAKE_CLOSED" => runs' = runs

AnswerTold ==
  \/ answer' = answer
  \/ answer'.code \in {"TRANSPORT", "GARBLED"}
  \/ answer.code = "ACCEPTED" /\ answer'.code = "BODY_LOST" /\ answer'.run = answer.run
  \/ \E m \in wire : AnswerTo(m)

NewRun(r) ==
  \E m \in wire :
    /\ authorized /\ m.request \notin Unservable /\ Known(m) = {}
    /\ runs'[r].key = m.key /\ runs'[r].request = m.request /\ runs'[r].kept = "result"
    /\ \A s \in RunId' : s \in RunId \/ s = r
    /\ m.number = awaited /\ ~Answered => answer'.code \in {"ACCEPTED", "ASYNC_SERVICE_UNAVAILABLE"}

ServiceEffect ==
  /\ ApiTypeOK' /\ UNCHANGED <<authorized, posts, awaited, keys>>
  /\ wire' \subseteq wire
  /\ RunsGrow
  /\ \A r \in RunId' : r \in RunId \/ NewRun(r)
  /\ AnswerTold

LEMMA RunTypes ==
  ASSUME ApiTypeOK
  PROVE  /\ Len(runs) \in Nat /\ RunId = 1..Len(runs)
         /\ \A r \in RunId : runs[r] \in Run
BY DEF ApiTypeOK, RunId

LEMMA PostTypes ==
  ASSUME ApiTypeOK, NEW m \in wire
  PROVE  m.number \in Nat /\ m.number # 0 /\ m.key \in Key /\ m.request \in Request
BY ApiAssumption DEF ApiTypeOK, Post

LEMMA FaultTypes ==
  ASSUME ApiTypeOK, Fault \/ UNCHANGED faults
  PROVE  faults' \in 0..FaultBound
BY ApiAssumption DEF ApiTypeOK, Fault

(* An answer that comes with no new run.                                   *)
LEMMA RepliedOnly ==
  ASSUME ApiTypeOK, NEW m \in wire, NEW code \in SubmitCode, NEW r \in Nat,
         Reply(m, [code |-> code, run |-> r]),
         UNCHANGED <<serviceVars, keys>>, faults' \in 0..FaultBound,
         code # "BODY_LOST",
         code = "ACCEPTED" => r \in RunId /\ runs[r].key = m.key,
         code = "CALLER_UNAUTHORIZED" => ~authorized,
         code = "INVALID_INPUT" => m.request \in Unservable,
         code = "IDEMPOTENCY_CONFLICT" =>
           \E s \in RunId : runs[s].key = m.key /\ runs[s].request # m.request
  PROVE  ServiceEffect /\ \A s \in RunId : runs'[s].kept = runs[s].kept
<1> DEFINE a == [code |-> code, run |-> r]
<1>1. /\ UNCHANGED <<runs, intake, authorized, keys, posts, awaited>>
      /\ wire' = wire \ {m}
      /\ answer' = IF awaited = m.number /\ ~Answered THEN a ELSE answer
  BY DEF Reply, serviceVars
<1>2. a \in [code : SubmitCode \cup {"NONE"}, run : Nat] /\ a.code = code /\ a.run = r
  OBVIOUS
<1>3. code # "NONE"
  BY DEF SubmitCode, BacklogCode
<1> HIDE DEF a
<1>4. ApiTypeOK'
  BY <1>1, <1>2 DEF ApiTypeOK
<1>5. RunsGrow /\ \A s \in RunId' : s \in RunId
  BY <1>1 DEF RunsGrow, RunId
<1>6. AnswerTold
  <2>1. CASE awaited = m.number /\ ~Answered
    <3>1. AnswerTo(m)
      BY <1>1, <1>2, <1>3, <2>1 DEF AnswerTo, RunId
    <3> QED
      BY <3>1 DEF AnswerTold
  <2>2. CASE ~(awaited = m.number /\ ~Answered)
    BY <1>1, <2>2 DEF AnswerTold
  <2> QED
    BY <2>1, <2>2
<1> QED
  BY <1>1, <1>4, <1>5, <1>6 DEF ServiceEffect

LEMMA RefuseDoes ==
  ASSUME ApiTypeOK, NEW m \in wire, Refuse(m)
  PROVE  ServiceEffect /\ \A r \in RunId : runs'[r].kept = runs[r].kept
<1>1. PICK code \in Refusals(m) : Reply(m, [code |-> code, run |-> 0])
  BY DEF Refuse, Refused
<1>2. faults' \in 0..FaultBound /\ UNCHANGED <<serviceVars, keys>>
  BY FaultTypes DEF Refuse
<1>3. /\ code \in SubmitCode /\ code \notin {"BODY_LOST", "ACCEPTED"}
      /\ code = "CALLER_UNAUTHORIZED" => ~authorized
      /\ code = "INVALID_INPUT" => m.request \in Unservable
      /\ code = "IDEMPOTENCY_CONFLICT" =>
           \E s \in RunId : runs[s].key = m.key /\ runs[s].request # m.request
  <2>1. CASE ~authorized
    BY <2>1 DEF Refusals, SubmitCode
  <2>2. CASE authorized /\ intake = "closed"
    BY <2>2 DEF Refusals, SubmitCode
  <2>3. CASE authorized /\ intake # "closed" /\ m.request \in Unservable
    BY <2>3 DEF Refusals, SubmitCode
  <2>4. CASE authorized /\ intake # "closed" /\ m.request \notin Unservable /\ Known(m) = {}
    BY <2>4 DEF Refusals, SubmitCode, BacklogCode
  <2>5. CASE authorized /\ intake # "closed" /\ m.request \notin Unservable /\ Known(m) # {}
    BY <2>5 DEF Refusals, SubmitCode, Known
  <2> QED
    BY <2>1, <2>2, <2>3, <2>4, <2>5
<1> QED
  BY <1>1, <1>2, <1>3, RepliedOnly

LEMMA AnswerKnownDoes ==
  ASSUME ApiTypeOK, NEW m \in wire, AnswerKnown(m)
  PROVE  ServiceEffect /\ \A r \in RunId : runs'[r].kept = runs[r].kept
<1>1. PICK r \in Known(m) : Reply(m, [code |-> "ACCEPTED", run |-> r])
  BY DEF AnswerKnown
<1>2. faults' \in 0..FaultBound /\ UNCHANGED <<serviceVars, keys>>
  BY FaultTypes DEF AnswerKnown
<1>3. r \in RunId /\ r \in Nat /\ runs[r].key = m.key
  BY RunTypes DEF Known
<1>4. "ACCEPTED" \in SubmitCode
  BY DEF SubmitCode
<1> QED
  BY <1>1, <1>2, <1>3, <1>4, RepliedOnly

LEMMA AcceptDoes ==
  ASSUME ApiTypeOK, NEW m \in wire, Accept(m)
  PROVE  ServiceEffect /\ \A r \in RunId : runs'[r].kept = runs[r].kept
<1> DEFINE x == [key |-> m.key, request |-> m.request, status |-> "active", kept |-> "result"]
           n == Len(runs) + 1
<1>1. /\ UNCHANGED <<intake, authorized, keys, posts, awaited>>
      /\ authorized /\ m.request \notin Unservable /\ Known(m) = {}
      /\ runs' = Append(runs, x) /\ wire' = wire \ {m}
      /\ faults' \in 0..FaultBound
  BY FaultTypes DEF Accept, Admitted, Reply
<1>2. PICK a \in {[code |-> "ACCEPTED", run |-> n],
                 [code |-> "ASYNC_SERVICE_UNAVAILABLE", run |-> 0]} :
        answer' = IF awaited = m.number /\ ~Answered THEN a ELSE answer
  BY DEF Accept, Reply, Refused
<1>3. x \in Run /\ x.key = m.key /\ x.request = m.request /\ x.kept = "result"
  BY PostTypes DEF Run
<1> HIDE DEF x
<1>4. /\ runs' \in Seq(Run) /\ RunId = 1..Len(runs) /\ RunId' = 1..n /\ Len(runs) \in Nat
      /\ runs'[n] = x /\ \A r \in RunId : runs'[r] = runs[r]
  BY <1>1, <1>3 DEF ApiTypeOK, RunId
<1>5. /\ a \in [code : SubmitCode \cup {"NONE"}, run : Nat]
      /\ a.code \in {"ACCEPTED", "ASYNC_SERVICE_UNAVAILABLE"}
      /\ a.code = "ACCEPTED" => a.run = n
  BY <1>4 DEF SubmitCode
<1>6. ApiTypeOK'
  BY <1>1, <1>2, <1>4, <1>5 DEF ApiTypeOK
<1>7. RunsGrow
  BY <1>4 DEF RunsGrow
<1>8. \A r \in RunId' : r \in RunId \/ r = n
  BY <1>4
<1>9. NewRun(n)
  BY <1>1, <1>2, <1>3, <1>4, <1>5, <1>8 DEF NewRun
<1>10. AnswerTold
  <2>1. CASE awaited = m.number /\ ~Answered
    <3>1. AnswerTo(m)
      BY <1>1, <1>2, <1>3, <1>4, <1>5, <2>1 DEF AnswerTo
    <3> QED
      BY <3>1 DEF AnswerTold
  <2>2. CASE ~(awaited = m.number /\ ~Answered)
    BY <1>2, <2>2 DEF AnswerTold
  <2> QED
    BY <2>1, <2>2
<1> QED
  BY <1>1, <1>4, <1>6, <1>7, <1>8, <1>9, <1>10 DEF ServiceEffect

LEMMA SetRunDoes ==
  ASSUME ApiTypeOK, NEW r \in RunId, NEW status \in {"active"} \cup Terminal,
         NEW kept \in {"result", "expired", "deleted"}, SetRun(r, status, kept),
         kept # runs[r].kept => status \in Terminal,
         runs[r].status \in Terminal => status = runs[r].status
  PROVE  /\ ServiceEffect
         /\ \A s \in RunId : s # r => runs'[s].kept = runs[s].kept
         /\ runs'[r].kept = kept
<1> DEFINE x == [runs[r] EXCEPT !.status = status, !.kept = kept]
<1>1. runs' = [runs EXCEPT ![r] = x]
  BY DEF SetRun
<1>2. UNCHANGED <<intake, authorized, wire, posts, awaited, answer, keys, faults>>
  BY DEF SetRun, networkVars
<1>3. /\ x \in Run /\ x.key = runs[r].key /\ x.request = runs[r].request
      /\ x.status = status /\ x.kept = kept
  BY RunTypes DEF Run
<1> HIDE DEF x
<1>4. /\ runs' \in Seq(Run) /\ RunId' = RunId /\ runs'[r] = x
      /\ \A s \in RunId : s # r => runs'[s] = runs[s]
  <2>1. runs \in Seq(Run)
    BY DEF ApiTypeOK
  <2> QED
    BY <1>1, <1>3, <2>1 DEF RunId
<1>5. ApiTypeOK'
  BY <1>2, <1>4 DEF ApiTypeOK
<1>6. RunsGrow
  BY <1>3, <1>4 DEF RunsGrow
<1> QED
  BY <1>2, <1>3, <1>4, <1>5, <1>6 DEF ServiceEffect, AnswerTold

(* Nothing but the answer, the faults and the operator's marker moves.     *)
LEMMA AnswerOnly ==
  ASSUME ApiTypeOK, UNCHANGED <<runs, authorized, wire, posts, awaited, keys>>,
         intake' \in {"open", "closed"}, faults' \in 0..FaultBound, AnswerTold,
         answer' \in [code : SubmitCode \cup {"NONE"}, run : Nat]
  PROVE  ServiceEffect /\ \A r \in RunId : runs'[r].kept = runs[r].kept
<1>1. ApiTypeOK'
  BY DEF ApiTypeOK
<1>2. RunsGrow /\ RunId' = RunId
  BY DEF RunsGrow, RunId
<1> QED
  BY <1>1, <1>2 DEF ServiceEffect

LEMMA ServiceDoes ==
  ASSUME ApiSound, ApiNext
  PROVE  ServiceEffect /\ \A r \in RunId : runs'[r].kept = runs[r].kept
<1>0. ApiTypeOK /\ \A r \in RunId : runs[r].kept # "result" => runs[r].status \in Terminal
  BY DEF ApiSound
<1> DEFINE Goal == ServiceEffect /\ \A r \in RunId : runs'[r].kept = runs[r].kept
<1> HIDE DEF Goal
<1>1. ASSUME NEW m \in wire, Refuse(m) PROVE Goal
  BY <1>0, <1>1, RefuseDoes DEF Goal
<1>2. ASSUME NEW m \in wire, AnswerKnown(m) PROVE Goal
  BY <1>0, <1>2, AnswerKnownDoes DEF Goal
<1>3. ASSUME NEW m \in wire, Accept(m) PROVE Goal
  BY <1>0, <1>3, AcceptDoes DEF Goal
<1>4. ASSUME NEW m \in wire, NEW code \in {"ASYNC_SERVICE_UNAVAILABLE", "TRANSPORT"},
             Reply(m, Refused(code)), Fault, UNCHANGED <<serviceVars, keys>>
      PROVE  Goal
  <2>1. faults' \in 0..FaultBound
    BY <1>0, <1>4, FaultTypes
  <2>2. code \in SubmitCode
    BY DEF SubmitCode
  <2> QED
    BY <1>0, <1>4, <2>1, <2>2, RepliedOnly DEF Refused, Goal
<1>5. ASSUME NEW r \in RunId, FinishRun(r) PROVE Goal
  <2>1. PICK s \in Terminal : SetRun(r, s, "result")
    BY <1>0, <1>5 DEF FinishRun
  <2>2. s \in {"active"} \cup Terminal /\ "result" \in {"result", "expired", "deleted"}
    OBVIOUS
  <2>3. runs[r].status = "active" /\ "active" \notin Terminal /\ runs[r].kept = "result"
    BY <1>0, <1>5 DEF FinishRun, Terminal
  <2> QED
    BY <1>0, <2>1, <2>2, <2>3, SetRunDoes DEF Goal
<1>6. CASE CloseIntake \/ OpenIntake
  <2>1. faults' \in 0..FaultBound
    BY <1>0, <1>6, FaultTypes DEF CloseIntake, OpenIntake
  <2> QED
    BY <1>0, <1>6, <2>1, AnswerOnly DEF CloseIntake, OpenIntake, networkVars, AnswerTold, Goal,
                                  ApiTypeOK
<1>7. CASE BreakExchange
  <2>1. /\ faults' \in 0..FaultBound
        /\ UNCHANGED <<runs, intake, authorized, wire, posts, awaited, keys>>
    BY <1>0, <1>7, FaultTypes DEF BreakExchange, serviceVars
  <2>2. PICK code \in {"TRANSPORT", "GARBLED"} : answer' = [code |-> code, run |-> 0]
    BY <1>0, <1>7 DEF BreakExchange, Refused
  <2>3. /\ AnswerTold
        /\ answer' \in [code : SubmitCode \cup {"NONE"}, run : Nat]
    BY <1>0, <2>2 DEF AnswerTold, SubmitCode
  <2> QED
    BY <1>0, <2>1, <2>3, AnswerOnly DEF Goal, ApiTypeOK
<1>8. CASE LoseAnswer
  <2>1. /\ faults' \in 0..FaultBound
        /\ UNCHANGED <<runs, intake, authorized, wire, posts, awaited, keys>>
    BY <1>0, <1>8, FaultTypes DEF LoseAnswer, serviceVars
  <2>2. /\ AnswerTold
        /\ answer' \in [code : SubmitCode \cup {"NONE"}, run : Nat]
    <3>1. CASE answer' = [code |-> "TRANSPORT", run |-> 0]
      BY <1>0, <3>1 DEF AnswerTold, SubmitCode
    <3>2. CASE answer.code = "ACCEPTED" /\ answer' = [answer EXCEPT !.code = "BODY_LOST"]
      BY <1>0, <3>2 DEF AnswerTold, SubmitCode, ApiTypeOK
    <3> QED
      BY <1>0, <1>8, <3>1, <3>2 DEF LoseAnswer, Refused
  <2> QED
    BY <1>0, <2>1, <2>2, AnswerOnly DEF Goal, ApiTypeOK
<1> QED
  BY <1>0, <1>1, <1>2, <1>3, <1>4, <1>5, <1>6, <1>7, <1>8
     DEF ApiNext, ServePost, Unavailable, LosePost, Goal

LEMMA RetentionDoes ==
  ASSUME ApiTypeOK, NEW r \in RunId, ExpireResult(r) \/ DeleteRun(r),
         runs[r].kept # "result" => runs[r].status \in Terminal
  PROVE  ServiceEffect
<1>1. runs[r].status \in Terminal
  BY DEF ExpireResult, DeleteRun
<1> QED
  BY <1>1, SetRunDoes DEF ExpireResult, DeleteRun

-----------------------------------------------------------------------------
(* What stays true of the service and the network.                         *)

LEMMA EffectKeepsService ==
  ASSUME ApiSound, ServiceEffect
  PROVE  ApiSound'
<1> USE DEF ApiSound
<1>1. /\ ApiTypeOK' /\ UNCHANGED <<authorized, posts, awaited, keys>>
      /\ wire' \subseteq wire /\ RunsGrow /\ \A r \in RunId' : r \in RunId \/ NewRun(r)
  BY DEF ServiceEffect
<1>2. /\ \A m \in wire' : m.number <= posts' /\ m.key <= keys'
      /\ \A m, n \in wire' : m.number = n.number => m = n
      /\ \A m, n \in wire' : m.key = n.key => m.request = n.request
  BY <1>1
<1>3. \A m \in wire' : \A r \in RunId' : runs'[r].key = m.key => runs'[r].request = m.request
  BY <1>1 DEF RunsGrow, NewRun
<1>4. \A r \in RunId' : /\ runs'[r].key <= keys'
                        /\ runs'[r].request \notin Unservable
                        /\ runs'[r].kept # "result" => runs'[r].status \in Terminal
  <2> SUFFICES ASSUME NEW r \in RunId'
               PROVE  /\ runs'[r].key <= keys
                      /\ runs'[r].request \notin Unservable
                      /\ runs'[r].kept # "result" => runs'[r].status \in Terminal
    BY <1>1
  <2>1. CASE r \in RunId
    BY <1>1, <2>1 DEF RunsGrow
  <2>2. CASE NewRun(r)
    BY <2>2 DEF NewRun
  <2> QED
    BY <1>1, <2>1, <2>2
<1>5. ~authorized' => runs' = <<>>
  <2> SUFFICES ASSUME ~authorized
               PROVE  runs' = <<>>
    BY <1>1
  <2>1. RunId = {}
    BY DEF RunId
  <2>2. RunId' = {}
    BY <1>1, <2>1 DEF NewRun
  <2>3. runs' \in Seq(Run)
    BY <1>1 DEF ApiTypeOK
  <2> QED
    BY <2>2, <2>3 DEF RunId
<1>6. answer'.code \in {"ACCEPTED", "BODY_LOST"} => answer'.run \in RunId'
  BY <1>1 DEF ServiceEffect, AnswerTold, AnswerTo, RunsGrow
<1>7. answer'.code = "NONE" => ~Answered'
  BY <1>1 DEF ServiceEffect, AnswerTold, AnswerTo, Answered, NoAnswer, Refused
<1> QED
  BY <1>1, <1>2, <1>3, <1>4, <1>5, <1>6, <1>7

LEMMA EffectKeepsBody ==
  ASSUME ApiSound, ServiceEffect, NEW k, NEW q, HasBody(k, q)
  PROVE  /\ \A m \in wire' : m.key = k => m.request = q
         /\ \A r \in RunId' : runs'[r].key = k => runs'[r].request = q
BY DEF ServiceEffect, RunsGrow, NewRun, HasBody

LEMMA EffectKeepsAwaits ==
  ASSUME ApiSound, ServiceEffect, NEW k, NEW q, HasBody(k, q), Awaits(k, q)
  PROVE  /\ \A m \in wire' : m.number = awaited' => m.key = k
         /\ answer'.code = "ACCEPTED" => runs'[answer'.run].key = k
         /\ answer'.code = "INVALID_INPUT" => q \in Unservable
         /\ answer'.code = "CALLER_UNAUTHORIZED" => ~authorized'
         /\ answer'.code # "IDEMPOTENCY_CONFLICT"
<1>1. /\ UNCHANGED <<authorized, awaited>> /\ wire' \subseteq wire /\ RunsGrow
  BY DEF ServiceEffect
<1>2. \A m \in wire' : m.number = awaited' => m.key = k
  BY <1>1 DEF Awaits
<1>3. CASE answer' = answer
  BY <1>1, <1>2, <1>3 DEF Awaits, RunsGrow, ApiSound
<1>4. CASE answer'.code \in {"TRANSPORT", "GARBLED", "BODY_LOST"}
  BY <1>2, <1>4
<1>5. ASSUME NEW m \in wire, AnswerTo(m)
      PROVE  /\ answer'.code = "ACCEPTED" => runs'[answer'.run].key = k
             /\ answer'.code = "INVALID_INPUT" => q \in Unservable
             /\ answer'.code = "CALLER_UNAUTHORIZED" => ~authorized'
             /\ answer'.code # "IDEMPOTENCY_CONFLICT"
  <2>1. m.key = k /\ m.request = q
    BY <1>5 DEF AnswerTo, Awaits, HasBody
  <2> QED
    BY <1>1, <1>5, <2>1 DEF AnswerTo, ApiSound
<1> QED
  BY <1>2, <1>3, <1>4, <1>5 DEF ServiceEffect, AnswerTold

(* The client posts: with a new key, or again with the body of an old one. *)
LEMMA SendKeeps ==
  ASSUME ApiSound, NEW k \in Key, NEW q \in Request, SendPost(k, q), HasBody(k, q),
         keys' \in 0..MaxKeys, keys <= keys', k <= keys', UNCHANGED <<serviceVars, faults>>
  PROVE  /\ ApiSound'
         /\ \A m \in wire' : m.number = awaited' => m.key = k
         /\ \A m \in wire' : m \in wire \/ (m.key = k /\ m.request = q)
         /\ \A m \in wire' : m.key = k => m.request = q
         /\ answer' = NoAnswer /\ answer'.code = "NONE"
<1> DEFINE x == [number |-> posts + 1, key |-> k, request |-> q]
<1> USE DEF ApiSound
<1>1. /\ wire' = wire \cup {x} /\ posts' = posts + 1 /\ awaited' = posts + 1
      /\ answer' = NoAnswer /\ posts < MaxPosts
      /\ UNCHANGED <<runs, intake, authorized, faults>> /\ RunId' = RunId
  BY DEF SendPost, CanSend, serviceVars, RunId
<1>2. posts \in Nat /\ posts' \in 0..MaxPosts /\ posts + 1 \in 1..MaxPosts
  BY <1>1, ApiAssumption DEF ApiTypeOK
<1>3. x \in Post /\ x.number = posts + 1 /\ x.key = k /\ x.request = q
  BY <1>2 DEF Post
<1> HIDE DEF x
<1>4. NoAnswer \in [code : SubmitCode \cup {"NONE"}, run : Nat] /\ NoAnswer.code = "NONE"
  BY DEF NoAnswer, Refused
<1>5. ApiTypeOK'
  BY <1>1, <1>2, <1>3, <1>4 DEF ApiTypeOK
<1>6. \A m \in wire : m.number <= posts /\ m.number \in Nat /\ m.key \in Nat /\ m.key <= keys
  BY PostTypes DEF Key
<1>7. k \in Nat /\ keys \in Nat /\ keys' \in Nat
  BY ApiAssumption DEF Key, ApiTypeOK
<1>8. \A m \in wire' : m.number <= posts' /\ m.key <= keys'
  BY <1>1, <1>2, <1>3, <1>6, <1>7
<1>9. \A m, n \in wire' : m.number = n.number => m = n
  BY <1>1, <1>2, <1>3, <1>6
<1>10. /\ \A m, n \in wire' : m.key = n.key => m.request = n.request
       /\ \A m \in wire' : \A r \in RunId' : runs'[r].key = m.key => runs'[r].request = m.request
  BY <1>1, <1>3 DEF HasBody
<1>11. \A r \in RunId' : /\ runs'[r].key <= keys'
                         /\ runs'[r].request \notin Unservable
                         /\ runs'[r].kept # "result" => runs'[r].status \in Terminal
  <2>1. \A r \in RunId : runs[r].key \in Nat
    BY RunTypes DEF Run, Key
  <2> QED
    BY <1>1, <1>7, <2>1
<1>12. \A m \in wire' : m.number = awaited' => m.key = k
  BY <1>1, <1>2, <1>3, <1>6
<1>13. ApiSound'
  BY <1>1, <1>4, <1>5, <1>8, <1>9, <1>10, <1>11 DEF Answered
<1> QED
  BY <1>1, <1>3, <1>4, <1>12, <1>13 DEF HasBody

(* The client takes its answer, or waits no more.                          *)
LEMMA TakeKeeps ==
  ASSUME ApiSound, UNCHANGED <<serviceVars, wire, posts, keys>>, faults' \in 0..FaultBound,
         (awaited' = 0 /\ answer' = NoAnswer) \/ UNCHANGED <<awaited, answer>>
  PROVE  ApiSound'
<1> USE DEF ApiSound
<1>1. NoAnswer \in [code : SubmitCode \cup {"NONE"}, run : Nat] /\ NoAnswer.code = "NONE"
  BY DEF NoAnswer, Refused
<1>2. UNCHANGED <<runs, intake, authorized>> /\ RunId' = RunId
  BY DEF serviceVars, RunId
<1>3. ApiTypeOK'
  BY <1>1, <1>2, ApiAssumption DEF ApiTypeOK
<1>4. answer'.code = "NONE" => ~Answered'
  BY <1>1 DEF Answered
<1>5. answer'.code \in {"ACCEPTED", "BODY_LOST"} => answer'.run \in RunId'
  BY <1>1, <1>2
<1> QED
  BY <1>2, <1>3, <1>4, <1>5

-----------------------------------------------------------------------------
(* The console.                                                            *)

LEMMA ConsoleTypes ==
  ASSUME ApiSound, ConsoleSound
  PROVE  /\ pending \in Pending \/ pending = NoPending
         /\ pending # NoPending => /\ pending \in Pending /\ pending.key \in Key
                                   /\ pending.request \in Request
         /\ NoPending.key \notin Key /\ NoPending.class = "none"
         /\ op \in Operation \cup {Idle} /\ Idle.phase = "idle"
         /\ fate \in [Key -> Fate]
         /\ \A m \in wire : m.key \in Key
         /\ \A r \in RunId : runs[r].key \in Key
<1>1. NoPending.key \notin Key /\ NoPending.class = "none" /\ Idle.phase = "idle"
  BY ApiAssumption DEF NoPending, Key, Idle
<1>2. /\ pending \in Pending \cup {NoPending} /\ op \in Operation \cup {Idle}
      /\ fate \in [Key -> Fate]
  BY DEF ConsoleSound, ConsoleTypeOK
<1>3. \A m \in wire : m.key \in Key
  BY PostTypes DEF ApiSound
<1>4. \A r \in RunId : runs[r].key \in Key
  BY RunTypes DEF ApiSound, Run
<1> QED
  BY <1>1, <1>2, <1>3, <1>4 DEF Pending

LEMMA EffectKeepsConsole ==
  ASSUME ApiSound, ConsoleSound, ServiceEffect, UNCHANGED consoleVars
  PROVE  ConsoleSound'
<1>1. UNCHANGED <<pending, op, fate, reported>>
  BY DEF consoleVars
<1>2. /\ UNCHANGED <<authorized, keys>> /\ wire' \subseteq wire /\ RunsGrow
      /\ \A r \in RunId' : r \in RunId \/ NewRun(r)
  BY DEF ServiceEffect
<1>3. ConsoleTypeOK'
  BY <1>1 DEF ConsoleSound, ConsoleTypeOK
<1>4. FateOfKeys'
  <2>1. ASSUME NEW k \in Key, Dead(k)
        PROVE  Dead(k)'
    <3>1. \A r \in RunId' : runs'[r].key # k
      BY <1>2, <2>1 DEF Dead, RunsGrow, NewRun
    <3> QED
      BY <1>1, <1>2, <2>1, <3>1 DEF Dead
  <2> QED
    BY <1>1, <1>2, <2>1 DEF ConsoleSound, FateOfKeys
<1>5. RecordSound'
  <2> DEFINE k == pending.key
             q == pending.request
  <2>1. HasBody(k, q) /\ (op.phase = "posting" => Awaits(k, q))
    BY DEF ConsoleSound, RecordSound
  <2>2. /\ \A m \in wire' : m.key = k => m.request = q
        /\ \A r \in RunId' : runs'[r].key = k => runs'[r].request = q
    BY <2>1, EffectKeepsBody
  <2>3. op.phase = "posting" =>
          /\ \A m \in wire' : m.number = awaited' => m.key = k
          /\ answer'.code = "ACCEPTED" => runs'[answer'.run].key = k
          /\ answer'.code = "INVALID_INPUT" => q \in Unservable
          /\ answer'.code = "CALLER_UNAUTHORIZED" => ~authorized'
          /\ answer'.code # "IDEMPOTENCY_CONFLICT"
    BY <2>1, EffectKeepsAwaits
  <2>4. HasBody(pending.key, pending.request)'
    BY <1>1, <2>2 DEF HasBody
  <2>5. op'.phase = "posting" => Awaits(pending.key, pending.request)'
    BY <1>1, <2>3 DEF Awaits
  <2>6. pending.class = "accepted" =>
          pending.run \in RunId' /\ runs'[pending.run].key = pending.key
    BY <1>2 DEF ConsoleSound, RecordSound, RunsGrow
  <2> QED
    BY <1>1, <1>2, <2>4, <2>5, <2>6 DEF ConsoleSound, RecordSound
<1>6. ReportsTrue'
  BY <1>1, <1>2 DEF ConsoleSound, ReportsTrue, RunsGrow
<1> QED
  BY <1>3, <1>4, <1>5, <1>6 DEF ConsoleSound

(* The record stays as it is and no POST is awaited.                       *)
LEMMA RecordKept ==
  ASSUME ConsoleSound, Keep, UNCHANGED <<serviceVars, wire, keys>>,
         op' \in Operation \cup {Idle}, op'.phase # "posting",
         op'.phase = "polling" => pending.class = "accepted" /\ op'.run = pending.run
  PROVE  ConsoleSound'
<1>1. UNCHANGED <<pending, fate, reported, runs, authorized>> /\ RunId' = RunId
  BY DEF Keep, serviceVars, RunId
<1>2. ConsoleTypeOK'
  BY <1>1 DEF ConsoleSound, ConsoleTypeOK
<1>3. FateOfKeys'
  BY <1>1 DEF ConsoleSound, FateOfKeys, Dead
<1>4. RecordSound'
  BY <1>1 DEF ConsoleSound, RecordSound, HasBody
<1>5. ReportsTrue'
  BY <1>1 DEF ConsoleSound, ReportsTrue
<1> QED
  BY <1>2, <1>3, <1>4, <1>5 DEF ConsoleSound

(* The answer is written into the record.                                  *)
LEMMA RecordRewritten ==
  ASSUME ApiSound, ConsoleSound, op.phase = "posting",
         UNCHANGED <<serviceVars, wire, keys, fate, reported>>,
         NEW class \in Class, NEW n \in Nat,
         pending' = [pending EXCEPT !.class = class, !.run = n],
         class = "accepted" => n \in RunId /\ runs[n].key = pending.key,
         op' \in Operation \cup {Idle}, op'.phase # "posting",
         op'.phase = "polling" => class = "accepted" /\ op'.run = n
  PROVE  ConsoleSound'
<1>1. UNCHANGED <<fate, reported, runs, authorized>> /\ RunId' = RunId
  BY DEF serviceVars, RunId
<1>2. pending \in Pending
  BY ConsoleTypes DEF ConsoleSound, RecordSound
<1>3. /\ pending' \in Pending /\ pending'.key = pending.key
      /\ pending'.request = pending.request /\ pending'.class = class /\ pending'.run = n
  BY <1>2 DEF Pending
<1>4. ConsoleTypeOK'
  BY <1>1, <1>3 DEF ConsoleSound, ConsoleTypeOK
<1>5. FateOfKeys'
  BY <1>1, <1>3 DEF ConsoleSound, FateOfKeys, Dead
<1>6. RecordSound'
  <2>1. pending.key <= keys
    BY <1>2, ConsoleTypes DEF ConsoleSound, RecordSound
  <2> QED
    BY <1>1, <1>3, <2>1 DEF ConsoleSound, RecordSound, HasBody
<1>7. ReportsTrue'
  BY <1>1 DEF ConsoleSound, ReportsTrue
<1> QED
  BY <1>4, <1>5, <1>6, <1>7 DEF ConsoleSound

(* The record is gone, and its key is not held any more.                   *)
LEMMA RecordGone ==
  ASSUME ApiSound, ConsoleSound, UNCHANGED <<serviceVars, wire, keys>>,
         pending # NoPending, pending' = NoPending, op' = Idle,
         NEW f \in Fate \ {"held", "unused"}, fate' = [fate EXCEPT ![pending.key] = f],
         f = "rejected" => /\ \A r \in RunId : runs[r].key # pending.key
                           /\ authorized => \A m \in wire : m.key = pending.key =>
                                              m.request \in Unservable,
         reported' \subseteq Nat \X Terminal, ReportsTrue'
  PROVE  ConsoleSound'
<1>1. UNCHANGED <<runs, authorized>> /\ RunId' = RunId
  BY DEF serviceVars, RunId
<1>2. /\ pending.key \in Key /\ fate \in [Key -> Fate] /\ pending.key <= keys
      /\ NoPending.key \notin Key /\ NoPending.class = "none" /\ Idle.phase = "idle"
      /\ \A m \in wire : m.key \in Key
      /\ \A r \in RunId : runs[r].key \in Key
  BY ConsoleTypes DEF ConsoleSound, RecordSound
<1>3. fate' \in [Key -> Fate] /\ fate'[pending.key] = f
      /\ \A k \in Key : k # pending.key => fate'[k] = fate[k]
  BY <1>2
<1>4. ConsoleTypeOK'
  BY <1>3 DEF ConsoleTypeOK
<1>5. FateOfKeys'
  <2> SUFFICES ASSUME NEW k \in Key
               PROVE  /\ fate'[k] = "held" => pending'.key = k
                      /\ k > keys => fate'[k] = "unused"
                      /\ fate'[k] = "rejected" => Dead(k)'
    BY DEF FateOfKeys
  <2>1. CASE k = pending.key
    <3>1. ~(k > keys)
      BY <1>2, <2>1, ApiAssumption DEF ApiSound, ApiTypeOK, Key
    <3>2. f = "rejected" => Dead(k)'
      BY <1>1, <1>2, <2>1 DEF Dead
    <3> QED
      BY <1>3, <2>1, <3>1, <3>2
  <2>2. CASE k # pending.key
    <3>1. fate'[k] = fate[k] /\ fate[k] # "held"
      BY <1>3, <2>2 DEF ConsoleSound, FateOfKeys
    <3>2. Dead(k) => Dead(k)'
      BY <1>1, <1>2 DEF Dead
    <3> QED
      BY <3>1, <3>2 DEF ConsoleSound, FateOfKeys
  <2> QED
    BY <2>1, <2>2
<1>6. RecordSound'
  BY <1>1, <1>2 DEF RecordSound, HasBody
<1> QED
  BY <1>4, <1>5, <1>6 DEF ConsoleSound

LEMMA ExecuteKeeps ==
  ASSUME ApiSound, ConsoleSound, NEW q \in Request, NEW intent \in {"continue", "new"},
         Execute(q, intent)
  PROVE  ApiSound' /\ ConsoleSound'
<1>1. /\ Keep /\ UNCHANGED <<serviceVars, wire, posts, awaited, answer, keys, faults>>
      /\ op' = [phase |-> "hashing", intent |-> intent, request |-> q, run |-> 0]
  BY DEF Execute, apiVars, networkVars
<1>2. op' \in Operation /\ op'.phase = "hashing"
  BY <1>1 DEF Operation
<1>3. faults' \in 0..FaultBound
  BY <1>1 DEF ApiSound, ApiTypeOK
<1> QED
  BY <1>1, <1>2, <1>3, RecordKept, TakeKeeps

(* The operation ends without a trace.                                     *)
LEMMA JustEnds ==
  ASSUME ApiSound, ConsoleSound, End, Keep, UNCHANGED <<serviceVars, wire, posts, keys>>,
         Fault \/ UNCHANGED faults,
         (awaited' = 0 /\ answer' = NoAnswer) \/ UNCHANGED <<awaited, answer>>
  PROVE  ApiSound' /\ ConsoleSound'
<1>1. op' = Idle /\ Idle.phase = "idle"
  BY DEF End, Idle
<1>2. faults' \in 0..FaultBound
  BY FaultTypes DEF ApiSound
<1> QED
  BY <1>1, <1>2, RecordKept, TakeKeeps

LEMMA QuietStepsKeep ==
  ASSUME ApiSound, ConsoleSound,
         ReadFails \/ RefuseMismatch \/ ProtocolError \/ PollRejected \/ PollStops \/ Reload
  PROVE  ApiSound' /\ ConsoleSound'
<1>1. CASE ReadFails
  BY <1>1, JustEnds DEF ReadFails, StorageFails, networkVars
<1>2. CASE RefuseMismatch \/ PollRejected \/ PollStops
  BY <1>2, JustEnds DEF RefuseMismatch, PollRejected, PollStops, apiVars, networkVars
<1>3. CASE ProtocolError
  BY <1>3, JustEnds DEF ProtocolError, Receive, TakeAnswer
<1>4. CASE Reload
  BY <1>4, JustEnds DEF Reload, End
<1> QED
  BY <1>1, <1>2, <1>3, <1>4

LEMMA ResumeKeeps ==
  ASSUME ApiSound, ConsoleSound, Resume
  PROVE  ApiSound' /\ ConsoleSound'
<1>1. /\ Keep /\ UNCHANGED <<serviceVars, wire, posts, awaited, answer, keys, faults>>
      /\ op.phase = "hashing" /\ pending.class = "accepted"
      /\ op' = [op EXCEPT !.phase = "polling", !.run = pending.run]
  BY DEF Resume, apiVars, networkVars
<1>2. op \in Operation /\ pending \in Pending
  BY <1>1, ConsoleTypes DEF NoPending
<1>3. op' \in Operation /\ op'.phase = "polling" /\ op'.run = pending.run
  BY <1>1, <1>2 DEF Operation, Pending
<1>4. faults' \in 0..FaultBound
  BY <1>1 DEF ApiSound, ApiTypeOK
<1> QED
  BY <1>1, <1>3, <1>4, RecordKept, TakeKeeps

LEMMA StartNewKeeps ==
  ASSUME ApiSound, ConsoleSound, StartNew
  PROVE  ApiSound' /\ ConsoleSound'
<1> DEFINE k == keys + 1
           q == op.request
<1>1. /\ op.phase = "hashing" /\ StartsNew /\ keys < MaxKeys
      /\ SendPost(k, q) /\ keys' = k
      /\ pending' = [class |-> "acceptance-unknown", key |-> k, request |-> q, run |-> 0]
      /\ fate' = [n \in Key |-> IF n = k THEN "held"
                                ELSE IF n = pending.key /\ op.intent = "new" THEN "replaced"
                                ELSE fate[n]]
      /\ op' = [op EXCEPT !.phase = "posting"]
      /\ UNCHANGED <<serviceVars, faults, reported>>
  BY DEF StartNew
<1>2. /\ keys \in Nat /\ k \in Key /\ k # 0 /\ keys' \in 0..MaxKeys /\ keys <= keys'
      /\ \A n \in Key : n \in Nat
  BY <1>1, ApiAssumption DEF ApiSound, ApiTypeOK, Key
<1>3. op \in Operation /\ q \in Request
  BY <1>1, ConsoleTypes DEF Operation
<1>4. /\ \A m \in wire : m.key <= keys /\ m.key \in Key
      /\ \A r \in RunId : runs[r].key <= keys /\ runs[r].key \in Key
  BY ConsoleTypes DEF ApiSound
<1>5. /\ \A m \in wire : m.key # k
      /\ \A r \in RunId : runs[r].key # k
  BY <1>2, <1>4
<1>6. HasBody(k, q)
  BY <1>5 DEF HasBody
<1> HIDE DEF k, q
<1>7. /\ ApiSound'
      /\ \A m \in wire' : m.number = awaited' => m.key = k
      /\ \A m \in wire' : m \in wire \/ (m.key = k /\ m.request = q)
      /\ \A m \in wire' : m.key = k => m.request = q
      /\ answer' = NoAnswer /\ answer'.code = "NONE"
  BY <1>1, <1>2, <1>3, <1>6, SendKeeps
<1>8. /\ pending' \in Pending /\ pending'.key = k /\ pending'.request = q
      /\ pending'.class = "acceptance-unknown" /\ pending' # NoPending
  BY <1>1, <1>2, <1>3 DEF Pending, Class, NoPending
<1>9. op' \in Operation /\ op'.phase = "posting"
  BY <1>1, <1>3 DEF Operation
<1>10. UNCHANGED <<runs, authorized, reported>> /\ RunId' = RunId
  BY <1>1 DEF serviceVars, RunId
<1>11. fate \in [Key -> Fate] /\ fate' \in [Key -> Fate]
  BY <1>1, ConsoleTypes DEF Fate
<1>12. ConsoleTypeOK'
  BY <1>8, <1>9, <1>10, <1>11 DEF ConsoleSound, ConsoleTypeOK
<1>13. \A n \in Key : fate[n] = "held" => pending.key = n
  BY DEF ConsoleSound, FateOfKeys
<1>14. FateOfKeys'
  <2> SUFFICES ASSUME NEW n \in Key
               PROVE  /\ fate'[n] = "held" => pending'.key = n
                      /\ n > keys' => fate'[n] = "unused"
                      /\ fate'[n] = "rejected" => Dead(n)'
    BY DEF FateOfKeys
  <2>1. CASE n = k
    BY <1>1, <1>2, <1>8, <2>1
  <2>2. CASE n # k
    <3>1. fate'[n] # "held"
      <4>1. fate[n] = "held" => n = pending.key /\ op.intent = "new"
        BY <1>1, <1>13, ConsoleTypes DEF StartsNew
      <4> QED
        BY <1>1, <2>2, <4>1
    <3>2. n > keys' => fate'[n] = "unused"
      <4> SUFFICES ASSUME n > keys'
                   PROVE  fate'[n] = "unused"
        OBVIOUS
      <4>1. n > keys /\ fate[n] = "unused"
        BY <1>1, <1>2 DEF ConsoleSound, FateOfKeys, k
      <4>2. n # pending.key
        <5>1. pending # NoPending => pending.key <= keys /\ pending.key \in Key
          BY ConsoleTypes DEF ConsoleSound, RecordSound
        <5>2. pending = NoPending => pending.key \notin Key
          BY ConsoleTypes
        <5> QED
          BY <1>2, <4>1, <5>1, <5>2
      <4> QED
        BY <1>1, <2>2, <4>1, <4>2
    <3>3. fate'[n] = "rejected" => Dead(n)'
      <4> SUFFICES ASSUME fate'[n] = "rejected"
                   PROVE  Dead(n)'
        OBVIOUS
      <4>1. Dead(n)
        BY <1>1, <2>2 DEF ConsoleSound, FateOfKeys
      <4> QED
        BY <1>7, <1>8, <1>10, <2>2, <4>1 DEF Dead
    <3> QED
      BY <3>1, <3>2, <3>3
  <2> QED
    BY <2>1, <2>2
<1>15. HasBody(pending.key, pending.request)'
  BY <1>5, <1>7, <1>8, <1>10 DEF HasBody
<1>16. Awaits(pending.key, pending.request)'
  BY <1>7, <1>8 DEF Awaits
<1>17. RecordSound'
  BY <1>1, <1>2, <1>8, <1>9, <1>15, <1>16 DEF RecordSound
<1>18. ReportsTrue'
  BY <1>10 DEF ConsoleSound, ReportsTrue
<1> QED
  BY <1>7, <1>12, <1>14, <1>17, <1>18 DEF ConsoleSound

LEMMA ReplayKeeps ==
  ASSUME ApiSound, ConsoleSound, Replay
  PROVE  ApiSound' /\ ConsoleSound'
<1> DEFINE k == pending.key
           q == op.request
<1>1. /\ op.phase = "hashing" /\ ~StartsNew /\ pending.class # "accepted"
      /\ q = pending.request /\ SendPost(k, q)
      /\ op' = [op EXCEPT !.phase = "posting"]
      /\ UNCHANGED <<serviceVars, keys, faults, pending, fate, reported>>
  BY DEF Replay, Matches, Keep
<1>2. /\ pending # NoPending /\ pending \in Pending /\ k \in Key /\ k <= keys
      /\ op \in Operation /\ q \in Request
  BY <1>1, ConsoleTypes DEF StartsNew, ConsoleSound, RecordSound
<1>3. HasBody(k, q) /\ keys \in 0..MaxKeys /\ keys <= keys
  BY <1>1, ApiAssumption DEF ConsoleSound, RecordSound, ApiSound, ApiTypeOK
<1> HIDE DEF q
<1>4. /\ ApiSound'
      /\ \A m \in wire' : m.number = awaited' => m.key = k
      /\ \A m \in wire' : m \in wire \/ (m.key = k /\ m.request = q)
      /\ \A m \in wire' : m.key = k => m.request = q
      /\ answer' = NoAnswer /\ answer'.code = "NONE"
  BY <1>1, <1>2, <1>3, SendKeeps
<1>5. op' \in Operation /\ op'.phase = "posting"
  BY <1>1, <1>2 DEF Operation
<1>6. UNCHANGED <<runs, authorized, reported, pending, fate, keys>> /\ RunId' = RunId
  BY <1>1 DEF serviceVars, RunId
<1>7. ConsoleTypeOK'
  BY <1>5, <1>6 DEF ConsoleSound, ConsoleTypeOK
<1>8. FateOfKeys'
  <2>1. \A n \in Key : Dead(n) => Dead(n)'
    BY <1>4, <1>6 DEF Dead
  <2> QED
    BY <1>6, <2>1 DEF ConsoleSound, FateOfKeys
<1>9. RecordSound'
  <2>1. HasBody(pending.key, pending.request)'
    BY <1>1, <1>3, <1>4, <1>6 DEF HasBody
  <2>2. Awaits(pending.key, pending.request)'
    BY <1>4, <1>6 DEF Awaits
  <2> QED
    BY <1>1, <1>2, <1>5, <1>6, <2>1, <2>2 DEF RecordSound
<1>10. ReportsTrue'
  BY <1>6 DEF ConsoleSound, ReportsTrue
<1> QED
  BY <1>4, <1>7, <1>8, <1>9, <1>10 DEF ConsoleSound

(* The answer to the POST.                                                 *)
LEMMA AnswersKeep ==
  ASSUME ApiSound, ConsoleSound,
         AnswerLost \/ RetryLater \/ CancelPost \/ Accepted
  PROVE  ApiSound' /\ ConsoleSound'
<1>1. /\ op.phase = "posting" /\ TakeAnswer /\ UNCHANGED <<serviceVars, keys>>
      /\ Fault \/ UNCHANGED faults
  BY DEF AnswerLost, RetryLater, CancelPost, Accepted, Receive, StorageFails
<1>2. ApiSound'
  <2>1. faults' \in 0..FaultBound
    BY <1>1, FaultTypes DEF ApiSound
  <2> QED
    BY <1>1, <2>1, TakeKeeps DEF TakeAnswer
<1>3. CASE StorageFails
  BY <1>1, <1>3, JustEnds DEF StorageFails, TakeAnswer
<1>4. pending \in Pending /\ op \in Operation /\ pending # NoPending
  BY <1>1, ConsoleTypes DEF ConsoleSound, RecordSound
<1>5. ASSUME NEW class \in {"acceptance-unknown", "retryable"},
             Write([pending EXCEPT !.class = class]), End
      PROVE  ConsoleSound'
  <2> DEFINE n == pending.run
  <2>1. n \in Nat /\ pending' = [pending EXCEPT !.class = class, !.run = n]
    BY <1>4, <1>5 DEF Pending, Write
  <2>2. UNCHANGED <<serviceVars, wire, keys, fate, reported>>
    BY <1>1, <1>5 DEF Write, TakeAnswer
  <2>3. op' = Idle /\ Idle.phase = "idle" /\ class \in Class
    BY <1>5 DEF End, Idle, Class
  <2> HIDE DEF n
  <2> QED
    BY <1>1, <2>1, <2>2, <2>3, RecordRewritten
<1>6. ASSUME answer.code = "ACCEPTED",
             Write([pending EXCEPT !.class = "accepted", !.run = answer.run]),
             op' = [op EXCEPT !.phase = "polling", !.run = answer.run]
      PROVE  ConsoleSound'
  <2> DEFINE n == answer.run
  <2>1. n \in Nat /\ n \in RunId /\ runs[n].key = pending.key
    BY <1>1, <1>6, RunTypes DEF ApiSound, ConsoleSound, RecordSound, Awaits
  <2>2. /\ UNCHANGED <<serviceVars, wire, keys, fate, reported>>
        /\ pending' = [pending EXCEPT !.class = "accepted", !.run = n]
    BY <1>1, <1>6 DEF Write, TakeAnswer
  <2>3. op' \in Operation /\ op'.phase = "polling" /\ op'.run = n /\ "accepted" \in Class
    BY <1>4, <1>6, <2>1 DEF Operation, Class
  <2> HIDE DEF n
  <2> QED
    BY <1>1, <2>1, <2>2, <2>3, RecordRewritten
<1> QED
  BY <1>2, <1>3, <1>5, <1>6 DEF AnswerLost, RetryLater, CancelPost, Accepted, Receive

LEMMA RejectedKeeps ==
  ASSUME ApiSound, ConsoleSound, Rejected
  PROVE  ApiSound' /\ ConsoleSound'
<1>1. /\ op.phase = "posting" /\ TakeAnswer /\ UNCHANGED <<serviceVars, keys>>
      /\ Fault \/ UNCHANGED faults
      /\ answer.code \in {"CALLER_UNAUTHORIZED", "INVALID_INPUT", "IDEMPOTENCY_CONFLICT"}
  BY DEF Rejected, Receive, StorageFails, Definite
<1>2. ApiSound'
  <2>1. faults' \in 0..FaultBound
    BY <1>1, FaultTypes DEF ApiSound
  <2> QED
    BY <1>1, <2>1, TakeKeeps DEF TakeAnswer
<1>3. CASE StorageFails
  BY <1>1, <1>3, JustEnds DEF StorageFails, TakeAnswer
<1>4. CASE /\ pending' = NoPending /\ fate' = [fate EXCEPT ![pending.key] = "rejected"]
           /\ End /\ UNCHANGED reported
  <2>1. /\ Awaits(pending.key, pending.request) /\ HasBody(pending.key, pending.request)
        /\ pending # NoPending
    BY <1>1 DEF ConsoleSound, RecordSound
  <2>2. ~authorized \/ pending.request \in Unservable
    BY <1>1, <2>1 DEF Awaits
  <2>3. \A r \in RunId : runs[r].key # pending.key
    <3>1. ~authorized => RunId = {}
      BY DEF ApiSound, RunId
    <3> QED
      BY <2>1, <2>2, <3>1 DEF HasBody, ApiSound
  <2>4. authorized => \A m \in wire : m.key = pending.key => m.request \in Unservable
    BY <2>1, <2>2 DEF HasBody
  <2>5. "rejected" \in Fate \ {"held", "unused"}
    BY DEF Fate
  <2>6. reported' \subseteq Nat \X Terminal /\ ReportsTrue'
    BY <1>1, <1>4 DEF ConsoleSound, ConsoleTypeOK, ReportsTrue, serviceVars, RunId
  <2>7. UNCHANGED <<serviceVars, wire, keys>> /\ op' = Idle
    BY <1>1, <1>4 DEF TakeAnswer, End
  <2> QED
    BY <1>2, <1>4, <2>1, <2>3, <2>4, <2>5, <2>6, <2>7, RecordGone
<1> QED
  BY <1>2, <1>3, <1>4 DEF Rejected

LEMMA PollTerminalKeeps ==
  ASSUME ApiSound, ConsoleSound, PollTerminal
  PROVE  ApiSound' /\ ConsoleSound'
<1>1. /\ op.phase = "polling" /\ ViewOf(op.run) \in Terminated
      /\ UNCHANGED <<serviceVars, wire, posts, awaited, answer, keys>>
      /\ Fault \/ UNCHANGED faults
  BY DEF PollTerminal, StorageFails, networkVars
<1>2. CASE StorageFails
  BY <1>1, <1>2, JustEnds DEF StorageFails
<1>3. CASE /\ ShowResult /\ fate' = [fate EXCEPT ![pending.key] = "answered"]
           /\ End /\ UNCHANGED faults
  <2>1. faults' \in 0..FaultBound
    BY <1>3, FaultTypes DEF ApiSound
  <2>2. ApiSound'
    BY <1>1, <2>1, TakeKeeps
  <2>3. /\ pending.class = "accepted" /\ op.run = pending.run /\ op.run \in RunId
        /\ pending # NoPending
    BY <1>1, ConsoleTypes DEF ConsoleSound, RecordSound
  <2>4. runs[op.run].status \in Terminal /\ op.run \in Nat
    <3>1. op.run \in Nat
      BY <2>3, RunTypes DEF ApiSound
    <3>2. CASE runs[op.run].kept # "result"
      BY <2>3, <3>1, <3>2 DEF ApiSound
    <3>3. CASE runs[op.run].kept = "result"
      <4>1. ViewOf(op.run) \in {"CALLER_UNAUTHORIZED", runs[op.run].status}
        BY <3>3 DEF ViewOf
      <4>2. runs[op.run].status # "result-expired"
        BY <2>3, RunTypes DEF ApiSound, Run, Terminal
      <4> QED
        BY <1>1, <3>1, <4>1, <4>2 DEF Terminated, Terminal
    <3> QED
      BY <3>1, <3>2, <3>3
  <2>5. reported' \subseteq Nat \X Terminal /\ ReportsTrue'
    <3>1. /\ reported' = reported \cup {<<op.run, runs[op.run].status>>}
          /\ runs' = runs /\ RunId' = RunId
      BY <1>1, <1>3 DEF ShowResult, serviceVars, RunId
    <3> QED
      BY <2>3, <2>4, <3>1 DEF ConsoleSound, ConsoleTypeOK, ReportsTrue
  <2>6. "answered" \in Fate \ {"held", "unused"} /\ "answered" # "rejected"
    BY DEF Fate
  <2>7. pending' = NoPending /\ op' = Idle
    BY <1>3 DEF ShowResult, End
  <2> QED
    BY <1>1, <1>3, <2>2, <2>3, <2>5, <2>6, <2>7, RecordGone
<1> QED
  BY <1>1, <1>2, <1>3 DEF PollTerminal

LEMMA DismissKeeps ==
  ASSUME ApiSound, ConsoleSound, Dismiss
  PROVE  ApiSound' /\ ConsoleSound'
<1>1. /\ op = Idle /\ pending # NoPending /\ pending' = NoPending
      /\ fate' = [fate EXCEPT ![pending.key] = "dismissed"] /\ op' = Idle
      /\ UNCHANGED <<serviceVars, wire, posts, awaited, answer, keys, faults, reported>>
  BY DEF Dismiss, apiVars, networkVars
<1>2. ApiSound'
  BY <1>1, FaultTypes, TakeKeeps DEF ApiSound
<1>3. "dismissed" \in Fate \ {"held", "unused"} /\ "dismissed" # "rejected"
  BY DEF Fate
<1>4. reported' \subseteq Nat \X Terminal /\ ReportsTrue'
  BY <1>1 DEF ConsoleSound, ConsoleTypeOK, ReportsTrue, serviceVars, RunId
<1> QED
  BY <1>1, <1>2, <1>3, <1>4, RecordGone

LEMMA ConsoleKeeps ==
  ASSUME ApiSound, ConsoleSound, ConsoleNext
  PROVE  ApiSound' /\ ConsoleSound'
BY ExecuteKeeps, QuietStepsKeep, ResumeKeeps, StartNewKeeps, ReplayKeeps, AnswersKeep,
   RejectedKeeps, PollTerminalKeeps, DismissKeeps DEF ConsoleNext

-----------------------------------------------------------------------------
(* The smoke tests.                                                        *)

LEMMA BodyIsServable == Body \in Request /\ Body \notin Unservable
BY SmokeAssumption DEF Body

LEMMA EffectKeepsSmokeRuns ==
  ASSUME ApiSound, SmokeRuns, ServiceEffect,
         \A r \in RunId : runs'[r].kept = runs[r].kept
  PROVE  SmokeRuns'
<1>1. /\ UNCHANGED authorized /\ wire' \subseteq wire /\ RunsGrow
      /\ \A r \in RunId' : r \in RunId \/ NewRun(r)
  BY DEF ServiceEffect
<1>2. authorized' /\ \A m \in wire' : m.request = Body
  BY <1>1 DEF SmokeRuns
<1>3. \A r \in RunId' : runs'[r].kept = "result" /\ runs'[r].request = Body
  BY <1>1 DEF SmokeRuns, RunsGrow, NewRun
<1>4. ASSUME NEW r \in RunId', NEW s \in RunId', runs'[r].key = runs'[s].key
      PROVE  r = s
  <2>1. ASSUME NEW x \in RunId, NEW y, NewRun(y)
        PROVE  runs[x].key # runs'[y].key
    <3>1. PICK m \in wire : Known(m) = {} /\ runs'[y].key = m.key
      BY <2>1 DEF NewRun
    <3> QED
      BY <3>1 DEF Known, SmokeRuns
  <2>2. CASE r \in RunId /\ s \in RunId
    BY <1>1, <1>4, <2>2 DEF RunsGrow, SmokeRuns
  <2>3. CASE r \in RunId /\ NewRun(s)
    BY <1>1, <1>4, <2>1, <2>3 DEF RunsGrow
  <2>4. CASE NewRun(r) /\ s \in RunId
    BY <1>1, <1>4, <2>1, <2>4 DEF RunsGrow
  <2>5. CASE NewRun(r) /\ s \notin RunId
    BY <2>5 DEF NewRun
  <2> QED
    BY <1>1, <2>2, <2>3, <2>4, <2>5
<1> QED
  BY <1>2, <1>3, <1>4 DEF SmokeRuns

LEMMA EffectKeepsPaid ==
  ASSUME PaidSound, ServiceEffect, UNCHANGED smokeVars
  PROVE  PaidSound'
<1>1. UNCHANGED <<step, first, second, seen, evidence, keys>> /\ RunsGrow
  BY DEF ServiceEffect, smokeVars
<1>2. \A e : RecoveryIsTrue(e)' <=> RecoveryIsTrue(e)
  BY <1>1 DEF RecoveryIsTrue
<1> QED
  BY <1>1, <1>2 DEF PaidSound, RunsGrow

(* While the probe may be refused there is no run of its key; once it is,  *)
(* there can be none.                                                      *)
LEMMA EffectKeepsProbed ==
  ASSUME ApiSound, Probed, ServiceEffect, UNCHANGED step
  PROVE  Probed'
<1>1. /\ UNCHANGED <<awaited, keys>> /\ wire' \subseteq wire /\ RunsGrow /\ AnswerTold
      /\ \A r \in RunId' : r \in RunId \/ NewRun(r)
  BY DEF ServiceEffect
<1>2. CASE step = "done"
  <2>1. /\ \A r \in RunId : runs[r].key # keys
        /\ \A m \in wire : m.key # keys
    BY <1>2 DEF Probed
  <2>2. \A r \in RunId' : runs'[r].key # keys
    BY <1>1, <2>1 DEF RunsGrow, NewRun
  <2> QED
    BY <1>1, <1>2, <2>1, <2>2 DEF Probed
<1>3. CASE step = "probing"
  <2>1. /\ \A m \in wire : m.key = keys => m.number = awaited
        /\ answer.code \in {"NONE", "ASYNC_INTAKE_CLOSED"} =>
             \A r \in RunId : runs[r].key # keys
        /\ answer.code = "ASYNC_INTAKE_CLOSED" => \A m \in wire : m.key # keys
    BY <1>3 DEF Probed
  <2>2. ASSUME answer'.code \in {"NONE", "ASYNC_INTAKE_CLOSED"}
        PROVE  /\ \A r \in RunId' : runs'[r].key # keys
               /\ answer'.code = "ASYNC_INTAKE_CLOSED" => \A m \in wire' : m.key # keys
    <3>1. answer' = answer \/ \E m \in wire : AnswerTo(m)
      BY <1>1, <2>2 DEF AnswerTold
    <3>2. answer.code \in {"NONE", "ASYNC_INTAKE_CLOSED"}
      BY <2>2, <3>1 DEF AnswerTo, Answered, NoAnswer, Refused
    <3>3. ASSUME NEW r \in RunId', NewRun(r)
          PROVE  runs'[r].key # keys
      <4>1. PICK m \in wire :
              /\ runs'[r].key = m.key
              /\ m.number = awaited /\ ~Answered
                   => answer'.code \in {"ACCEPTED", "ASYNC_SERVICE_UNAVAILABLE"}
        BY <3>3 DEF NewRun
      <4>2. answer.code = "NONE" => ~Answered
        BY DEF ApiSound
      <4> QED
        BY <2>1, <2>2, <3>2, <4>1, <4>2
    <3>4. \A r \in RunId' : runs'[r].key # keys
      BY <1>1, <2>1, <3>2, <3>3 DEF RunsGrow
    <3>5. ASSUME answer'.code = "ASYNC_INTAKE_CLOSED", NEW m \in wire'
          PROVE  m.key # keys
      <4>1. CASE answer' = answer
        BY <1>1, <2>1, <3>5, <4>1
      <4>2. CASE \E n \in wire : AnswerTo(n)
        BY <1>1, <2>1, <4>2 DEF AnswerTo, ApiSound
      <4> QED
        BY <3>1, <4>1, <4>2
    <3> QED
      BY <3>4, <3>5
  <2> QED
    BY <1>1, <1>3, <2>1, <2>2 DEF Probed
<1> QED
  BY <1>2, <1>3 DEF Probed

LEMMA EffectKeepsInternal ==
  ASSUME ApiSound, SmokeRuns, InternalSound, ServiceEffect, UNCHANGED smokeVars
  PROVE  InternalSound'
<1>1. UNCHANGED <<step, first, second, seen, evidence, keys, authorized, awaited>> /\ RunsGrow
  BY DEF ServiceEffect, smokeVars
<1>2. KeyOfStep'
  BY <1>1 DEF InternalSound, KeyOfStep
<1>3. Probed'
  BY <1>1, EffectKeepsProbed DEF InternalSound
<1>4. RunsOfSteps'
  <2>1. /\ step \in {"first_accepted", "second_posted", "waiting", "baselined", "probing", "done"}
             => first \in RunId' /\ runs'[first].key = 1
        /\ step \in {"waiting", "baselined", "probing", "done"}
             => second \in RunId' /\ runs'[second].key = 2
    BY <1>1 DEF InternalSound, RunsOfSteps, RunsGrow
  <2>2. ASSUME step \in {"first_posted", "second_posted", "probing"}
        PROVE  Awaits(keys, Body)'
    <3>1. HasBody(keys, Body) /\ Awaits(keys, Body)
      BY <2>2 DEF SmokeRuns, HasBody, InternalSound, RunsOfSteps
    <3>2. /\ \A m \in wire' : m.number = awaited' => m.key = keys
          /\ answer'.code = "ACCEPTED" => runs'[answer'.run].key = keys
          /\ answer'.code = "INVALID_INPUT" => Body \in Unservable
          /\ answer'.code = "CALLER_UNAUTHORIZED" => ~authorized'
          /\ answer'.code # "IDEMPOTENCY_CONFLICT"
      BY <3>1, EffectKeepsAwaits
    <3> QED
      BY <1>1, <3>2 DEF Awaits
  <2>3. \A r \in seen : r \in RunId' /\ runs'[r].status = Expected(r)
    BY <1>1 DEF InternalSound, RunsOfSteps, RunsGrow, Expected, Terminal
  <2>4. \A r : Expected(r)' = Expected(r)
    BY <1>1 DEF Expected
  <2>5. step \in {"start", "first_posted", "first_accepted", "second_posted"} =>
          seen = {} /\ evidence = <<>>
    BY DEF InternalSound, RunsOfSteps
  <2> QED
    BY <1>1, <2>1, <2>2, <2>3, <2>4, <2>5 DEF RunsOfSteps
<1>5. \A e \in {evidence[i] : i \in DOMAIN evidence} :
        /\ e.event \in {"baseline", "rollback"}
        /\ e.event = "rollback" => step = "done"
        /\ first \in RunId' /\ second \in RunId' /\ first # second
        /\ runs'[first].status = "succeeded" /\ runs'[second].status = "failed"
  BY <1>1 DEF InternalSound, RunsGrow, Terminal
<1> QED
  BY <1>1, <1>2, <1>3, <1>4, <1>5 DEF InternalSound

LEMMA EffectKeepsClients ==
  ASSUME ClientsInv, ServiceEffect, UNCHANGED <<consoleVars, smokeVars>>,
         smoke # "none" => \A r \in RunId : runs'[r].kept = runs[r].kept
  PROVE  ClientsInv'
<1>1. ApiSound'
  BY EffectKeepsService DEF ClientsInv
<1>2. UNCHANGED <<smoke, step, first, second, seen, evidence, pending, op, fate, reported>>
  BY DEF consoleVars, smokeVars
<1>3. SmokeTypeOK'
  BY <1>2 DEF ClientsInv, SmokeTypeOK
<1>4. IF smoke = "none" THEN ConsoleSound' ELSE ConsoleInit' /\ SmokeRuns'
  <2>1. smoke = "none" => ConsoleSound'
    BY EffectKeepsConsole DEF ClientsInv
  <2>2. smoke # "none" => SmokeRuns'
    BY EffectKeepsSmokeRuns DEF ClientsInv
  <2>3. smoke # "none" => ConsoleInit'
    BY <1>2 DEF ClientsInv, ConsoleInit
  <2> QED
    BY <2>1, <2>2, <2>3
<1>5. /\ smoke = "paid" => PaidSound'
      /\ smoke = "internal" => InternalSound'
  BY EffectKeepsPaid, EffectKeepsInternal DEF ClientsInv
<1> QED
  BY <1>1, <1>2, <1>3, <1>4, <1>5 DEF ClientsInv

(* A smoke test posts with a new key: nothing was ever sent under it.      *)
LEMMA NewKeyKeeps ==
  ASSUME ApiSound, SmokeRuns, NewKeyPost, UNCHANGED <<serviceVars, faults>>
  PROVE  /\ ApiSound' /\ SmokeRuns' /\ keys' = keys + 1 /\ runs' = runs /\ RunId' = RunId
         /\ Awaits(keys, Body)' /\ answer'.code = "NONE"
         /\ \A m \in wire' : m.key = keys' => m.number = awaited'
         /\ \A r \in RunId' : runs'[r].key # keys'
<1>1. /\ keys' = keys + 1 /\ keys < MaxKeys /\ SendPost(keys + 1, Body)
      /\ UNCHANGED <<runs, authorized>> /\ RunId' = RunId
  BY DEF NewKeyPost, serviceVars, RunId
<1>2. /\ keys \in Nat /\ keys + 1 \in Key /\ keys' \in 0..MaxKeys /\ keys <= keys'
      /\ keys + 1 <= keys' /\ Body \in Request /\ Body \notin Unservable
  BY <1>1, ApiAssumption, BodyIsServable DEF ApiSound, ApiTypeOK, Key
<1>3. HasBody(keys + 1, Body)
  BY DEF SmokeRuns, HasBody
<1>4. /\ ApiSound'
      /\ \A m \in wire' : m.number = awaited' => m.key = keys + 1
      /\ \A m \in wire' : m \in wire \/ (m.key = keys + 1 /\ m.request = Body)
      /\ answer'.code = "NONE"
  BY <1>1, <1>2, <1>3, SendKeeps
<1>5. SmokeRuns'
  BY <1>1, <1>4 DEF SmokeRuns
<1>6. Awaits(keys, Body)'
  BY <1>1, <1>4 DEF Awaits
<1>7. \A m \in wire' : m.key = keys' => m.number = awaited'
  <2>1. \A m \in wire : m.key \in Nat /\ m.key <= keys
    BY PostTypes DEF ApiSound, Key
  <2>2. \A m \in wire' : m \in wire \/ m.number = awaited'
    BY <1>1 DEF SendPost
  <2> QED
    BY <1>1, <1>2, <2>1, <2>2
<1>8. \A r \in RunId' : runs'[r].key # keys'
  <2>1. \A r \in RunId : runs[r].key \in Nat /\ runs[r].key <= keys
    BY RunTypes DEF ApiSound, Run, Key
  <2> QED
    BY <1>1, <1>2, <2>1
<1> QED
  BY <1>1, <1>4, <1>5, <1>6, <1>7, <1>8

(* Or it takes its answer, or only looks.                                  *)
LEMMA SmokeTakes ==
  ASSUME ApiSound, SmokeRuns, UNCHANGED <<serviceVars, wire, posts, keys, faults>>,
         (awaited' = 0 /\ answer' = NoAnswer) \/ UNCHANGED <<awaited, answer>>
  PROVE  ApiSound' /\ SmokeRuns' /\ runs' = runs /\ RunId' = RunId
<1>1. faults' \in 0..FaultBound
  BY DEF ApiSound, ApiTypeOK
<1>2. ApiSound'
  BY <1>1, TakeKeeps
<1>3. UNCHANGED <<runs, authorized>> /\ RunId' = RunId
  BY DEF serviceVars, RunId
<1>4. SmokeRuns'
  BY <1>3 DEF SmokeRuns
<1> QED
  BY <1>2, <1>3, <1>4

(* A key has one run.                                                      *)
LEMMA KeysOfRuns ==
  ASSUME ApiSound, SmokeRuns
  PROVE  /\ \A r \in RunId : runs[r].key \in Nat \ {0} /\ runs[r].key <= keys /\ r \in Nat \ {0}
         /\ keys \in Nat
         /\ \A r, s \in RunId : runs[r].key = runs[s].key => r = s
<1>1. \A r \in RunId : runs[r].key \in Key /\ r \in Nat \ {0}
  BY RunTypes DEF ApiSound, Run
<1>2. Key \subseteq Nat \ {0} /\ keys \in Nat
  BY ApiAssumption DEF Key, ApiSound, ApiTypeOK
<1> QED
  BY <1>1, <1>2 DEF ApiSound, SmokeRuns

(* One line of evidence ends the paid smoke.                               *)
LEMMA PaidEvidenceSound ==
  ASSUME NEW gate \in Gate, NEW r \in RunId, NEW status \in Terminal \cup {"unknown"},
         NEW recovery \in SUBSET Claim,
         PaidEvidence(gate, r, 1, status, recovery), r \in Nat, UNCHANGED <<runs, keys>>,
         IF "acceptanceResponseRecoveryVerified" \in recovery
           THEN second' = r /\ first' \in {0, r} ELSE first' = r /\ second' = 0,
         "queryRecoveryVerified" \in recovery <=> status # "unknown",
         status # "unknown" => runs[r].status = status /\ status \in Terminal,
         seen' = {}, keys = 1, first' # 0 => first' \in RunId,
         first' \in Nat, second' \in Nat, smoke' = "paid"
  PROVE  PaidSound' /\ SmokeTypeOK'
<1> DEFINE x == [event |-> "paid", gate |-> gate, run |-> r, uniqueRuns |-> 1,
                 status |-> status, recovery |-> recovery]
<1>1. evidence' = <<x>> /\ step' = "done" /\ RunId' = RunId
  BY DEF PaidEvidence, RunId
<1>2. /\ x \in Evidence /\ x.event = "paid" /\ x.uniqueRuns = 1 /\ x.run = r
      /\ x.status = status /\ x.recovery = recovery
  BY DEF Evidence
<1> HIDE DEF x
<1>3. /\ evidence' \in Seq(Evidence)
      /\ \A e \in {evidence'[i] : i \in DOMAIN evidence'} : e = x
  BY <1>1, <1>2
<1>4. SmokeTypeOK'
  BY <1>1, <1>3 DEF SmokeTypeOK
<1>6. RecoveryIsTrue(x)'
  <2>1. x' = x
    BY DEF x
  <2> QED
    BY <1>2, <2>1 DEF RecoveryIsTrue
<1>5. PaidSound'
  BY <1>1, <1>2, <1>3, <1>6 DEF PaidSound
<1> QED
  BY <1>4, <1>5

(* No line of it yet.                                                      *)
LEMMA PaidGoesOn ==
  ASSUME PaidSound, SmokeTypeOK, smoke' = "paid", UNCHANGED <<runs, seen, evidence>>,
         evidence = <<>>, first' \in Nat, second' \in Nat,
         step' \in {"interrupting", "replaying", "querying", "thrown"}, keys' = 1,
         first' # 0 => first' \in RunId,
         step' = "querying" => second' \in RunId /\ first' \in {0, second'},
         step' \in {"interrupting", "replaying"} => second' = 0
  PROVE  PaidSound' /\ SmokeTypeOK'
<1>1. RunId' = RunId
  BY DEF RunId
<1>2. SmokeTypeOK'
  BY DEF SmokeTypeOK, PaidSound
<1>3. PaidSound'
  BY <1>1 DEF PaidSound
<1> QED
  BY <1>2, <1>3

LEMMA PaidStepsKeep ==
  ASSUME ApiSound, SmokeTypeOK, SmokeRuns, PaidSound, PaidNext
  PROVE  ApiSound' /\ SmokeTypeOK' /\ SmokeRuns' /\ PaidSound'
<1>0. smoke' = "paid" /\ first \in Nat /\ second \in Nat /\ seen = {} /\ keys \in Nat
  BY KeysOfRuns DEF PaidNext, SmokeTypeOK, PaidSound
<1>1. CASE PaidSubmit
  <2>1. /\ step = "start" /\ NewKeyPost /\ UNCHANGED <<serviceVars, faults>> /\ keys = 0
        /\ step' = "interrupting" /\ UNCHANGED <<first, second, seen, evidence>>
        /\ evidence = <<>>
    BY <1>1 DEF PaidSubmit, PaidSound
  <2>2. ApiSound' /\ SmokeRuns' /\ keys' = 1 /\ runs' = runs
    BY <2>1, NewKeyKeeps
  <2> QED
    BY <1>0, <2>1, <2>2, PaidGoesOn DEF PaidSound
<1>2. CASE PaidReplay
  <2>1. /\ SendPost(keys, Body) /\ UNCHANGED <<serviceVars, keys, faults>> /\ keys = 1
        /\ step' = "replaying" /\ UNCHANGED <<second, seen, evidence>> /\ evidence = <<>>
        /\ second' = 0
        /\ first' = IF answer.code \in {"ACCEPTED", "BODY_LOST"} THEN answer.run ELSE 0
    BY <1>2 DEF PaidReplay, PaidSound
  <2>2. /\ keys \in Key /\ keys' \in 0..MaxKeys /\ keys <= keys'
        /\ Body \in Request /\ HasBody(keys, Body)
    BY <2>1, ApiAssumption, BodyIsServable DEF ApiSound, ApiTypeOK, Key, SmokeRuns, HasBody
  <2>3. ApiSound' /\ \A m \in wire' : m \in wire \/ (m.key = keys /\ m.request = Body)
    BY <2>1, <2>2, SendKeeps
  <2>4. runs' = runs /\ SmokeRuns'
    BY <2>1, <2>3 DEF serviceVars, SmokeRuns, RunId
  <2>5. first' \in Nat /\ (first' # 0 => first' \in RunId)
    BY <2>1 DEF ApiSound, ApiTypeOK
  <2> QED
    BY <1>0, <2>1, <2>3, <2>4, <2>5, PaidGoesOn
<1>3. CASE PaidReplayed
  <2>1. /\ step = "replaying" /\ answer.code = "ACCEPTED" /\ keys = 1 /\ evidence = <<>>
        /\ first' = first
        /\ UNCHANGED <<serviceVars, wire, posts, keys, faults, first, seen>>
        /\ awaited' = 0 /\ answer' = NoAnswer /\ second' = answer.run
    BY <1>3 DEF PaidReplayed, TakeAnswer, PaidSound
  <2>2. ApiSound' /\ SmokeRuns' /\ runs' = runs
    BY <2>1, SmokeTakes
  <2>3. second' \in RunId /\ second' \in Nat /\ (first # 0 => first \in RunId)
    BY <2>1, KeysOfRuns DEF ApiSound, PaidSound
  <2>4. first \in {0, second'}
    BY <2>1, <2>3, KeysOfRuns
  <2>5. step' = "querying" /\ UNCHANGED evidence
    BY <1>3, <2>1, <2>4 DEF PaidReplayed
  <2> QED
    BY <1>0, <2>1, <2>2, <2>3, <2>4, <2>5, PaidGoesOn
<1>4. CASE PaidReplayFails
  <2>1. /\ step = "replaying" /\ keys = 1 /\ evidence = <<>> /\ second = 0
        /\ UNCHANGED <<serviceVars, wire, posts, keys, faults, first, second, seen>>
        /\ awaited' = 0 /\ answer' = NoAnswer
        /\ IF first = 0 THEN step' = "thrown" /\ UNCHANGED evidence
           ELSE PaidEvidence("acceptance_recovery", first, 1, "unknown", NotRecovered)
    BY <1>4 DEF PaidReplayFails, TakeAnswer, PaidSound, Throw
  <2>2. ApiSound' /\ SmokeRuns' /\ runs' = runs
    BY <2>1, SmokeTakes
  <2>3. CASE first = 0
    BY <1>0, <2>1, <2>2, <2>3, PaidGoesOn
  <2>4. CASE first # 0
    <3>1. first \in RunId
      BY <2>4 DEF PaidSound
    <3>2. /\ "acceptance_recovery" \in Gate /\ NotRecovered \in SUBSET Claim
          /\ "acceptanceResponseRecoveryVerified" \notin NotRecovered
          /\ "queryRecoveryVerified" \notin NotRecovered
      BY DEF Gate, NotRecovered, Claim
    <3> QED
      BY <1>0, <2>1, <2>2, <2>4, <3>1, <3>2, PaidEvidenceSound
  <2> QED
    BY <2>2, <2>3, <2>4
<1>5. CASE PaidGivesUp \/ PaidTerminal
  <2>1. /\ step = "querying" /\ keys = 1
        /\ UNCHANGED <<serviceVars, wire, posts, awaited, answer, keys, faults>>
        /\ UNCHANGED <<first, second, seen>> /\ second \in RunId
        /\ first # 0 => first \in RunId
        /\ first \in {0, second}
    BY <1>5 DEF PaidGivesUp, PaidTerminal, apiVars, networkVars, PaidSound
  <2>2. ApiSound' /\ SmokeRuns' /\ runs' = runs
    BY <2>1, SmokeTakes
  <2>3. \E gate \in Gate, status \in Terminal \cup {"unknown"}, recovery \in SUBSET Claim :
          /\ PaidEvidence(gate, second, 1, status, recovery)
          /\ "acceptanceResponseRecoveryVerified" \in recovery
          /\ "queryRecoveryVerified" \in recovery <=> status # "unknown"
          /\ status # "unknown" => ViewOf(second) = status /\ status \in Terminal
    <3>1. /\ NotQueried \in SUBSET Claim /\ Claim \in SUBSET Claim
          /\ "acceptanceResponseRecoveryVerified" \in NotQueried
          /\ "queryRecoveryVerified" \notin NotQueried
          /\ {"acceptanceResponseRecoveryVerified", "queryRecoveryVerified"} \subseteq Claim
      BY DEF NotQueried, Claim
    <3>2. CASE PaidGivesUp
      BY <3>1, <3>2 DEF PaidGivesUp, Gate
    <3>3. CASE PaidTerminal
      BY <3>1, <3>3 DEF PaidTerminal, Gate, ObjectGate, Terminal
    <3> QED
      BY <1>5, <3>2, <3>3
  <2>4. ViewOf(second) = runs[second].status
    BY <2>1 DEF ViewOf, SmokeRuns
  <2> QED
    BY <1>0, <2>1, <2>2, <2>3, <2>4, PaidEvidenceSound
<1> QED
  BY <1>1, <1>2, <1>3, <1>4, <1>5 DEF PaidNext

LEMMA InternalThrows ==
  ASSUME SmokeTypeOK, InternalSound, smoke' = "internal", Throw, step # "done",
         UNCHANGED runs
  PROVE  InternalSound' /\ SmokeTypeOK'
<1>1. /\ step' = "thrown" /\ UNCHANGED <<first, second, seen, evidence>> /\ RunId' = RunId
  BY DEF Throw, RunId
<1>2. SmokeTypeOK'
  BY <1>1 DEF SmokeTypeOK
<1>3. KeyOfStep' /\ Probed'
  BY <1>1 DEF KeyOfStep, Probed
<1>4. RunsOfSteps'
  BY <1>1 DEF RunsOfSteps, InternalSound, Expected
<1>5. InternalSound'
  BY <1>1, <1>3, <1>4 DEF InternalSound
<1> QED
  BY <1>2, <1>5

(* The runs of the first and of the second key are two.                    *)
LEMMA TwoRuns ==
  ASSUME RunsOfSteps, step \in {"waiting", "baselined", "probing", "done"}
  PROVE  /\ first \in RunId /\ runs[first].key = 1
         /\ second \in RunId /\ runs[second].key = 2 /\ first # second
<1>1. first \in RunId /\ runs[first].key = 1 /\ second \in RunId /\ runs[second].key = 2
  BY DEF RunsOfSteps
<1> QED
  BY <1>1

LEMMA EvidenceGrows ==
  ASSUME NEW s \in Seq(Evidence), NEW x \in Evidence
  PROVE  /\ <<x>> \o s \in Seq(Evidence)
         /\ \A i \in DOMAIN (<<x>> \o s) :
              (<<x>> \o s)[i] = x \/ (<<x>> \o s)[i] \in {s[j] : j \in DOMAIN s}
<1>1. <<x>> \in Seq(Evidence) /\ Len(<<x>>) = 1 /\ <<x>>[1] = x
  OBVIOUS
<1>2. /\ <<x>> \o s \in Seq(Evidence) /\ Len(<<x>> \o s) = 1 + Len(s)
      /\ (<<x>> \o s)[1] = x
      /\ \A i \in 2..Len(<<x>> \o s) : (<<x>> \o s)[i] = s[i - 1]
  BY <1>1
<1>3. \A i \in 2..(1 + Len(s)) : i - 1 \in DOMAIN s
  OBVIOUS
<1>4. DOMAIN (<<x>> \o s) = 1..(1 + Len(s)) /\ Len(s) \in Nat
  BY <1>2
<1>5. \A i \in 1..(1 + Len(s)) : i = 1 \/ i \in 2..(1 + Len(s))
  BY <1>4
<1> QED
  BY <1>2, <1>3, <1>4, <1>5

(* Evidence is written of two runs seen at their expected ends.            *)
LEMMA ConcludesSound ==
  ASSUME SmokeTypeOK, InternalSound, smoke' = "internal",
         step \in {"waiting", "probing"},
         NEW event \in {"baseline", "rollback"}, NEW to \in {"baselined", "done"},
         Concludes(event, to), event = "rollback" => to = "done",
         UNCHANGED <<runs, first, second, seen, keys>>,
         runs[first].status = "succeeded", runs[second].status = "failed",
         KeyOfStep', Probed'
  PROVE  InternalSound' /\ SmokeTypeOK'
<1> DEFINE x == [event |-> event, gate |-> "none", run |-> first, uniqueRuns |-> 2,
                 status |-> "succeeded", recovery |-> {}]
<1>1. evidence' = <<x>> \o evidence /\ step' = to /\ RunId' = RunId
  BY DEF Concludes, RunId
<1>2. x \in Evidence /\ x.event = event
  BY DEF Evidence, Gate, Terminal, SmokeTypeOK
<1> HIDE DEF x
<1>3. /\ evidence' \in Seq(Evidence)
      /\ \A e \in {evidence'[i] : i \in DOMAIN evidence'} :
           e = x \/ e \in {evidence[i] : i \in DOMAIN evidence}
  BY <1>1, <1>2, EvidenceGrows DEF SmokeTypeOK
<1>4. SmokeTypeOK'
  BY <1>1, <1>3 DEF SmokeTypeOK
<1>5. /\ first \in RunId /\ runs[first].key = 1
      /\ second \in RunId /\ runs[second].key = 2 /\ first # second
  BY TwoRuns DEF InternalSound
<1>6. RunsOfSteps'
  BY <1>1, <1>5 DEF RunsOfSteps, InternalSound, Expected
<1>7. \A e \in {evidence[i] : i \in DOMAIN evidence} : e.event = "baseline"
  BY DEF InternalSound
<1>8. \A e \in {evidence'[i] : i \in DOMAIN evidence'} :
        /\ e.event \in {"baseline", "rollback"}
        /\ e.event = "rollback" => to = "done"
  BY <1>2, <1>3, <1>7
<1> QED
  BY <1>1, <1>4, <1>5, <1>6, <1>8 DEF InternalSound

LEMMA InternalPosts ==
  ASSUME ApiSound, SmokeTypeOK, SmokeRuns, InternalSound, smoke' = "internal",
         Submit \/ ProbeIntake
  PROVE  ApiSound' /\ SmokeTypeOK' /\ SmokeRuns' /\ InternalSound'
<1>1. /\ NewKeyPost /\ UNCHANGED <<serviceVars, faults, first, second, seen, evidence>>
      /\ step' = IF step = "start" THEN "first_posted"
                 ELSE IF step = "first_accepted" THEN "second_posted" ELSE "probing"
      /\ step \in {"start", "first_accepted", "baselined"}
  BY DEF Submit, ProbeIntake
<1>2. /\ ApiSound' /\ SmokeRuns' /\ keys' = keys + 1 /\ runs' = runs /\ RunId' = RunId
      /\ Awaits(keys, Body)' /\ answer'.code = "NONE"
      /\ \A m \in wire' : m.key = keys' => m.number = awaited'
      /\ \A r \in RunId' : runs'[r].key # keys'
  BY <1>1, NewKeyKeeps
<1>3. keys = IF step = "start" THEN 0 ELSE IF step = "first_accepted" THEN 1 ELSE 2
  BY <1>1 DEF InternalSound, KeyOfStep
<1>4. KeyOfStep'
  BY <1>1, <1>2, <1>3 DEF KeyOfStep
<1>5. Probed'
  BY <1>1, <1>2 DEF Probed
<1>6. RunsOfSteps'
  BY <1>1, <1>2 DEF RunsOfSteps, InternalSound, Expected
<1>7. InternalSound'
  BY <1>1, <1>2, <1>4, <1>5, <1>6 DEF InternalSound
<1>8. SmokeTypeOK'
  BY <1>1 DEF SmokeTypeOK
<1> QED
  BY <1>2, <1>7, <1>8

LEMMA SubmittedKeeps ==
  ASSUME ApiSound, SmokeTypeOK, SmokeRuns, InternalSound, smoke' = "internal", Submitted
  PROVE  ApiSound' /\ SmokeTypeOK' /\ SmokeRuns' /\ InternalSound'
<1>1. /\ step \in {"first_posted", "second_posted"} /\ answer.code = "ACCEPTED"
      /\ UNCHANGED <<serviceVars, wire, posts, keys, faults, seen, evidence>>
      /\ awaited' = 0 /\ answer' = NoAnswer
      /\ step = "first_posted" =>
           step' = "first_accepted" /\ first' = answer.run /\ UNCHANGED second
      /\ step = "second_posted" =>
           step' = "waiting" /\ second' = answer.run /\ UNCHANGED first
  BY DEF Submitted, TakeAnswer
<1>2. ApiSound' /\ SmokeRuns' /\ runs' = runs /\ RunId' = RunId
  BY <1>1, SmokeTakes
<1>3. /\ answer.run \in RunId /\ answer.run \in Nat /\ runs[answer.run].key = keys
      /\ seen = {} /\ keys = IF step = "first_posted" THEN 1 ELSE 2
  BY <1>1, KeysOfRuns DEF InternalSound, RunsOfSteps, KeyOfStep, Awaits, ApiSound
<1>4. evidence = <<>>
  BY <1>1 DEF InternalSound, RunsOfSteps
<1>5. KeyOfStep' /\ Probed'
  BY <1>1, <1>3 DEF KeyOfStep, Probed
<1>6. RunsOfSteps'
  BY <1>1, <1>2, <1>3 DEF RunsOfSteps, InternalSound
<1>7. InternalSound'
  BY <1>1, <1>4, <1>5, <1>6 DEF InternalSound
<1>8. SmokeTypeOK'
  BY <1>1, <1>3 DEF SmokeTypeOK
<1> QED
  BY <1>2, <1>7, <1>8

LEMMA LookingKeeps ==
  ASSUME ApiSound, SmokeTypeOK, SmokeRuns, InternalSound, smoke' = "internal",
         \/ NotReady \/ WaitFails \/ ChecksFail \/ SubmissionFails \/ RollbackFails
  PROVE  ApiSound' /\ SmokeTypeOK' /\ SmokeRuns' /\ InternalSound'
<1>1. /\ Throw /\ step # "done"
      /\ UNCHANGED <<serviceVars, wire, posts, keys, faults>>
      /\ (awaited' = 0 /\ answer' = NoAnswer) \/ UNCHANGED <<awaited, answer>>
  BY DEF NotReady, WaitFails, ChecksFail, SubmissionFails, RollbackFails, TakeAnswer,
         apiVars, networkVars
<1>2. ApiSound' /\ SmokeRuns' /\ runs' = runs
  BY <1>1, SmokeTakes
<1> QED
  BY <1>1, <1>2, InternalThrows

(* The service has kept every result: the view of a run is its status.     *)
LEMMA ViewIsStatus ==
  ASSUME SmokeRuns, NEW r \in RunId
  PROVE  ViewOf(r) = runs[r].status
BY DEF SmokeRuns, ViewOf

LEMMA ObserveKeeps ==
  ASSUME ApiSound, SmokeTypeOK, SmokeRuns, InternalSound, smoke' = "internal",
         NEW r \in RunId, Observe(r)
  PROVE  ApiSound' /\ SmokeTypeOK' /\ SmokeRuns' /\ InternalSound'
<1>1. /\ step = "waiting" /\ r \in {first, second} /\ ViewOf(r) = Expected(r)
      /\ seen' = seen \cup {r}
      /\ UNCHANGED <<step, first, second, evidence>>
      /\ UNCHANGED <<serviceVars, wire, posts, awaited, answer, keys, faults>>
  BY DEF Observe, apiVars, networkVars
<1>2. ApiSound' /\ SmokeRuns' /\ runs' = runs /\ RunId' = RunId
  BY <1>1, SmokeTakes
<1>3. KeyOfStep' /\ Probed'
  BY <1>1 DEF InternalSound, KeyOfStep, Probed
<1>4. runs[r].status = Expected(r) /\ \A s : Expected(s)' = Expected(s)
  BY <1>1, ViewIsStatus DEF Expected
<1>5. RunsOfSteps'
  BY <1>1, <1>2, <1>4 DEF InternalSound, RunsOfSteps
<1>6. InternalSound'
  BY <1>1, <1>2, <1>3, <1>5 DEF InternalSound
<1>7. SmokeTypeOK'
  BY <1>1 DEF SmokeTypeOK
<1> QED
  BY <1>2, <1>6, <1>7

LEMMA BaselineKeeps ==
  ASSUME ApiSound, SmokeTypeOK, SmokeRuns, InternalSound, smoke' = "internal", Baseline
  PROVE  ApiSound' /\ SmokeTypeOK' /\ SmokeRuns' /\ InternalSound'
<1>1. /\ step = "waiting" /\ seen = {first, second} /\ Concludes("baseline", "baselined")
      /\ UNCHANGED <<first, second, seen>> /\ step' = "baselined"
      /\ UNCHANGED <<serviceVars, wire, posts, awaited, answer, keys, faults>>
  BY DEF Baseline, Concludes, apiVars, networkVars
<1>2. ApiSound' /\ SmokeRuns' /\ runs' = runs
  BY <1>1, SmokeTakes
<1>3. runs[first].status = "succeeded" /\ runs[second].status = "failed"
  BY <1>1, TwoRuns DEF InternalSound, RunsOfSteps, Expected
<1>4. KeyOfStep' /\ Probed'
  BY <1>1 DEF InternalSound, KeyOfStep, Probed
<1> QED
  BY <1>1, <1>2, <1>3, <1>4, ConcludesSound

LEMMA RollbackKeeps ==
  ASSUME ApiSound, SmokeTypeOK, SmokeRuns, InternalSound, smoke' = "internal", Rollback
  PROVE  ApiSound' /\ SmokeTypeOK' /\ SmokeRuns' /\ InternalSound'
<1>1. /\ step = "probing" /\ answer.code = "ASYNC_INTAKE_CLOSED"
      /\ Concludes("rollback", "done") /\ step' = "done"
      /\ \A r \in {first, second} : ViewOf(r) = Expected(r)
      /\ UNCHANGED <<first, second, seen>>
      /\ UNCHANGED <<serviceVars, wire, posts, keys, faults>>
      /\ awaited' = 0 /\ answer' = NoAnswer
  BY DEF Rollback, ProbeRefused, Concludes, TakeAnswer
<1>2. ApiSound' /\ SmokeRuns' /\ runs' = runs /\ RunId' = RunId
  BY <1>1, SmokeTakes
<1>3. runs[first].status = "succeeded" /\ runs[second].status = "failed"
  BY <1>1, TwoRuns, ViewIsStatus DEF InternalSound, Expected
<1>4. KeyOfStep' /\ Probed'
  BY <1>1, <1>2 DEF InternalSound, KeyOfStep, Probed
<1> QED
  BY <1>1, <1>2, <1>3, <1>4, ConcludesSound

LEMMA InternalStepsKeep ==
  ASSUME ApiSound, SmokeTypeOK, SmokeRuns, InternalSound, InternalNext
  PROVE  ApiSound' /\ SmokeTypeOK' /\ SmokeRuns' /\ InternalSound'
<1>1. smoke' = "internal"
  BY DEF InternalNext
<1> QED
  BY <1>1, LookingKeeps, InternalPosts, SubmittedKeeps, ObserveKeeps, BaselineKeeps, RollbackKeeps
     DEF InternalNext

-----------------------------------------------------------------------------
(* All of it together.                                                     *)

LEMMA ClientsStart ==
  ASSUME ClientsInit
  PROVE  ClientsInv
<1> USE DEF ClientsInit, ApiInit, ConsoleInit, SmokeInit
<1>1. NoAnswer.code = "NONE" /\ NoAnswer.run = 0 /\ RunId = {} /\ NoPending.class = "none"
  BY DEF NoAnswer, Refused, RunId, NoPending
<1>2. ApiSound
  <2>1. NoAnswer \in [code : SubmitCode \cup {"NONE"}, run : Nat]
    BY DEF NoAnswer, Refused
  <2>2. ApiTypeOK
    BY <2>1, ApiAssumption DEF ApiTypeOK
  <2> QED
    BY <1>1, <2>2 DEF ApiSound, Answered
<1>3. SmokeTypeOK
  BY DEF SmokeTypeOK
<1>4. ConsoleSound
  <2>1. ConsoleTypeOK
    BY DEF ConsoleTypeOK, Fate
  <2>2. FateOfKeys /\ ReportsTrue
    BY DEF FateOfKeys, ReportsTrue
  <2>3. RecordSound
    BY <1>1 DEF RecordSound, HasBody, Idle
  <2> QED
    BY <2>1, <2>2, <2>3 DEF ConsoleSound
<1>5. smoke # "none" => SmokeRuns
  BY <1>1 DEF SmokeRuns
<1>6. PaidSound
  BY DEF PaidSound
<1>7. InternalSound
  <2>1. KeyOfStep /\ Probed
    BY DEF KeyOfStep, Probed
  <2>2. RunsOfSteps
    BY DEF RunsOfSteps
  <2> QED
    BY <2>1, <2>2 DEF InternalSound
<1> QED
  BY <1>2, <1>3, <1>4, <1>5, <1>6, <1>7 DEF ClientsInv

LEMMA StutteringIsAnEffect ==
  ASSUME ApiSound, UNCHANGED apiVars
  PROVE  ServiceEffect /\ \A r \in RunId : runs'[r].kept = runs[r].kept
<1>1. UNCHANGED <<runs, intake, authorized, wire, posts, awaited, answer, keys, faults>>
  BY DEF apiVars, serviceVars, networkVars
<1>2. ApiTypeOK' /\ RunId' = RunId
  BY <1>1 DEF ApiSound, ApiTypeOK, RunId
<1>3. RunsGrow
  BY <1>1, <1>2 DEF RunsGrow
<1> QED
  BY <1>1, <1>2, <1>3 DEF ServiceEffect, AnswerTold

LEMMA ClientsKeep ==
  ASSUME ClientsInv, [ClientsNext]_clientVars
  PROVE  ClientsInv'
<1>0. ApiSound
  BY DEF ClientsInv
<1>1. CASE ServiceStep
  BY <1>0, <1>1, ServiceDoes, EffectKeepsClients DEF ServiceStep
<1>2. CASE RetentionStep
  <2>1. PICK r \in RunId : ExpireResult(r) \/ DeleteRun(r)
    BY <1>2 DEF RetentionStep
  <2>2. ApiTypeOK /\ (runs[r].kept # "result" => runs[r].status \in Terminal)
    BY <1>0 DEF ApiSound
  <2>3. ServiceEffect
    BY <2>1, <2>2, RetentionDoes
  <2> QED
    BY <1>2, <2>3, EffectKeepsClients DEF RetentionStep
<1>3. CASE ConsoleStep
  <2>1. /\ smoke = "none" /\ ConsoleNext /\ ConsoleSound
        /\ UNCHANGED <<smoke, step, first, second, seen, evidence>>
    BY <1>3 DEF ConsoleStep, smokeVars, ClientsInv
  <2>2. ApiSound' /\ ConsoleSound'
    BY <1>0, <2>1, ConsoleKeeps
  <2>3. SmokeTypeOK'
    BY <2>1 DEF ClientsInv, SmokeTypeOK
  <2> QED
    BY <2>1, <2>2, <2>3 DEF ClientsInv
<1>4. CASE SmokeStep
  <2>1. UNCHANGED <<pending, op, fate, reported>>
    BY <1>4 DEF SmokeStep, consoleVars
  <2>2. CASE PaidNext
    <3>1. smoke = "paid" /\ smoke' = "paid" /\ SmokeRuns /\ PaidSound /\ SmokeTypeOK /\ ConsoleInit
      BY <2>2 DEF PaidNext, ClientsInv
    <3>2. ApiSound' /\ SmokeTypeOK' /\ SmokeRuns' /\ PaidSound'
      BY <1>0, <2>2, <3>1, PaidStepsKeep
    <3>3. ConsoleInit'
      BY <2>1, <3>1 DEF ConsoleInit
    <3> QED
      BY <3>1, <3>2, <3>3 DEF ClientsInv
  <2>3. CASE InternalNext
    <3>1. /\ smoke = "internal" /\ smoke' = "internal" /\ SmokeRuns /\ InternalSound
          /\ SmokeTypeOK /\ ConsoleInit
      BY <2>3 DEF InternalNext, ClientsInv
    <3>2. ApiSound' /\ SmokeTypeOK' /\ SmokeRuns' /\ InternalSound'
      BY <1>0, <2>3, <3>1, InternalStepsKeep
    <3>3. ConsoleInit'
      BY <2>1, <3>1 DEF ConsoleInit
    <3> QED
      BY <3>1, <3>2, <3>3 DEF ClientsInv
  <2> QED
    BY <1>4, <2>2, <2>3 DEF SmokeStep, SmokeNext
<1>5. CASE UNCHANGED clientVars
  <2>1. UNCHANGED apiVars /\ UNCHANGED <<consoleVars, smokeVars>>
    BY <1>5 DEF clientVars
  <2> QED
    BY <1>0, <2>1, StutteringIsAnEffect, EffectKeepsClients
<1> QED
  BY <1>1, <1>2, <1>3, <1>4, <1>5 DEF ClientsNext

LEMMA ClientsAlwaysSound == ClientsSpec => []ClientsInv
<1>1. ClientsInit => ClientsInv
  BY ClientsStart
<1>2. ClientsInv /\ [ClientsNext]_clientVars => ClientsInv'
  BY ClientsKeep
<1> QED
  BY <1>1, <1>2, PTL DEF ClientsSpec

-----------------------------------------------------------------------------
(* What it is worth.                                                       *)

(* A run the tab has paid for is never lost from sight, whatever the       *)
(* network, the page's storage and its reloads do: as long as the user was *)
(* neither shown its end nor gave it up, the tab would use its key again;  *)
(* and a submission reported as rejected has no run, nor gets one when a   *)
(* POST that was given up arrives late (console/process-run-client.ts).    *)
THEOREM NoRunIsEverForgotten == ClientsSpec => []NoRunIsForgotten
<1>1. ASSUME ClientsInv
      PROVE  NoRunIsForgotten
  <2> SUFFICES ASSUME NEW r \in RunId
               PROVE  /\ fate[runs[r].key] # "rejected"
                      /\ fate[runs[r].key] = "held" => pending.key = runs[r].key
    BY DEF NoRunIsForgotten
  <2>1. runs[r].key \in Key
    BY <1>1, RunTypes DEF ClientsInv, ApiSound, Run
  <2>2. CASE smoke = "none"
    BY <1>1, <2>1, <2>2 DEF ClientsInv, ConsoleSound, FateOfKeys, Dead
  <2>3. CASE smoke # "none"
    <3>1. fate[runs[r].key] = "unused"
      BY <1>1, <2>1, <2>3 DEF ClientsInv, ConsoleInit
    <3> QED
      BY <3>1
  <2> QED
    BY <2>2, <2>3
<1> QED
  BY <1>1, ClientsAlwaysSound, PTL

(* The record of an accepted operation names the run of its own key and    *)
(* body, and what the page showed of a run is how that run ended, though   *)
(* its result may have expired since (console/process-run-client.ts).      *)
THEOREM ShownIsAlwaysTrue == ClientsSpec => []ShownIsTrue
<1>1. ASSUME ClientsInv
      PROVE  ShownIsTrue
  <2>1. CASE smoke = "none"
    BY <1>1, <2>1 DEF ClientsInv, ConsoleSound, RecordSound, HasBody, ReportsTrue, ShownIsTrue
  <2>2. CASE smoke # "none"
    BY <1>1, <2>2 DEF ClientsInv, ConsoleInit, NoPending, ShownIsTrue
  <2> QED
    BY <2>1, <2>2
<1> QED
  BY <1>1, ClientsAlwaysSound, PTL

(* What a release smoke test attests is what the service did: the paid one *)
(* names the only run of its key and its end, although it broke off its    *)
(* own first answer; the baseline stands for one succeeded and one failed  *)
(* run of their own, and a rollback for an intake that lets nothing        *)
(* through, now or later (release/paid-async-image-smoke.ts,               *)
(* release/async-internal-smoke.ts).                                       *)
THEOREM EvidenceIsAlwaysTrue == ClientsSpec => []EvidenceIsTrue
<1>1. ASSUME ClientsInv
      PROVE  EvidenceIsTrue
  <2>1. ClientsTypeOK
    <3>1. smoke = "none" => ConsoleTypeOK
      BY <1>1 DEF ClientsInv, ConsoleSound
    <3>2. smoke # "none" => ConsoleTypeOK
      BY <1>1 DEF ClientsInv, ConsoleInit, ConsoleTypeOK, Fate
    <3> QED
      BY <1>1, <3>1, <3>2 DEF ClientsTypeOK, ClientsInv, ApiSound
  <2>2. PaidEvidenceIsTrue
    <3> SUFFICES ASSUME smoke = "paid"
                 PROVE  PaidEvidenceIsTrue
      BY DEF PaidEvidenceIsTrue
    <3>1. ApiSound /\ SmokeRuns /\ PaidSound
      BY <1>1 DEF ClientsInv
    <3>2. \A r, s \in RunId : r = s
      BY <3>1, KeysOfRuns DEF PaidSound
    <3>3. Len(runs) \in Nat /\ RunId = 1..Len(runs)
      BY <3>1, RunTypes DEF ApiSound
    <3>4. Len(runs) <= 1
      <4>1. Len(runs) > 1 => 1 \in RunId /\ 2 \in RunId
        BY <3>3
      <4> QED
        BY <3>2, <3>3, <4>1
    <3>5. \A e \in {evidence[i] : i \in DOMAIN evidence} :
            /\ e.uniqueRuns = 1 /\ e.run \in RunId
            /\ e.status # "unknown" => runs[e.run].status = e.status
            /\ RecoveryIsTrue(e)
      BY <3>1 DEF PaidSound
    <3>6. ASSUME NEW r \in RunId
          PROVE  Len(runs) = 1
      <4> DEFINE n == Len(runs)
      <4>1. n \in Nat /\ n <= 1 /\ n # 0
        BY <3>3, <3>4
      <4> HIDE DEF n
      <4>2. n = 1
        BY <4>1
      <4> QED
        BY <4>2 DEF n
    <3> QED
      BY <3>4, <3>5, <3>6 DEF PaidEvidenceIsTrue
  <2>3. InternalEvidenceIsTrue
    <3>1. CASE smoke = "none"
      BY <1>1, <3>1 DEF ClientsInv, InternalEvidenceIsTrue
    <3>2. CASE smoke = "paid"
      BY <1>1, <3>2 DEF ClientsInv, PaidSound, InternalEvidenceIsTrue
    <3>3. CASE smoke = "internal"
      <4>1. ApiSound /\ SmokeRuns /\ InternalSound
        BY <1>1, <3>3 DEF ClientsInv
      <4>2. ASSUME step = "done"
            PROVE  Len(runs) = 2 /\ \A m \in wire : m.key # keys
        <5>1. /\ first \in RunId /\ runs[first].key = 1
              /\ second \in RunId /\ runs[second].key = 2 /\ first # second
          BY <4>1, <4>2, TwoRuns DEF InternalSound
        <5>2. /\ keys = 3 /\ \A r \in RunId : runs[r].key # keys
              /\ \A m \in wire : m.key # keys
          BY <4>1, <4>2 DEF InternalSound, KeyOfStep, Probed
        <5>3. \A r \in RunId : runs[r].key \in {1, 2}
          BY <4>1, <5>2, KeysOfRuns
        <5>4. \A r \in RunId : r \in {first, second}
          BY <4>1, <5>1, <5>3, KeysOfRuns
        <5>5. Len(runs) \in Nat /\ RunId = 1..Len(runs)
          BY <4>1, RunTypes DEF ApiSound
        <5>6. Len(runs) >= 2
          BY <5>1, <5>5
        <5>7. Len(runs) > 2 => 1 \in RunId /\ 2 \in RunId /\ 3 \in RunId
          BY <5>5
        <5> QED
          BY <5>2, <5>4, <5>5, <5>6, <5>7
      <4> QED
        BY <4>1, <4>2 DEF InternalSound, InternalEvidenceIsTrue
    <3> QED
      BY <1>1, <3>1, <3>2, <3>3 DEF ClientsInv, SmokeTypeOK
  <2> QED
    BY <2>1, <2>2, <2>3 DEF EvidenceIsTrue
<1> QED
  BY <1>1, ClientsAlwaysSound, PTL
=============================================================================
