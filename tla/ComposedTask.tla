----------------------------- MODULE ComposedTask -----------------------------
(***************************************************************************)
(* One run of composed-task/v1: a planning Agent calls Member Processes as *)
(* tools, one at a time, within a budget of steps and of priced steps      *)
(* (src/src/processes/composed/).  Every step is an attempt of its own     *)
(* inside the run's attempt (src/src/agent-runtime/process-tools.ts), both *)
(* under the race of src/src/process-runtime/attempt.ts: the registration, *)
(* the time limit and the caller's abort, whichever ends first; what comes *)
(* later is ignored.  The ledger of steps is in memory: when the worker    *)
(* dies the next attempt of the run starts without it.                     *)
(***************************************************************************)
EXTENDS Integers, Sequences, FiniteSets

CONSTANTS
  Tool,            \* the Members the planner may call
  Priced,          \* those whose success costs money
  ImageTool,       \* those rendered by this repository's image service
  CommitTool,      \* those that tell a paid picture that could not be delivered
  RetryTool,       \* those whose retry policy allows a second attempt
  MaxSteps,        \* the run's step budget
  MaxPricedSteps,  \* the server's budget of successful priced steps
  ToolCallSlack,   \* calls beyond the step budget before the session is aborted
  MaxStepAttempts,     \* attempts of a Member with a retry policy
  MaxLives,        \* bound on the attempts of the run itself
  Nil

VARIABLES
  life,       \* number of the run's current attempt
  toolCalls,  \* calls the session has counted
  step,       \* the step under way
  ledger,     \* the steps that ended, in order
  aborted,    \* the attempt's signal
  planner,    \* the planning session
  result,     \* result of the attempt; of the run, once an attempt has one
  requests    \* the priced requests that left, in order

composedVars == <<life, toolCalls, step, ledger, aborted, planner, result, requests>>

StepCode == {"INVALID_INPUT", "AGENT_FAILURE", "DEPENDENCY_FAILURE",
             "DEPENDENCY_FAILURE_AFTER_COMMIT", "PROCESS_TIMEOUT", "INVALID_OUTPUT",
             "INTERNAL_ERROR"}
RunCode  == {"succeeded", "AGENT_FAILURE", "DEPENDENCY_FAILURE",
             "DEPENDENCY_FAILURE_AFTER_COMMIT", "PROCESS_TIMEOUT", "INVALID_OUTPUT",
             "INTERNAL_ERROR"}

ASSUME ComposedAssumption ==
  /\ Priced \subseteq Tool /\ CommitTool \subseteq ImageTool /\ ImageTool \subseteq Priced
  /\ RetryTool \subseteq Tool \ Priced
  /\ Nil \notin Tool \cup RunCode
  /\ MaxSteps \in Nat \ {0} /\ MaxPricedSteps \in Nat /\ ToolCallSlack \in Nat
  /\ MaxStepAttempts \in Nat \ {0} /\ MaxLives \in Nat \ {0}

NoStep == [tool |-> Nil, attempt |-> 0, phase |-> "none"]

ComposedInit ==
  /\ life = 1 /\ toolCalls = 0 /\ step = NoStep /\ ledger = <<>>
  /\ aborted = FALSE /\ planner = "open" /\ result = Nil /\ requests = <<>>

-----------------------------------------------------------------------------
(* Ledger and budgets.                                                     *)

PricedSucceeded ==
  Cardinality({i \in DOMAIN ledger : ledger[i].tool \in Priced
                                     /\ ledger[i].code = "succeeded"})
PricedCommitted == PricedSucceeded > 0
Succeeded == {i \in DOMAIN ledger : ledger[i].code = "succeeded"}

StepBudgetExhausted == Len(ledger) >= MaxSteps
BrokenPricedBudgetExhausted(t) == t \in Priced /\ PricedSucceeded > MaxPricedSteps
PricedBudgetExhausted(t) == t \in Priced /\ PricedSucceeded >= MaxPricedSteps
Refused(t) == StepBudgetExhausted \/ PricedBudgetExhausted(t)

(* A step's run id, the key its capability sends, is `<run>.<step>`; the    *)
(* image service takes keys of letters, digits, "_" and "-" only.          *)
BrokenStepKey == [number |-> Cardinality(Succeeded) + 1, separator |-> "."]
StepKey == [number |-> Len(ledger) + 1, separator |-> "."]
KeyAccepted(t, key) == t \in ImageTool => key.separator \in {"_", "-"}

-----------------------------------------------------------------------------
(* The planner's tool calls.  Tools run sequentially: while a step runs the *)
(* planner waits for it.                                                   *)

PlannerIsFree == planner = "open" /\ step = NoStep

CountCall ==
  /\ PlannerIsFree
  /\ toolCalls < MaxSteps + ToolCallSlack
  /\ toolCalls' = toolCalls + 1

CallRefused(t) ==
  /\ CountCall /\ Refused(t)
  /\ UNCHANGED <<life, step, ledger, aborted, planner, result, requests>>

(* The Member's own schema rejects the input, or throws on it: a step, but  *)
(* not an attempt.                                                         *)
CallInvalid(t) ==
  /\ CountCall /\ ~Refused(t)
  /\ \E code \in {"INVALID_INPUT", "INTERNAL_ERROR"} :
       ledger' = Append(ledger, [tool |-> t, code |-> code, key |-> StepKey])
  /\ UNCHANGED <<life, step, aborted, planner, result, requests>>

CallTool(t) ==
  /\ CountCall /\ ~Refused(t)
  /\ step' = [tool |-> t, attempt |-> 1, phase |-> "running"]
  /\ UNCHANGED <<life, ledger, aborted, planner, result, requests>>

-----------------------------------------------------------------------------
(* The attempts of a step.  The run's abort cancels the attempt under way   *)
(* at once, so any other ending of it came before the abort.               *)

Record(code) ==
  /\ ledger' = Append(ledger, [tool |-> step.tool, code |-> code, key |-> StepKey])
  /\ step' = NoStep

Retryable(code) ==
  /\ step.tool \in RetryTool /\ code = "DEPENDENCY_FAILURE"
  /\ step.attempt < MaxStepAttempts
  /\ ~aborted

EndAttempt(code) ==
  /\ aborted => code = "INTERNAL_ERROR"
  /\ IF Retryable(code)
     THEN step' = [step EXCEPT !.phase = "backoff"] /\ UNCHANGED ledger
     ELSE Record(code)
  /\ UNCHANGED <<life, toolCalls, aborted, planner, result, requests>>

(* The backoff ends early when the run is aborted.                         *)
RetryStep ==
  /\ step.phase = "backoff"
  /\ step' = [step EXCEPT !.phase = "running", !.attempt = @ + 1]
  /\ UNCHANGED <<life, toolCalls, ledger, aborted, planner, result, requests>>

(* The Member's own Agent fails before anything is sent.                   *)
StepAgentFails ==
  /\ step.phase = "running"
  /\ EndAttempt("AGENT_FAILURE")

(* The capability's request goes out, unless the signal has already fired. *)
SendRequest ==
  /\ step.phase = "running" /\ ~aborted
  /\ step' = [step EXCEPT !.phase = "requested"]
  /\ requests' = IF step.tool \in Priced
                 THEN Append(requests, [life |-> life, key |-> StepKey]) ELSE requests
  /\ UNCHANGED <<life, toolCalls, ledger, aborted, planner, result>>

(* The image service answers 400 before it looks at its record.            *)
RejectKey ==
  /\ step.phase = "requested" /\ ~KeyAccepted(step.tool, StepKey)
  /\ EndAttempt("DEPENDENCY_FAILURE")

(* A provider takes the request: for a priced Member, it charges.          *)
Serve ==
  /\ step.phase = "requested" /\ KeyAccepted(step.tool, StepKey)
  /\ step' = [step EXCEPT !.phase = "served"]
  /\ UNCHANGED <<life, toolCalls, ledger, aborted, planner, result, requests>>

(* No answer, an error answer, or an answer that does not parse: also after *)
(* the provider has served, which the CRT Member alone can tell.           *)
RequestFailures ==
  {"DEPENDENCY_FAILURE"}
    \cup (IF step.phase = "served" /\ step.tool \in CommitTool
          THEN {"DEPENDENCY_FAILURE_AFTER_COMMIT"} ELSE {})

RequestFails ==
  /\ step.phase \in {"requested", "served"}
  /\ \E code \in RequestFailures : EndAttempt(code)

(* The output breaks the Member's schema or is too large.                  *)
StepOutputInvalid ==
  /\ step.phase = "served"
  /\ EndAttempt("INVALID_OUTPUT")

StepSucceeds ==
  /\ step.phase = "served" /\ ~aborted
  /\ Record("succeeded")
  /\ UNCHANGED <<life, toolCalls, aborted, planner, result, requests>>

InAttempt == step.phase \in {"running", "requested", "served"}

StepTimesOut ==
  /\ InAttempt
  /\ EndAttempt("PROCESS_TIMEOUT")

StepCancelled ==
  /\ InAttempt /\ aborted
  /\ EndAttempt("INTERNAL_ERROR")

(* The Member throws what its registration does not expect.                *)
StepThrows ==
  /\ InAttempt /\ ~aborted
  /\ EndAttempt("INTERNAL_ERROR")

-----------------------------------------------------------------------------
(* The end of the run's attempt.                                           *)

BrokenSettleTask(code) == result' = code

(* The first to settle the race decides; later outcomes are dropped.       *)
SettleTask(code) == result' = IF result = Nil THEN code ELSE result

BrokenPlannerFailure ==
  IF Len(ledger) > 0 /\ \A i \in DOMAIN ledger : ledger[i].code = "DEPENDENCY_FAILURE"
  THEN "DEPENDENCY_FAILURE" ELSE "AGENT_FAILURE"

PlannerFailure ==
  IF PricedCommitted THEN "DEPENDENCY_FAILURE_AFTER_COMMIT"
  ELSE IF Len(ledger) > 0
          /\ \A i \in DOMAIN ledger : ledger[i].code = "DEPENDENCY_FAILURE"
       THEN "DEPENDENCY_FAILURE" ELSE "AGENT_FAILURE"

(* The session ends without an answer: the model fails, the call budget is *)
(* exceeded, or the signal aborts it (then even while a step runs).        *)
PlannerFails ==
  /\ planner = "open"
  /\ step = NoStep \/ aborted
  /\ planner' = "closed"
  /\ SettleTask(PlannerFailure)
  /\ UNCHANGED <<life, toolCalls, step, ledger, aborted, requests>>

(* The answer's result is copied from a step that succeeded.  It is sent    *)
(* with the outputs of all steps, which together may be too large for an   *)
(* output (process-runtime/registration.ts): then priced steps that        *)
(* succeeded are not told.                                                 *)
PlannerAnswers ==
  /\ PlannerIsFree /\ Succeeded # {}
  /\ planner' = "closed"
  /\ \E fits \in BOOLEAN : SettleTask(IF fits THEN "succeeded" ELSE "INVALID_OUTPUT")
  /\ UNCHANGED <<life, toolCalls, step, ledger, aborted, requests>>

(* The answer does not parse, or its result comes from no step.            *)
PlannerInvents ==
  /\ PlannerIsFree
  /\ planner' = "closed"
  /\ SettleTask(IF PricedCommitted THEN "DEPENDENCY_FAILURE_AFTER_COMMIT" ELSE "AGENT_FAILURE")
  /\ UNCHANGED <<life, toolCalls, step, ledger, aborted, requests>>

(* The time limit; the caller's abort, or the loss of the run's claim.     *)
Abort(code) ==
  /\ result = Nil /\ ~aborted
  /\ aborted' = TRUE
  /\ SettleTask(code)
  /\ UNCHANGED <<life, toolCalls, step, ledger, planner, requests>>

TaskTimesOut == Abort("PROCESS_TIMEOUT")
Cancel  == Abort("INTERNAL_ERROR")

(* The worker dies and the run is taken over: the same run id, a new ledger.*)
TaskWorkerDies ==
  /\ result = Nil /\ life < MaxLives
  /\ life' = life + 1
  /\ toolCalls' = 0 /\ step' = NoStep /\ ledger' = <<>> /\ planner' = "open"
  /\ UNCHANGED <<aborted, result, requests>>

ComposedNext ==
  \/ \E t \in Tool : CallRefused(t) \/ CallInvalid(t) \/ CallTool(t)
  \/ RetryStep \/ StepAgentFails \/ SendRequest \/ RejectKey \/ Serve
  \/ RequestFails \/ StepOutputInvalid \/ StepSucceeds
  \/ StepTimesOut \/ StepCancelled \/ StepThrows
  \/ PlannerFails \/ PlannerAnswers \/ PlannerInvents
  \/ TaskTimesOut \/ Cancel \/ TaskWorkerDies

ComposedSpec == ComposedInit /\ [][ComposedNext]_composedVars

-----------------------------------------------------------------------------
(* Properties.                                                             *)

Key == [number : 1..MaxSteps, separator : {"."}]
Entry == [tool : Tool, code : StepCode \cup {"succeeded"}, key : Key]

ComposedTypeOK ==
  /\ life \in 1..MaxLives
  /\ toolCalls \in 0..(MaxSteps + ToolCallSlack)
  /\ step \in [tool : Tool \cup {Nil}, attempt : 0..MaxStepAttempts,
               phase : {"none", "running", "requested", "served", "backoff"}]
  /\ ledger \in Seq(Entry)
  /\ aborted \in BOOLEAN
  /\ planner \in {"open", "closed"}
  /\ result \in RunCode \cup {Nil}
  /\ requests \in Seq([life : 1..MaxLives, key : Key])

(* However the planner calls its tools, a run's attempt makes no more steps *)
(* than its budget, the step under way included, and no more priced steps   *)
(* succeed than the server allows.                                         *)
BudgetsKept ==
  /\ Len(ledger) + (IF step = NoStep THEN 0 ELSE 1) <= MaxSteps
  /\ PricedSucceeded <= MaxPricedSteps
  /\ step.tool \in Priced => PricedSucceeded < MaxPricedSteps

(* The codes by which the registration tells of money are true: AFTER_COMMIT *)
(* of a priced step that succeeded, AGENT_FAILURE and DEPENDENCY_FAILURE of  *)
(* none, the latter of steps that all failed so; an answer was copied from a *)
(* step that succeeded, and nothing ran any more.  The other codes tell       *)
(* nothing of money: an answer too large (INVALID_OUTPUT), a time-out and an  *)
(* abort hide a priced success, a takeover forgets it with the ledger, and a  *)
(* step that was paid and then failed was never counted.                     *)
ResultMatchesLedger ==
  /\ result = "DEPENDENCY_FAILURE_AFTER_COMMIT" => PricedCommitted
  /\ result \in {"AGENT_FAILURE", "DEPENDENCY_FAILURE"} => ~PricedCommitted
  /\ result = "DEPENDENCY_FAILURE" =>
       /\ ledger # <<>>
       /\ \A i \in DOMAIN ledger : ledger[i].code = "DEPENDENCY_FAILURE"
  /\ result \in {"succeeded", "INVALID_OUTPUT"} => Succeeded # {} /\ step = NoStep

(* Within an attempt of the run, every request of a priced step has a key   *)
(* of its own, and keys grow in the order of the steps: no retry, and no    *)
(* second call of the planner, repeats a paid request under its key.        *)
PricedKeysUnique ==
  \A i, j \in DOMAIN requests :
    i < j /\ requests[i].life = requests[j].life
      => requests[i].key.number < requests[j].key.number

(* Once the run has a result it keeps it: a late answer of the planner or   *)
(* of a step changes nothing, and no further paid request leaves.           *)
ResultIsFinal ==
  [][result # Nil => result' = result /\ requests' = requests]_composedVars

(* The successful priced steps of an attempt stay within its budgets, what   *)
(* the registration reports agrees with its ledger, and no paid request of   *)
(* an attempt goes out twice under a key.                                    *)
TaskConsistent ==
  ComposedTypeOK /\ BudgetsKept /\ ResultMatchesLedger /\ PricedKeysUnique
=============================================================================
