---------------------------- MODULE ReleaseSmoke -----------------------------
(***************************************************************************)
(* The smoke tests a release is judged by, as clients of the gateway.      *)
(*                                                                         *)
(* paid: src/src/release/paid-async-image-smoke.ts accepts one priced run, *)
(* breaks off its own first answer, recovers the run by posting again      *)
(* under the same key, and follows it to the stored picture.               *)
(*                                                                         *)
(* internal: src/src/release/async-internal-smoke.ts submits one run that  *)
(* must succeed and one that must fail (baseline), and, after intake was   *)
(* closed, checks that no run is accepted any more while those two stay    *)
(* readable (rollback).                                                    *)
(*                                                                         *)
(* What they leave behind is evidence.  Readiness, owner isolation and the *)
(* synchronous execution create no run.                                    *)
(***************************************************************************)
EXTENDS ProcessRunApi

\* The requests of the smoke tests are ones the service takes.
ASSUME SmokeAssumption == Request \ Unservable # {}

VARIABLES
  smoke,     \* which of the two is run, if any
  step,      \* where the smoke test is
  first,     \* paid: the run of the interrupted answer; internal: the success run
  second,    \* paid: the run of the replay; internal: the failure run
  seen,      \* internal: runs observed at their expected end
  evidence   \* the evidence written, last first

smokeVars == <<smoke, step, first, second, seen, evidence>>

SmokeInit ==
  /\ smoke \in {"none", "paid", "internal"}
  /\ step = "start"
  /\ first = 0
  /\ second = 0
  /\ seen = {}
  /\ evidence = <<>>

Gate == {"none", "acceptance_recovery", "terminal", "query_recovery", "object_verification"}

\* The recovery fields of the paid evidence that say "true".
Claim == {"initialAcceptanceInterrupted", "acceptanceResponseRecoveryVerified",
          "queryRecoveryVerified"}

Evidence == [event : {"paid", "baseline", "rollback"}, gate : Gate,
             run : Nat, uniqueRuns : {1, 2}, status : Terminal \cup {"unknown"},
             recovery : SUBSET Claim]

Throw == step' = "thrown" /\ UNCHANGED <<first, second, seen, evidence>>

\* The text of both requests is fixed; the smoke caller is authorized.
Body == CHOOSE q \in Request \ Unservable : TRUE

NewKeyPost ==
  /\ keys < MaxKeys
  /\ keys' = keys + 1
  /\ SendPost(keys + 1, Body)

-----------------------------------------------------------------------------
(* The paid smoke                                                          *)

PaidEvidence(gate, run, n, status, recovery) ==
  /\ evidence' = <<[event |-> "paid", gate |-> gate, run |-> run, uniqueRuns |-> n,
                    status |-> status, recovery |-> recovery]>>
  /\ step' = "done"

\* Constants of the code: that the first acceptance was interrupted is printed
\* whatever became of the first POST.
NotRecovered == {"initialAcceptanceInterrupted"}
NotQueried == Claim \ {"queryRecoveryVerified"}

PaidSubmit ==
  /\ step = "start"
  /\ NewKeyPost
  /\ step' = "interrupting"
  /\ UNCHANGED <<serviceVars, faults, first, second, seen, evidence>>

\* The run named by the headers, the body unread; then the same POST again,
\* under the same key, whatever became of the first.
BrokenPaidReplay ==
  /\ step = "interrupting" /\ Answered
  /\ first' = IF answer.code \in {"ACCEPTED", "BODY_LOST"} THEN answer.run ELSE 0
  /\ NewKeyPost
  /\ step' = "replaying"
  /\ UNCHANGED <<serviceVars, faults, second, seen, evidence>>
PaidReplay ==
  /\ step = "interrupting" /\ Answered
  /\ first' = IF answer.code \in {"ACCEPTED", "BODY_LOST"} THEN answer.run ELSE 0
  /\ SendPost(keys, Body)
  /\ step' = "replaying"
  /\ UNCHANGED <<serviceVars, keys, faults, second, seen, evidence>>

PaidReplayed ==
  /\ step = "replaying" /\ answer.code = "ACCEPTED"
  /\ TakeAnswer
  /\ second' = answer.run
  /\ IF first \in {0, answer.run}
       THEN step' = "querying" /\ UNCHANGED evidence
       ELSE PaidEvidence("acceptance_recovery", first, 2, "unknown", NotRecovered)
  /\ UNCHANGED <<serviceVars, keys, faults, first, seen>>

PaidReplayFails ==
  /\ step = "replaying" /\ Answered /\ answer.code # "ACCEPTED"
  /\ TakeAnswer
  /\ IF first = 0 THEN Throw
     ELSE /\ PaidEvidence("acceptance_recovery", first, 1, "unknown", NotRecovered)
          /\ UNCHANGED <<first, second, seen>>
  /\ UNCHANGED <<serviceVars, keys, faults>>

\* The first query is thrown away; waiting ends with a final status or, on a
\* failed query or at the deadline, without one.
PaidGivesUp ==
  /\ step = "querying"
  /\ PaidEvidence("query_recovery", second, 1, "unknown", NotQueried)
  /\ UNCHANGED <<first, second, seen, apiVars>>

\* The stored picture is, or is not, the one the run's output describes.
ObjectGate == {"none", "object_verification"}

PaidTerminal ==
  /\ step = "querying"
  /\ \/ /\ ViewOf(second) = "succeeded"
        /\ \E gate \in ObjectGate : PaidEvidence(gate, second, 1, "succeeded", Claim)
     \/ /\ ViewOf(second) = "failed"
        /\ PaidEvidence("terminal", second, 1, "failed", Claim)
  /\ UNCHANGED <<first, second, seen, apiVars>>

PaidNext ==
  /\ smoke = "paid"
  /\ UNCHANGED smoke
  /\ \/ PaidSubmit \/ PaidReplay \/ PaidReplayed \/ PaidReplayFails
     \/ PaidGivesUp \/ PaidTerminal

-----------------------------------------------------------------------------
(* The internal smoke: baseline                                            *)

\* /healthz or /readyz
NotReady ==
  /\ step = "start"
  /\ Throw
  /\ UNCHANGED apiVars

Submit ==
  /\ step \in {"start", "first_accepted"}
  /\ NewKeyPost
  /\ step' = IF step = "start" THEN "first_posted" ELSE "second_posted"
  /\ UNCHANGED <<serviceVars, faults, first, second, seen, evidence>>

Submitted ==
  /\ step \in {"first_posted", "second_posted"} /\ answer.code = "ACCEPTED"
  /\ TakeAnswer
  /\ IF step = "first_posted"
       THEN step' = "first_accepted" /\ first' = answer.run /\ UNCHANGED second
       ELSE step' = "waiting" /\ second' = answer.run /\ UNCHANGED first
  /\ UNCHANGED <<serviceVars, keys, faults, seen, evidence>>

SubmissionFails ==
  /\ step \in {"first_posted", "second_posted"} /\ Answered /\ answer.code # "ACCEPTED"
  /\ TakeAnswer
  /\ Throw
  /\ UNCHANGED <<serviceVars, keys, faults>>

Expected(r) == IF r = first THEN "succeeded" ELSE "failed"

\* The two runs are awaited side by side.
Observe(r) ==
  /\ step = "waiting" /\ r \in {first, second} \ seen
  /\ ViewOf(r) = Expected(r)
  /\ seen' = seen \cup {r}
  /\ UNCHANGED <<step, first, second, evidence, apiVars>>

\* Any query failing, the wrong end, or the time limit.
WaitFails ==
  /\ step = "waiting" /\ seen # {first, second}
  /\ Throw
  /\ UNCHANGED apiVars

\* Another caller can tell the run from one that is not there, or the
\* synchronous execution does not succeed.
ChecksFail ==
  /\ step = "waiting" /\ seen = {first, second}
  /\ Throw
  /\ UNCHANGED apiVars

Concludes(event, to) ==
  /\ evidence' = <<[event |-> event, gate |-> "none", run |-> first, uniqueRuns |-> 2,
                    status |-> "succeeded", recovery |-> {}]>> \o evidence
  /\ step' = to

Baseline ==
  /\ step = "waiting" /\ seen = {first, second}
  /\ Concludes("baseline", "baselined")
  /\ UNCHANGED <<first, second, seen, apiVars>>

-----------------------------------------------------------------------------
(* The internal smoke: rollback                                            *)

ProbeIntake ==
  /\ step = "baselined"
  /\ NewKeyPost
  /\ step' = "probing"
  /\ UNCHANGED <<serviceVars, faults, first, second, seen, evidence>>

\* The two accepted runs are read again, in the same breath.
BrokenProbeRefused == Answered /\ answer.code # "ACCEPTED"
ProbeRefused == answer.code = "ASYNC_INTAKE_CLOSED"

Rollback ==
  /\ step = "probing" /\ ProbeRefused
  /\ \A r \in {first, second} : ViewOf(r) = Expected(r)
  /\ TakeAnswer
  /\ Concludes("rollback", "done")
  /\ UNCHANGED <<serviceVars, keys, faults, first, second, seen>>

RollbackFails ==
  /\ step = "probing" /\ Answered
  /\ TakeAnswer
  /\ Throw
  /\ UNCHANGED <<serviceVars, keys, faults>>

InternalNext ==
  /\ smoke = "internal"
  /\ UNCHANGED smoke
  /\ \/ NotReady \/ Submit \/ Submitted \/ SubmissionFails
     \/ \E r \in RunId : Observe(r)
     \/ WaitFails \/ ChecksFail \/ Baseline
     \/ ProbeIntake \/ Rollback \/ RollbackFails

SmokeNext == PaidNext \/ InternalNext

-----------------------------------------------------------------------------
SmokeTypeOK ==
  /\ smoke \in {"none", "paid", "internal"}
  /\ step \in {"start", "interrupting", "replaying", "querying", "first_posted",
               "first_accepted", "second_posted", "waiting", "baselined", "probing",
               "done", "thrown"}
  /\ first \in Nat /\ second \in Nat
  /\ seen \subseteq {first, second}
  /\ evidence \in Seq(Evidence)

\* What the recovery fields are worth.  A recovered acceptance: the second POST
\* was answered with the run, and so was the first as far as it was answered;
\* without it the run is the one the first answer named, and the second POST
\* was not accepted.  A recovered query: the run's end was read.
\* "initialAcceptanceInterrupted" is worth nothing by itself: with a recovered
\* acceptance the evidence says the same if the first POST was refused or lost
\* (first = 0), so nothing is claimed for it here.
RecoveryIsTrue(e) ==
  /\ IF "acceptanceResponseRecoveryVerified" \in e.recovery
     THEN second = e.run /\ first \in {0, e.run}
     ELSE first = e.run /\ second = 0
  /\ "queryRecoveryVerified" \in e.recovery <=> e.status # "unknown"

\* The paid smoke names the one run of its key and that run's end, with no
\* second priced run accepted then or later by a POST that was given up; when it
\* ends without evidence at most one run is left behind.  Of the fields on
\* recovery RecoveryIsTrue says which can be relied on, and how far.
PaidEvidenceIsTrue ==
  smoke = "paid" =>
    /\ Len(runs) <= 1
    /\ \A e \in {evidence[i] : i \in DOMAIN evidence} :
           /\ e.uniqueRuns = Len(runs)
           /\ e.run \in RunId
           /\ e.status # "unknown" => runs[e.run].status = e.status
           /\ RecoveryIsTrue(e)

\* The baseline stands for one succeeded and one failed run of their own, and
\* a rollback for an intake that let nothing through: the probe's key has no
\* run, nor will it get one from a POST still on its way.
InternalEvidenceIsTrue ==
  \A e \in {evidence[i] : i \in DOMAIN evidence} :
    /\ e.event = "baseline" => /\ first # second
                               /\ runs[first].status = "succeeded"
                               /\ runs[second].status = "failed"
    /\ e.event = "rollback" => /\ Len(runs) = 2
                               /\ \A m \in wire : m.key # keys
=============================================================================
