---------------------------- MODULE RunLifecycle ----------------------------
(***************************************************************************)
(* What the service promises its callers about process runs: a submission  *)
(* (a caller and its idempotency key) owns at most one run at a time; the  *)
(* run is queued, executed any number of times, and finishes once, with    *)
(* one notice that tells its outcome.  It is forgotten only when finished. *)
(* How runs are stored, scheduled and executed is none of its business.    *)
(***************************************************************************)
EXTENDS FiniteSets

CONSTANTS RunId, Submission

VARIABLES
  phase,   \* per run: "absent", "queued", "running", an outcome, "deleted"
  notice,  \* per run: the outcomes announced
  owner    \* per submission: the runs it owns

vars == <<phase, notice, owner>>

Outcomes == {"succeeded", "failed"}

Init ==
  /\ phase = [r \in RunId |-> "absent"]
  /\ notice = [r \in RunId |-> {}]
  /\ owner = [s \in Submission |-> {}]

Move(r, from, to) ==
  /\ phase[r] = from
  /\ phase' = [phase EXCEPT ![r] = to]

Submit(s, r) ==
  /\ owner[s] = {}
  /\ Move(r, "absent", "queued")
  /\ owner' = [owner EXCEPT ![s] = {r}]
  /\ UNCHANGED notice

Start(r)   == Move(r, "queued", "running") /\ UNCHANGED <<notice, owner>>
Requeue(r) == Move(r, "running", "queued") /\ UNCHANGED <<notice, owner>>

Finish(r, outcome) ==
  /\ Move(r, "running", outcome)
  /\ notice' = [notice EXCEPT ![r] = {outcome}]
  /\ UNCHANGED owner

Forget(r) ==
  /\ \E outcome \in Outcomes : Move(r, outcome, "deleted")
  /\ notice' = [notice EXCEPT ![r] = {}]
  /\ owner' = [s \in Submission |-> owner[s] \ {r}]

Next ==
  \E r \in RunId :
    \/ \E s \in Submission : Submit(s, r)
    \/ Start(r) \/ Requeue(r) \/ Forget(r)
    \/ \E outcome \in Outcomes : Finish(r, outcome)

Spec == Init /\ [][Next]_vars
=============================================================================
