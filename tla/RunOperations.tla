---------------------------- MODULE RunOperations ----------------------------
(***************************************************************************)
(* What operators run beside the service, one scene at a time: what is     *)
(* kept about finished runs (RunObservation), one recovery of the queue    *)
(* (QueueRecovery) or the sweeps of one retention cleaner                  *)
(* (RetentionSweep).  The parts share no state; those a scene leaves out   *)
(* stay in one initial state.                                              *)
(***************************************************************************)
EXTENDS RunObservation, QueueRecovery, RetentionSweep

VARIABLE scene
sceneVars == <<scene, obsVars, recoveryVars, sweepVars>>

SceneInit ==
  /\ scene \in {"observation", "recovery", "retention"}
  /\ ObservationInit /\ RecoveryInit /\ SweepInit
  /\ (scene # "recovery" => runStatus = [r \in RunNumber |-> "absent"])
  /\ (scene # "retention" => /\ table = "runs" /\ limit = Min(SweepLimits)
                             /\ \A r \in Id : rows[r].status = "active")

SceneNext ==
  \/ scene = "observation" /\ ObservationNext /\ UNCHANGED <<scene, recoveryVars, sweepVars>>
  \/ scene = "recovery" /\ RecoveryNext /\ UNCHANGED <<scene, obsVars, sweepVars>>
  \/ scene = "retention" /\ SweepNext /\ UNCHANGED <<scene, obsVars, recoveryVars>>

SceneSpec == SceneInit /\ [][SceneNext]_sceneVars

(* Neither a recovery nor a sweep that says it is complete has passed over   *)
(* work (process-runs/recovery/index.ts:153-270, retention/index.ts:62-93).  *)
NothingIsPassedOver == NothingLeftBehind /\ NothingDueIsSkipped

(* The audit rows of recoveries and of sweeps tell what was done             *)
(* (process-runs/recovery/postgres.ts:41-268, retention/postgres.ts:63-188). *)
AuditsTellWhatWasDone == AuditTellsWhatWasDone /\ CleanupAuditTells
=============================================================================
