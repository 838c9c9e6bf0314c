-------------------------- MODULE MCRunObservation --------------------------
(* One asynchronous run or two synchronous ones, observed; or one recovery;  *)
(* or the sweeps of one retention cleaner.                                   *)
EXTENDS RunOperations, TLC

(* Runs with an activity: 1, whose entries are appended to files, and 5 in   *)
(* the database, where writes overtake one another; without: the others.     *)
Asyncs == {1, 4}
Syncs == {2, 3, 5}
Scenes == {{1}, {2, 3}, {4}, {5}}
Bounds == [r \in 1..5 |-> IF r \in {1, 5} THEN 1 ELSE 0]

(* The initial states looked at: one archive for run 1 and in the scenes     *)
(* that are not about it, and a second run that recovery may find.           *)
SmallInit ==
  /\ SceneInit
  /\ (scene # "observation" \/ present = {1} => archive = "file")
  /\ (scene # "observation" => present = {1})
  /\ jobs[2] \in {"missing", "runnable"}
SmallSpec == SmallInit /\ [][SceneNext]_sceneVars
=============================================================================
