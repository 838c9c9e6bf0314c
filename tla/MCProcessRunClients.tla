------------------------- MODULE MCProcessRunClients -------------------------
(* The clients of the HTTP API: a console tab, the paid smoke run and the    *)
(* internal one; or the recovery commands of two operators and the gate that *)
(* relies on their audit.  The two parts share no state.                     *)
EXTENDS ProcessRunClients, ReleaseReadiness, TLC

CONSTANTS qa, qb, p1, p2, x1

Bodies == {qa, qb}
BadBodies == {qb}

(* The recovery of the release, and another's that is resumed half-way.      *)
Line(asOf, after) == [actor |-> x1, mode |-> "all", dryRun |-> FALSE,
                      asOf |-> asOf, cursor |-> after]
Lines == {Line(2, 0), Line(1, 1)}

VARIABLE scene

SceneInit ==
  /\ scene \in {"clients", "gate"}
  /\ ClientsInit /\ ReadinessInit
  /\ (scene = "gate" => smoke = "internal")

SceneNext ==
  \/ scene = "clients" /\ ClientsNext /\ UNCHANGED <<scene, readyVars>>
  \/ scene = "gate" /\ ReadinessNext /\ UNCHANGED <<scene, clientVars>>

SceneSpec == SceneInit /\ [][SceneNext]_<<scene, clientVars, readyVars>>
=============================================================================
