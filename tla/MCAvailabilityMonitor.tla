------------------------ MODULE MCAvailabilityMonitor ------------------------
EXTENDS AvailabilityMonitor

CONSTANTS q1, q2

Bounds == [r \in RoleName |-> CASE r = "retention-cleaner" -> 3
                                [] r = "webhook-worker" -> 1
                                [] OTHER -> 2]

(* The API is looked at from two sides: requests of clients and two        *)
(* signals while nobody watches, or a monitor and failing dependencies     *)
(* with one signal and no client.                                          *)
Scene ==
  role = "api" =>
    IF monitor' = "waiting"
    THEN working' = Dependency
    ELSE /\ closing'["SIGINT"] = "none"
         /\ \A q \in Client : request'[q] = "none"

SceneSpec ==
  MonitorInit /\ [][MonitorNext /\ Scene]_<<roleVars, monitorVars>> /\ MonitorFairness
=============================================================================
