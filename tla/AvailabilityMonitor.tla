-------------------------- MODULE AvailabilityMonitor --------------------------
(***************************************************************************)
(* The availability monitor (src/src/availability,                         *)
(* src/src/app/availability-monitor.ts): one run probes a role's readiness *)
(* over HTTP and Redis itself, both at once, each within a time limit,     *)
(* while the role starts and stops and the dependencies come and go.  The  *)
(* probes make a report; what is not available is sent to the team, and    *)
(* the exit code of the process tells the scheduler.                       *)
(***************************************************************************)
EXTENDS RuntimeRoles

VARIABLES
  monitor,    \* "waiting", "probing", "reported" or "done"
  probe,      \* [probe -> where it is, or its status]
  redisState, \* what INFO tells of the Redis server
  alarm,      \* the notification
  code,       \* the monitor's exit code
  seen        \* what has been true at some moment since the probing began

monitorVars == <<monitor, probe, redisState, alarm, code, seen>>

Status == {"available", "degraded", "unavailable"}

MonitorInit ==
  /\ RolesInit
  /\ monitor = "waiting"
  /\ probe = [role |-> "none", redis |-> "none"]
  /\ redisState \in {"safe", "unsafe", "incomplete"}
  /\ role \notin Watched => redisState = "safe"
  /\ alarm = "none"
  /\ code = -1
  /\ seen = {}

StartProbing ==
  /\ role \in Watched
  /\ monitor = "waiting"
  /\ monitor' = "probing"
  /\ probe' = [role |-> "asking", redis |-> "asking"]
  /\ UNCHANGED <<roleVars, redisState, alarm, code>>

(* The request is sent; nobody listening is an answer too.                 *)
AskRole ==
  /\ probe.role = "asking"
  /\ probe' = [probe EXCEPT !.role = "asked"]
  /\ ReadinessAsked
  /\ UNCHANGED <<monitor, redisState, alarm, code>>

BrokenRoleStatus == IF request["probe"] # "none" THEN "available" ELSE "unavailable"

(* 200 and the expected role.                                              *)
RoleStatus == IF request["probe"] = "ready" THEN "available" ELSE "unavailable"

(* The answer, the time limit, or a connection that fails.                 *)
RoleAnswers ==
  /\ probe.role \in {"asking", "asked"}
  /\ probe' = [probe EXCEPT !.role = RoleStatus]
  /\ UNCHANGED <<roleVars, monitor, redisState, alarm, code>>

(* PING first, then the five sections of INFO.                             *)
PingRedis ==
  /\ probe.redis = "asking"
  /\ "redis" \in working
  /\ probe' = [probe EXCEPT !.redis = "asked"]
  /\ UNCHANGED <<roleVars, monitor, redisState, alarm, code>>

BrokenRedisStatus == "available"

RedisStatus == IF redisState = "safe" THEN "available" ELSE "degraded"

RedisAnswers ==
  /\ \/ /\ probe.redis = "asked"
        /\ "redis" \in working
        /\ probe' = [probe EXCEPT !.redis = RedisStatus]
     \/ /\ probe.redis \in {"asking", "asked"}
        /\ probe' = [probe EXCEPT !.redis = "unavailable"]
  /\ UNCHANGED <<roleVars, monitor, redisState, alarm, code>>

(* The last save fails, or the configuration is changed.                   *)
RedisChanges ==
  /\ monitor = "probing"
  /\ redisState = "safe"
  /\ Fault
  /\ redisState' = "unsafe"
  /\ UNCHANGED <<role, life, exitCode, server, closing, part, loop, sweep, job, held,
                 request, checks, working, monitor, probe, alarm, code>>

BrokenAggregate ==
  IF "available" \in {probe.role, probe.redis} THEN "available" ELSE "unavailable"

Aggregate ==
  LET statuses == {probe.role, probe.redis}
  IN  IF "unavailable" \in statuses THEN "unavailable"
      ELSE IF "degraded" \in statuses THEN "degraded" ELSE "available"

Report ==
  /\ monitor = "probing"
  /\ probe.role \in Status /\ probe.redis \in Status
  /\ monitor' = "reported"
  /\ UNCHANGED <<roleVars, probe, redisState, alarm, code>>

(* Nothing is sent about what is available.                                *)
Notify ==
  /\ monitor = "reported"
  /\ alarm = "none"
  /\ IF Aggregate = "available" THEN alarm' = "skipped"
                                ELSE alarm' \in {"succeeded", "failed"}
  /\ UNCHANGED <<roleVars, monitor, probe, redisState, code>>

Conclude ==
  /\ monitor = "reported"
  /\ alarm # "none"
  /\ monitor' = "done"
  /\ code' = IF Aggregate # "available" \/ alarm = "failed" THEN 1 ELSE 0
  /\ probe' = [role |-> "none", redis |-> "none"]
  /\ UNCHANGED <<roleVars, redisState, alarm>>

MonitorStep ==
  \/ StartProbing
  \/ AskRole
  \/ RoleAnswers
  \/ PingRedis
  \/ RedisAnswers
  \/ RedisChanges
  \/ Report
  \/ Notify
  \/ Conclude

(* The process is there, each of its runtimes has started, and it listens. *)
Serving ==
  /\ life = "serving" /\ server = "open"
  /\ \A p \in PartsOf(role) : part[p].phase # "built"

(* What is true in this state.                                             *)
Facts ==
  {d \in Dependency : d \in working}
  \cup (IF Serving THEN {"serving"} ELSE {})
  \cup (IF redisState = "safe" /\ "redis" \in working THEN {"safe"} ELSE {})

Witness ==
  seen' = CASE monitor' = "probing" -> seen \cup Facts'
            [] code' = 1 -> {}
            [] OTHER -> seen

RoleStep(A) == A /\ UNCHANGED <<monitor, probe, redisState, alarm, code>>

MonitorNext == (MonitorStep \/ RoleStep(RolesNext)) /\ Witness

(* Every pass, job and request comes to an end: their calls return or fail *)
(* with the connection, and the closing goes on.                           *)
MonitorFairness ==
  /\ WF_<<roleVars, monitorVars>>(RoleStep(Ends) /\ Witness)
  /\ WF_<<roleVars, monitorVars>>(RoleStep(Closes) /\ Witness)

MonitorSpec ==
  MonitorInit /\ [][MonitorNext]_<<roleVars, monitorVars>> /\ MonitorFairness

-----------------------------------------------------------------------------
MonitorTypeOK ==
  /\ RolesTypeOK
  /\ monitor \in {"waiting", "probing", "reported", "done"}
  /\ probe.role \in Status \cup {"none", "asking", "asked"}
  /\ probe.redis \in Status \cup {"none", "asking", "asked"}
  /\ code \in {-1, 0, 1}

(***************************************************************************)
(* A monitor that exits with 0 has seen it: between its start and its      *)
(* report the role was serving with all of its runtimes started, every     *)
(* dependency its readiness stands for answered, and Redis was safe.  A    *)
(* probe that times out, a role that fails to start or stops while it is   *)
(* asked, or a check still pending never counts as available               *)
(* (availability/monitor.ts, app/role.ts:101,132-154).                     *)
(***************************************************************************)
AvailableWasSeen ==
  code = 0 => {"serving", "safe"} \cup Needs(role) \subseteq seen
=============================================================================
