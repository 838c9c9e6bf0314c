-------------------------- MODULE ProcessRunClients --------------------------
(***************************************************************************)
(* A client of the Process Run interface together with the service and the *)
(* network: the console's tab or one of the release's smoke tests.  They   *)
(* are different callers, and a caller's runs and keys are its own, so one *)
(* of them at a time is all there is to see.                               *)
(***************************************************************************)
EXTENDS ConsoleClient, ReleaseSmoke

clientVars == <<apiVars, consoleVars, smokeVars>>

\* The smoke's own caller is known to the gateway.
ClientsInit ==
  /\ ApiInit
  /\ ConsoleInit
  /\ SmokeInit
  /\ smoke # "none" => authorized

ServiceStep == ApiNext /\ UNCHANGED <<consoleVars, smokeVars>>

\* Retention works in days, a smoke test takes minutes.
RetentionStep ==
  /\ smoke = "none"
  /\ \E r \in RunId : ExpireResult(r) \/ DeleteRun(r)
  /\ UNCHANGED <<consoleVars, smokeVars>>

ConsoleStep == smoke = "none" /\ ConsoleNext /\ UNCHANGED smokeVars
SmokeStep == SmokeNext /\ UNCHANGED consoleVars

ClientsNext == ServiceStep \/ RetentionStep \/ ConsoleStep \/ SmokeStep

ClientsSpec == ClientsInit /\ [][ClientsNext]_clientVars

-----------------------------------------------------------------------------
ClientsTypeOK ==
  /\ ApiTypeOK
  /\ ConsoleTypeOK
  /\ SmokeTypeOK

(* What the release gate's two smoke tests report of runs, of their ends and  *)
(* of a closed intake is what the service did; of the paid smoke's fields on  *)
(* recovery, what RecoveryIsTrue names.                                       *)
EvidenceIsTrue == ClientsTypeOK /\ PaidEvidenceIsTrue /\ InternalEvidenceIsTrue
=============================================================================
