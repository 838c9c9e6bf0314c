------------------------- MODULE MCAgentTurnSystem -------------------------
(* The PostgreSQL workers and the tool ledger: one conversation of two       *)
(* turns, each attempted twice, each with a call that may be priced or free; *)
(* one session, so acceptance itself is serial.  Or the service over the     *)
(* in-memory adapters: one caller with two keys and two requests at a time.  *)
(* Or a reader of a conversation of at most three turns, two to a page (with *)
(* its registration; three without), while others continue and delete it.    *)
(* The parts share no state.                                                 *)
EXTENDS AgentTurnSystem, AgentService, ConversationPages, TLC

CONSTANTS c1, t1, t2, s1, k1, k2, o1, i1

MCKeyOwner == [k \in Key |-> o1]
MCToolCall == [effect : SideEffect, input : Input]

Text(conv, after) == [op |-> IF conv = 0 THEN "open" ELSE "continue",
                      conv |-> conv, after |-> after, image |-> FALSE]
Image(conv, after) == [Text(conv, after) EXCEPT !.image = TRUE]
MCSent == {Image(0, 0), Text(1, 1)}

Symmetry == Permutations(TurnId) \cup Permutations(Key)
            \cup Permutations(ServiceKey) \cup Permutations(Handler)

VARIABLE scene

SceneInit ==
  /\ scene \in {"workers", "service", "reader"}
  /\ SystemInit /\ AgentServiceInit /\ PageInit

SceneNext ==
  \/ scene = "workers" /\ SystemNext /\ UNCHANGED <<scene, serviceVars, pageVars>>
  \/ scene = "service" /\ AgentServiceNext /\ UNCHANGED <<scene, systemVars, pageVars>>
  \/ scene = "reader" /\ PageNext /\ UNCHANGED <<scene, systemVars, serviceVars>>

SceneSpec ==
  SceneInit /\ [][SceneNext]_<<scene, systemVars, serviceVars, pageVars>>

(* A caller of the service is told the truth, once per key (ServiceConsistent, *)
(* app/local-agent.ts and agent-conversations/index.ts), and one that reads a  *)
(* conversation page by page is shown a history: nothing left out, nothing     *)
(* taken back, nothing continued unseen (PagesAreWhole, store.postgres.ts).    *)
CallersSeeTheTruth == ServiceConsistent /\ PagesAreWhole
=============================================================================
