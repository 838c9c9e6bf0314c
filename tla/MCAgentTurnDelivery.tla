------------------------ MODULE MCAgentTurnDelivery ------------------------
(***************************************************************************)
(* AgentTurnDelivery for TLC: two turns of two conversations.              *)
(***************************************************************************)
EXTENDS AgentTurnDelivery

CONSTANTS c1, c2, t1, t2, k1, k2, o1, i1, w1, w2

MCKeyOwner == [k \in Key |-> CHOOSE o \in Owner : TRUE]
MCAcceptedTurn ==
  [k \in Key |-> IF k = k1 THEN [conversation |-> c1, turn |-> t1]
                 ELSE [conversation |-> c2, turn |-> t2]]
=============================================================================
