----------------------- MODULE MCAgentConversationStore -----------------------
(* One owner with three keys, two conversations, three turns, two sessions:   *)
(* two continuations and a third conversation's opening may all race.         *)
EXTENDS AgentConversationStore, TLC

CONSTANTS c1, c2, t1, t2, t3, s1, s2, k1, k2, k3, o1, i1

MCKeyOwner == [k \in Key |-> o1]
Symmetry == Permutations(ConversationId) \cup Permutations(TurnId)
            \cup Permutations(Session) \cup Permutations(Key)
=============================================================================
