------------------------- MODULE MCWebhookDelivery -------------------------
(* Two deliveries of one event with all that can happen to them; replays of  *)
(* an event and of its replays, two at a time, while nothing else goes wrong *)
(* and a delivery gets a final answer at once; or the life of one endpoint:  *)
(* its operators, its secrets, the posts to it.                              *)
EXTENDS WebhookDelivery, WebhookEndpoints, TLC

MCRetryAfter == {0, 3}
Symmetry == Permutations(Worker) \cup Permutations(Replayer)

\* Bound: deliveries of the first scene.
DeliveryBound == 2

Open == {r \in Replayer : replaying[r].phase # "idle"}
Created == {d \in Delivery : delivery[d].status # "absent"}

\* Ids are random; which is given first makes no difference.
InTurn == \A d \in Created' : d <= Cardinality(Created')

\* Here nothing comes between the statements of a replay, and it begins while
\* the relay, which reads no row that a replay writes, has nothing in hand.
FewDeliveries ==
  /\ Cardinality(Created') <= DeliveryBound
  /\ Cardinality(Open') <= 1 /\ (Open # {} => replaying' # replaying)
  /\ (Open' # {} => \A p \in Relay : relay[p].phase = "idle")

ManyReplays ==
  /\ faults' = 0
  /\ Cardinality({w \in Worker : worker'[w].phase # "idle"}
                   \cup {p \in Relay : relay'[p].phase # "idle"}) <= 1
  /\ \A w \in Worker : worker'[w].response \notin {"unavailable", "gone"}
  /\ \A d \in Delivery :
       /\ job[d].state = "completed" => job'[d] = job[d]
       /\ \A k \in DOMAIN messages'[d] : messages'[d][k].state # "overdue"

VARIABLE scene

SceneInit ==
  /\ scene \in {"deliveries", "replays", "endpoint"}
  /\ Init /\ EndpointInit

SceneNext ==
  \/ scene = "deliveries" /\ Next /\ InTurn /\ FewDeliveries /\ UNCHANGED <<scene, hookVars>>
  \/ scene = "replays" /\ Next /\ InTurn /\ ManyReplays /\ UNCHANGED <<scene, hookVars>>
  \/ scene = "endpoint" /\ EndpointNext /\ UNCHANGED <<scene, vars>>

SceneSpec == SceneInit /\ [][SceneNext]_<<scene, vars, hookVars>>
=============================================================================
