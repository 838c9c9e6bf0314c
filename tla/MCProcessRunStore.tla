------------------------- MODULE MCProcessRunStore -------------------------
(***************************************************************************)
(* A small store: two runs, two sessions submitting, two callers.  It is   *)
(* the store with backlog limits, one caller having two keys and one key   *)
(* two different requests; or the store without them, where only the       *)
(* unique index decides between two sessions racing for a caller's key.    *)
(***************************************************************************)
EXTENDS ProcessRunStore, TLC

CONSTANTS r1, r2, a1, a2, c1, c2, k1, k2, f1, f2, e1

OneKeyRequests ==
  {[caller |-> c1, key |-> k1, fingerprint |-> f] : f \in {f1, f2}}
MCRequests ==
  OneKeyRequests \cup {[caller |-> c1, key |-> k2, fingerprint |-> f1],
                      [caller |-> c2, key |-> k1, fingerprint |-> f1]}

MCEndpointOwner == [e \in {e1} |-> c1]

\* Without limits nobody provisions an endpoint, and each outbox row may also
\* be claimed and its lease expire.
Unlimited == INSTANCE ProcessRunStore
  WITH Admission <- FALSE, Requests <- OneKeyRequests,
       PublishBound <- 2

VARIABLE scene

SceneInit ==
  \/ scene = "limited" /\ Init
  \/ scene = "unlimited" /\ Unlimited!Init

SceneNext ==
  \/ scene = "limited" /\ Next /\ UNCHANGED scene
  \/ scene = "unlimited" /\ Unlimited!Next /\ UNCHANGED <<scene, endpoint>>

SceneSpec == SceneInit /\ [][SceneNext]_<<scene, storeVars>>

Symmetry == Permutations(RunId) \cup Permutations(Api)
=============================================================================
