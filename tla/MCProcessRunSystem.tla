------------------------- MODULE MCProcessRunSystem -------------------------
(* Small systems: one or two submissions of one caller, told apart by key. *)
EXTENDS ProcessRunSystem, TLC

CONSTANTS c1, f1

MCRequests == [caller : {c1}, key : Key, fingerprint : {f1}]
MCEndpointOwner == [e \in Endpoint |-> c1]
Symmetry == Permutations(Worker) \cup Permutations(RunId) \cup Permutations(Api)
=============================================================================
