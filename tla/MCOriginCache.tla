---------------------------- MODULE MCOriginCache ----------------------------
(* OriginCache checked with one waiter per flight: with three requests and  *)
(* two keys for the coalescing; with four requests, three keys and a small  *)
(* store, symmetric in both, for what is stored and shared.                 *)
EXTENDS OriginCache

CONSTANTS q1, q2, q3, q4, k1, k2, k3

MCRequests == {q1, q2, q3}
MCKeys == {k1, k2}
MCSizes == {1}

StoreRequests == {q1, q2, q3, q4}
StoreKeys == {k1, k2, k3}
StoreSizes == {1, 2}
StoreSymmetry == Permutations(StoreRequests) \cup Permutations(StoreKeys)
=============================================================================
