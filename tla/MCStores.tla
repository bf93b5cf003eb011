----------------------------- MODULE MCStores -------------------------------
(* The stores on a small instance. *)
EXTENDS Stores, TLC

CONSTANTS t1, t2, k1, k2, x, y

Interchangeable == Permutations(Threads) \cup Permutations(Keys) \cup Permutations(Values)
=============================================================================
