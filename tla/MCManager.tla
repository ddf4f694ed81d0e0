----------------------------- MODULE MCManager -----------------------------
(* KueueManager on a small instance. *)
EXTENDS KueueManager, TLC

Symmetry == Permutations(Threads) \cup Permutations(Ids) \cup Permutations(Queues)
=============================================================================
