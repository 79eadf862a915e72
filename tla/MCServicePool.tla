--------------------------- MODULE MCServicePool ---------------------------
(* ServicePool with symmetric workers and names that share one element of   *)
(* the cache.                                                               *)
EXTENDS ServicePool, TLC

OneBucket == [s \in Services |-> 0]

Symmetry == Permutations(Workers)
=============================================================================
