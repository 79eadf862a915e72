-------------------------- MODULE MCMessageStream --------------------------
(* MessageStream with symmetric workers and messages. *)
EXTENDS MessageStream, TLC

Symmetry == Permutations(Workers) \cup Permutations(Messages)
=============================================================================
