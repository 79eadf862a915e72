--------------------------- MODULE MCFlowControl ---------------------------
(* FlowControl with quotas that a .cfg cannot write down. *)
EXTENDS FlowControl, TLC

NoQuotas == {}
LimitedOrNot == {-1, 3}

Symmetry == Permutations(Streams)
=============================================================================
