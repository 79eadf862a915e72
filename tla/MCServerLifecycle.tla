------------------------- MODULE MCServerLifecycle -------------------------
(* ServerLifecycle with the objects given as model values. *)
EXTENDS ServerLifecycle, TLC
=============================================================================
