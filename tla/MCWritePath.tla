----------------------------- MODULE MCWritePath -----------------------------
(* WritePath with memory for eight blocks. *)
EXTENDS WritePath

EightBlocks == 1 .. 8
=============================================================================
