-------------------------- MODULE MCTimeoutManager --------------------------
(* TimeoutManager with the events given as model values. *)
EXTENDS TimeoutManager, TLC
=============================================================================
