-------------------------- MODULE MCDynamicChannel --------------------------
(* DynamicChannel with one address, whose context is removed and succeeded   *)
(* by a second one.  Two threads make three calls: both may choose a server  *)
(* before either call is counted, and the third call asks for more.          *)
EXTENDS DynamicChannel, TLC

=============================================================================
