---------------------------- MODULE MCClientStop ----------------------------
(* ClientStop with one call, whose response, timeout and close (by a worker, *)
(* keep alive or Stop()) race each other and the end of the client.          *)
EXTENDS ClientStop, TLC

=============================================================================
