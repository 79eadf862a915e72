----------------------------- MODULE MCReadPath -----------------------------
(* ReadPath with a binary head of 3 bytes and HTTP heads of 3 or 5. *)
EXTENDS ReadPath, TLC

CONSTANT Http

KindsOfRequest == {Binary, Http}
Heads == (Binary :> {3}) @@ (Http :> {3, 5})
=============================================================================
