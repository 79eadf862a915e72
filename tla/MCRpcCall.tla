----------------------------- MODULE MCRpcCall -----------------------------
(* RpcCall with two calls, which may share a stream, follow each other on a *)
(* second one after the first was closed, or overlap on both.               *)
EXTENDS RpcCall, TLC

=============================================================================
