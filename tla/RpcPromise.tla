----------------------------- MODULE RpcPromise -----------------------------
(***************************************************************************)
(* What the user of CallMethod may rely on: a call ends at most once, and  *)
(* the result that is reported does not change afterwards.                 *)
(***************************************************************************)
CONSTANTS Calls, Results

VARIABLE state    \* "new", "called", or the result that was reported

PromiseInit == state = [c \in Calls |-> "new"]

Call(c) == state[c] = "new" /\ state' = [state EXCEPT ![c] = "called"]

Report(c) ==
    /\ state[c] = "called"
    /\ \E r \in Results : state' = [state EXCEPT ![c] = r]

PromiseNext == \E c \in Calls : Call(c) \/ Report(c)

PromiseSpec == PromiseInit /\ [][PromiseNext]_state
=============================================================================
