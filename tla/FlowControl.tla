---------------------------- MODULE FlowControl ----------------------------
(***************************************************************************)
(* The throughput limit of one direction: the quota pool of FlowController *)
(* (flow_controller.h), the streams that ask it for quota before each      *)
(* operation, the maintenance timer that recharges it once per time slice  *)
(* and triggers the streams that were refused, and ResetOptions.           *)
(*                                                                         *)
(* The pool is changed by compare-and-swap loops and by the plain stores   *)
(* of reset_*_quota; an access to _no_limit or _quota is one action.       *)
(* A stream is reduced to its quota token and to the one thread that holds *)
(* its send (or receive) token, see MessageStream.                         *)
(***************************************************************************)
EXTENDS Integers, Sequences, FiniteSets

CONSTANTS
    Streams,     \* the connections that share the pool
    MaxRequest,  \* the size of the largest message or buffer
    Quotas,      \* the values ResetOptions may choose, -1 for no limit
    StartQuota,  \* the slice quota at Start()
    Role,        \* "client" or "server"
    MaxSlices,   \* bound: the slices a window of the history is followed for
    MaxResets    \* bound: calls of ResetOptions

ASSUME StreamAssumption == IsFiniteSet(Streams)
ASSUME RequestAssumption == MaxRequest \in Nat \ {0}
ASSUME QuotaAssumption == Quotas \subseteq Nat \cup {-1} /\ StartQuota \in Nat \cup {-1}
ASSUME FlowRoleAssumption == Role \in {"client", "server"}
ASSUME FlowBoundAssumption == MaxSlices \in Nat /\ MaxResets \in Nat

VARIABLES
    noLimit,     \* _write_no_limit
    quota,       \* _write_quota
    sliceQuota,  \* _slice_quota_out
    token,       \* _write_quota_token of each stream
    pc,          \* the step of the thread that holds the stream's token
    amount,      \* the quota it asks for
    old,         \* old_quota in its acquire loop, then the value returned
    tpc,         \* the step of the maintenance timer
    share,       \* the argument of its recharge_write_quota
    told,        \* old_quota in its recharge loop
    unread,      \* the streams it still has to look at
    list,        \* trigger_list
    turn,        \* the stream it is triggering, if any
    resetting,   \* the step of ResetOptions
    resets,      \* how often it was called
    granted,     \* history: quota granted in the current window
    budget,      \* history: one slice quota and the recharges in the window
    slices,      \* history: the recharges in the window
    refused      \* history: the tokens handed out since the last recharge

poolVars == <<noLimit, quota>>
streamVars == <<token, pc, amount, old>>
timerVars == <<tpc, share, told, unread, list, turn>>
resetVars == <<sliceQuota, resetting, resets>>
historyVars == <<granted, budget, slices, refused>>
vars == <<poolVars, streamVars, timerVars, resetVars, historyVars>>

Larger(a, b) == IF a > b THEN a ELSE b

\* Mutant: a refused request is charged in full.
Acquired_Full(pool, request) == pool - request

\* Mutant: a refused request costs nothing.
Acquired_Free(pool, request) == IF pool > 0 THEN pool - request ELSE pool

\* The new value in acquire_write_quota: the request that exhausts the pool
\* is granted in full, a refused one costs 1 and makes the next token smaller.
Acquired(pool, request) == IF pool > 0 THEN pool - request ELSE pool - 1

\* The new value in recharge_write_quota: what is left over is lost, a debt
\* is carried over.
Recharged(pool, recharge) == IF pool > 0 THEN recharge ELSE pool + recharge

Init ==
    /\ noLimit = (StartQuota = -1) /\ quota = StartQuota /\ sliceQuota = StartQuota
    /\ token = [s \in Streams |-> 1]
    /\ pc = [s \in Streams |-> "idle"]
    /\ amount = [s \in Streams |-> 1]
    /\ old = [s \in Streams |-> 0]
    /\ tpc = "idle" /\ share = 0 /\ told = 0 /\ unread = {} /\ list = {}
    /\ turn = {}
    /\ resetting = "no" /\ resets = 0
    /\ granted = 0 /\ budget = Larger(StartQuota, 0) /\ slices = 0 /\ refused = <<>>

----------------------------------------------------------------------------
(* A stream asks for quota *)

Goto(s, from, to) == pc[s] = from /\ pc' = [pc EXCEPT ![s] = to]

\* try_start_send: the stream has its quota token, is given its send token and
\* has a message.
Begin(s) ==
    /\ token[s] > 0
    /\ Goto(s, "idle", "acquire")
    /\ \E n \in 1 .. MaxRequest : amount' = [amount EXCEPT ![s] = n]
    /\ UNCHANGED <<token, old>>

TryStartSend(s) == Begin(s) /\ UNCHANGED <<poolVars, timerVars, resetVars, historyVars>>

\* acquire_write_quota: the check of _write_no_limit and the first read.
AcquireRead(s) ==
    /\ \/ noLimit /\ Goto(s, "acquire", "store") /\ old' = [old EXCEPT ![s] = 1]
       \/ ~noLimit /\ Goto(s, "acquire", "swap") /\ old' = [old EXCEPT ![s] = quota]
    /\ UNCHANGED <<token, amount, poolVars, timerVars, resetVars, historyVars>>

\* Mutant: a plain store instead of the compare and swap.
AcquireSwap_Store(s) ==
    /\ Goto(s, "swap", "store")
    /\ quota' = Acquired(old[s], amount[s])
    /\ \/ old[s] > 0 /\ granted' = granted + amount[s] /\ UNCHANGED refused
       \/ old[s] <= 0 /\ refused' = Append(refused, old[s]) /\ UNCHANGED granted
    /\ UNCHANGED <<noLimit, token, amount, old, timerVars, resetVars, budget, slices>>

\* The compare and swap of the acquire loop; when it fails the pool is read
\* again, and _write_no_limit is not.
AcquireSwap(s) ==
    /\ \/ /\ quota # old[s]
          /\ Goto(s, "swap", "swap")
          /\ old' = [old EXCEPT ![s] = quota]
          /\ UNCHANGED <<quota, granted, refused>>
       \/ /\ quota = old[s]
          /\ Goto(s, "swap", "store")
          /\ quota' = Acquired(old[s], amount[s])
          /\ \/ old[s] > 0 /\ granted' = granted + amount[s] /\ UNCHANGED refused
             \/ old[s] <= 0 /\ refused' = Append(refused, old[s]) /\ UNCHANGED granted
          /\ UNCHANGED old
    /\ UNCHANGED <<noLimit, token, amount, timerVars, resetVars, budget, slices>>

\* The timer's call of trigger_send for stream s, if there is one, returns.
TriggerReturns(s) ==
    /\ IF tpc = "wait" /\ s \in turn THEN tpc' = "collect" /\ turn' = {} ELSE UNCHANGED <<tpc, turn>>
    /\ UNCHANGED <<share, told, unread, list>>

\* The value returned becomes the quota token; if it is > 0 the operation is
\* started and keeps the stream's send token.
StoreToken(s) ==
    /\ token' = [token EXCEPT ![s] = old[s]]
    /\ \/ old[s] > 0 /\ Goto(s, "store", "busy") /\ TriggerReturns(s)
       \/ old[s] <= 0 /\ Goto(s, "store", "refused") /\ UNCHANGED timerVars
    /\ amount' = [amount EXCEPT ![s] = 1] /\ old' = [old EXCEPT ![s] = 0]
    /\ UNCHANGED <<poolVars, resetVars, historyVars>>

\* The send token is released: after a refusal, or when the operation ends.
Release(s) ==
    /\ \/ Goto(s, "refused", "idle") /\ TriggerReturns(s)
       \/ Goto(s, "busy", "idle") /\ UNCHANGED timerVars
    /\ UNCHANGED <<token, amount, old, poolVars, resetVars, historyVars>>

StreamStep(s) ==
    AcquireRead(s) \/ AcquireSwap(s) \/ StoreToken(s) \/ Release(s)

----------------------------------------------------------------------------
(* TimerMaintain, once per slice *)

TimerGoto(from, to) == tpc = from /\ tpc' = to

\* Without a limit the flow control part is skipped.
StartSlice ==
    /\ \/ sliceQuota # -1 /\ TimerGoto("idle", "recharge")
       \/ sliceQuota = -1 /\ TimerGoto("idle", "idle")
    /\ UNCHANGED <<share, told, unread, list, turn, poolVars, streamVars, resetVars, historyVars>>

\* recharge_write_quota: the argument, the check and the first read.
RechargeRead ==
    /\ \/ /\ noLimit
          /\ TimerGoto("recharge", "collect")
          /\ unread' = Streams
          /\ UNCHANGED <<share, told>>
       \/ /\ ~noLimit
          /\ TimerGoto("recharge", "swap")
          /\ share' = sliceQuota /\ told' = quota
          /\ UNCHANGED unread
    /\ UNCHANGED <<list, turn, poolVars, streamVars, resetVars, historyVars>>

\* The history: a new window may begin with each recharge.
Recharge ==
    /\ refused' = <<>>
    /\ \/ /\ slices < MaxSlices
          /\ slices' = slices + 1 /\ budget' = budget + Larger(share, 0)
          /\ UNCHANGED granted
       \/ slices' = 0 /\ granted' = 0 /\ budget' = Larger(share, 0)

\* The compare and swap of the recharge loop.
RechargeSwap ==
    /\ \/ /\ quota # told
          /\ TimerGoto("swap", "swap")
          /\ told' = quota
          /\ UNCHANGED <<quota, share, unread, historyVars>>
       \/ /\ quota = told
          /\ TimerGoto("swap", "collect")
          /\ quota' = Recharged(told, share)
          /\ unread' = Streams
          /\ Recharge
          /\ told' = 0 /\ share' = 0
    /\ UNCHANGED <<noLimit, list, turn, streamVars, resetVars>>

\* Collect the streams whose token is <= 0, looking at one after the other.
Collect(s) ==
    /\ TimerGoto("collect", "collect")
    /\ s \in unread
    /\ unread' = unread \ {s}
    /\ list' = IF token[s] <= 0 THEN list \cup {[stream |-> s, token |-> token[s]]} ELSE list
    /\ UNCHANGED <<share, told, turn, poolVars, streamVars, resetVars, historyVars>>

\* Mutant: one stream is triggered in each slice.
Trigger_First ==
    /\ TimerGoto("collect", "try")
    /\ unread = {}
    /\ \E item \in list :
          /\ \A other \in list : other.token <= item.token
          /\ list' = {}
          /\ turn' = {item.stream}
          /\ token' = [token EXCEPT ![item.stream] = 1]
    /\ UNCHANGED <<share, told, unread, pc, amount, old, poolVars, resetVars, historyVars>>

\* trigger_send of the stream whose token is closest to zero: store the token.
Trigger ==
    /\ TimerGoto("collect", "try")
    /\ unread = {}
    /\ \E item \in list :
          /\ \A other \in list : other.token <= item.token
          /\ list' = list \ {item}
          /\ turn' = {item.stream}
          /\ token' = [token EXCEPT ![item.stream] = 1]
    /\ UNCHANGED <<share, told, unread, pc, amount, old, poolVars, resetVars, historyVars>>

\* trigger_send: try_start_send, on the timer's thread.  It returns at once if
\* another thread holds the send token or has stored a new quota token, or if
\* there is nothing to send.
TimerTrySend ==
    /\ \/ (\E s \in turn : Begin(s)) /\ TimerGoto("try", "wait") /\ UNCHANGED turn
       \/ TimerGoto("try", "collect") /\ turn' = {} /\ UNCHANGED streamVars
    /\ UNCHANGED <<share, told, unread, list, poolVars, resetVars, historyVars>>

EndSlice ==
    /\ TimerGoto("collect", "idle")
    /\ unread = {} /\ list = {}
    /\ UNCHANGED <<share, told, unread, list, turn, poolVars, streamVars, resetVars, historyVars>>

TimerStep ==
    \/ StartSlice \/ RechargeRead \/ RechargeSwap
    \/ \E s \in Streams : Collect(s)
    \/ Trigger \/ TimerTrySend \/ EndSlice

----------------------------------------------------------------------------
(* ResetOptions *)

\* Store the new slice quota; only the server goes on to reset the pool.
ResetOptions ==
    /\ resetting = "no" /\ resets < MaxResets
    /\ resets' = resets + 1
    /\ \E q \in Quotas \ {sliceQuota} : sliceQuota' = q
    /\ resetting' = IF Role = "server" THEN "limit" ELSE "no"
    /\ UNCHANGED <<poolVars, streamVars, timerVars, historyVars>>

\* reset_write_quota: the store of the flag.
ResetLimit ==
    /\ resetting = "limit" /\ resetting' = "quota"
    /\ noLimit' = (sliceQuota = -1)
    /\ UNCHANGED <<quota, sliceQuota, resets, streamVars, timerVars, historyVars>>

\* reset_write_quota: the store of the quota, which begins a new window.
ResetQuota ==
    /\ resetting = "quota" /\ resetting' = "no"
    /\ quota' = sliceQuota
    /\ granted' = 0 /\ budget' = Larger(sliceQuota, 0) /\ slices' = 0 /\ refused' = <<>>
    /\ UNCHANGED <<noLimit, sliceQuota, resets, streamVars, timerVars>>

----------------------------------------------------------------------------

Next ==
    \/ \E s \in Streams : TryStartSend(s) \/ StreamStep(s)
    \/ TimerStep
    \/ ResetOptions \/ ResetLimit \/ ResetQuota

Spec == Init /\ [][Next]_vars

\* Every thread inside an operation goes on, writes end, and the maintenance
\* timer, which always re-arms itself, runs.  Nobody has to send anything.
Fairness ==
    /\ \A s \in Streams : WF_vars(StreamStep(s))
    /\ WF_vars(TimerStep)
    /\ WF_vars(ResetLimit \/ ResetQuota)

FairSpec == Spec /\ Fairness

----------------------------------------------------------------------------
(* Properties *)

TimerSteps == {"idle", "recharge", "swap", "collect", "try", "wait"}
StreamSteps == {"idle", "acquire", "swap", "store", "refused", "busy"}

FlowTypeOK ==
    /\ noLimit \in BOOLEAN /\ quota \in Int /\ sliceQuota \in Nat \cup {-1}
    /\ token \in [Streams -> Int]
    /\ pc \in [Streams -> StreamSteps]
    /\ amount \in [Streams -> 1 .. MaxRequest]
    /\ old \in [Streams -> Int]
    /\ tpc \in TimerSteps /\ share \in Nat \cup {-1} /\ told \in Int
    /\ unread \subseteq Streams
    /\ list \subseteq [stream : Streams, token : Int]
    /\ turn \subseteq Streams
    /\ resetting \in {"no", "limit", "quota"} /\ resets \in Nat
    /\ granted \in Nat /\ budget \in Nat /\ slices \in Nat
    /\ refused \in Seq(Int)

\* The limit holds over any number of slices, whatever the interleaving: what
\* is granted is at most one slice quota and the recharges, exceeded by less
\* than one request ("the total bandwidth of all connections will not exceed
\* the limit", rpc_client.h:30).
ThroughputBound == granted <= budget + MaxRequest - 1

\* The tokens of refused streams order them: within a slice a stream that is
\* refused later gets a smaller token, hence is triggered later, and nobody
\* is granted anything after a refusal (flow_controller.h:107).
TokensInOrder ==
    /\ \A i, j \in 1 .. Len(refused) : i < j => refused[i] > refused[j]
    /\ refused # <<>> => quota < 0

\* A pool in debt recovers as long as a slice brings more than one unit for
\* each stream that may be refused.
PoolRecovers == ~noLimit /\ quota <= 0 ~> quota > 0 \/ noLimit

\* A stream that was refused is triggered in the end.
StreamsTriggered == \A s \in Streams : token[s] <= 0 ~> token[s] > 0
=============================================================================
