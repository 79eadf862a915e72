------------------------- MODULE FlowControlProofs -------------------------
(***************************************************************************)
(* For any set of streams, any quotas and any sequence of ResetOptions: the*)
(* types, the bound on what is granted and the order of the tokens.        *)
(***************************************************************************)
EXTENDS FlowControl, TLAPS

----------------------------------------------------------------------------
(* Types *)

\* Every action of the pool, its streams and its timer keeps the types.
LEMMA FlowTypeStep == FlowTypeOK /\ [Next]_vars => FlowTypeOK'
<1> SUFFICES ASSUME FlowTypeOK, [Next]_vars
             PROVE  FlowTypeOK'
  OBVIOUS
<1> USE RequestAssumption, QuotaAssumption, FlowBoundAssumption
    DEF FlowTypeOK, TimerSteps, StreamSteps, Goto, TimerGoto, Begin, Larger, poolVars,
        streamVars, timerVars, resetVars, historyVars
<1>1. ASSUME NEW s \in Streams, TryStartSend(s)
      PROVE  FlowTypeOK'
  BY <1>1 DEF TryStartSend
<1>2. ASSUME NEW s \in Streams, AcquireRead(s)
      PROVE  FlowTypeOK'
  <2>1. \E value \in {1, quota}, to \in {"store", "swap"} :
           Goto(s, "acquire", to) /\ old' = [old EXCEPT ![s] = value]
    BY <1>2, Zenon DEF AcquireRead
  <2>2. UNCHANGED <<token, amount, poolVars, timerVars, resetVars, historyVars>>
    BY <1>2 DEF AcquireRead
  <2> QED
    BY <2>1, <2>2
<1>3. ASSUME NEW s \in Streams, AcquireSwap(s)
      PROVE  FlowTypeOK'
  <2>1. granted + amount[s] \in Nat /\ Append(refused, old[s]) \in Seq(Int)
    OBVIOUS
  <2>2. Acquired(old[s], amount[s]) \in Int
    BY DEF Acquired
  <2> QED
    BY <1>3, <2>1, <2>2 DEF AcquireSwap
<1>4. ASSUME NEW s \in Streams, StoreToken(s)
      PROVE  FlowTypeOK'
  <2>1. /\ token' \in [Streams -> Int] /\ old' \in [Streams -> Int]
        /\ amount' \in [Streams -> 1 .. MaxRequest]
    BY <1>4 DEF StoreToken
  <2>2. pc' \in [Streams -> StreamSteps]
    BY <1>4 DEF StoreToken
  <2>3. tpc' \in TimerSteps /\ turn' \subseteq Streams /\ UNCHANGED <<share, told, unread, list>>
    BY <1>4 DEF StoreToken, TriggerReturns
  <2>4. UNCHANGED <<poolVars, resetVars, historyVars>>
    BY <1>4 DEF StoreToken
  <2> QED
    BY <2>1, <2>2, <2>3, <2>4
<1>5. ASSUME NEW s \in Streams, Release(s)
      PROVE  FlowTypeOK'
  BY <1>5 DEF Release, TriggerReturns
<1>6. ASSUME StartSlice \/ RechargeRead
      PROVE  FlowTypeOK'
  BY <1>6 DEF StartSlice, RechargeRead
<1>7. ASSUME RechargeSwap
      PROVE  FlowTypeOK'
  <2>1. Recharged(told, share) \in Int
    BY DEF Recharged
  <2>2. Larger(share, 0) \in Nat /\ budget + Larger(share, 0) \in Nat
    OBVIOUS
  <2>3. <<>> \in Seq(Int)
    OBVIOUS
  <2>4. /\ UNCHANGED <<noLimit, list, turn, streamVars, resetVars>>
        /\ quota' \in Int /\ tpc' \in TimerSteps /\ told' \in Int
        /\ share' \in Nat \cup {-1} /\ unread' \subseteq Streams
    BY <1>7, <2>1 DEF RechargeSwap
  <2> DEFINE bonus == Larger(share, 0)
  <2>5. \/ UNCHANGED historyVars
        \/ /\ refused' = <<>>
           /\ \/ slices' = slices + 1 /\ budget' = budget + bonus /\ UNCHANGED granted
              \/ slices' = 0 /\ granted' = 0 /\ budget' = bonus
    BY <1>7 DEF RechargeSwap, Recharge
  <2> HIDE DEF bonus
  <2>6. bonus \in Nat /\ budget + bonus \in Nat
    BY <2>2 DEF bonus
  <2>7. refused' \in Seq(Int)
    BY <2>3, <2>5
  <2>8. granted' \in Nat /\ budget' \in Nat /\ slices' \in Nat
    BY <2>5, <2>6
  <2> QED
    BY <2>4, <2>7, <2>8
<1>8. ASSUME NEW s \in Streams, Collect(s)
      PROVE  FlowTypeOK'
  BY <1>8 DEF Collect
<1>9. ASSUME Trigger
      PROVE  FlowTypeOK'
  BY <1>9 DEF Trigger
<1>10. ASSUME TimerTrySend \/ EndSlice
       PROVE  FlowTypeOK'
  BY <1>10 DEF TimerTrySend, EndSlice
<1>11. ASSUME ResetOptions \/ ResetLimit \/ ResetQuota
       PROVE  FlowTypeOK'
  <2>1. CASE ResetOptions
    BY <2>1 DEF ResetOptions
  <2>2. CASE ResetLimit
    BY <2>2 DEF ResetLimit
  <2>3. CASE ResetQuota
    <3>1. <<>> \in Seq(Int) /\ Larger(sliceQuota, 0) \in Nat /\ sliceQuota \in Int
      OBVIOUS
    <3>2. /\ quota' = sliceQuota /\ granted' = 0 /\ budget' = Larger(sliceQuota, 0)
          /\ slices' = 0 /\ refused' = <<>> /\ resetting' = "no"
          /\ UNCHANGED <<noLimit, sliceQuota, resets, streamVars, timerVars>>
      BY <2>3 DEF ResetQuota
    <3> QED
      BY <3>1, <3>2
  <2> QED
    BY <1>11, <2>1, <2>2, <2>3
<1>12. CASE UNCHANGED vars
  BY <1>12 DEF vars
<1> QED
  BY <1>1, <1>2, <1>3, <1>4, <1>5, <1>6, <1>7, <1>8, <1>9, <1>10, <1>11, <1>12
  DEF Next, StreamStep, TimerStep

\* The type invariant of the flow control.
THEOREM FlowTypeCorrect == Spec => []FlowTypeOK
<1>1. Init => FlowTypeOK
  BY RequestAssumption, QuotaAssumption
  DEF Init, FlowTypeOK, TimerSteps, StreamSteps, Larger
<1> QED
  BY <1>1, FlowTypeStep, PTL DEF Spec

----------------------------------------------------------------------------
(* The throughput limit *)

\* What has been granted and what the pool still holds never exceed the
\* budget together; the debt of the last request explains the overshoot.
BoundInv == granted + quota <= budget /\ ThroughputBound

\* Every step keeps the bound: a request moves quota from the pool to what is
\* granted, a recharge adds at most as much to the pool as to the budget.
LEMMA BoundStep == FlowTypeOK /\ BoundInv /\ [Next]_vars => BoundInv'
<1> SUFFICES ASSUME FlowTypeOK, BoundInv, [Next]_vars
             PROVE  BoundInv'
  OBVIOUS
<1>0. /\ quota \in Int /\ granted \in Nat /\ budget \in Nat /\ share \in Nat \cup {-1}
      /\ sliceQuota \in Nat \cup {-1} /\ MaxRequest \in Nat \ {0}
      /\ \A s \in Streams : amount[s] \in 1 .. MaxRequest
  BY RequestAssumption DEF FlowTypeOK
<1> USE DEF BoundInv, ThroughputBound
<1>1. ASSUME NEW s \in Streams, AcquireSwap(s)
      PROVE  BoundInv'
  <2>1. CASE quota # old[s]
    BY <1>1, <2>1, <1>0 DEF AcquireSwap
  <2>2. CASE quota = old[s] /\ quota > 0
    <3>1. /\ quota' = quota - amount[s] /\ granted' = granted + amount[s]
          /\ budget' = budget
      BY <1>1, <2>2, <1>0 DEF AcquireSwap, Acquired
    <3> QED
      BY <3>1, <2>2, <1>0
  <2>3. CASE quota = old[s] /\ quota <= 0
    <3>1. quota' = quota - 1 /\ granted' = granted /\ budget' = budget
      BY <1>1, <2>3, <1>0 DEF AcquireSwap, Acquired
    <3> QED
      BY <3>1, <2>3, <1>0
  <2> QED
    BY <2>1, <2>2, <2>3, <1>0
<1>2. ASSUME RechargeSwap
      PROVE  BoundInv'
  <2>1. CASE quota # told
    BY <1>2, <2>1, <1>0 DEF RechargeSwap, historyVars
  <2>2. CASE quota = told
    <3>1. quota' = (IF quota > 0 THEN share ELSE quota + share) /\ Recharge
      BY <1>2, <2>2 DEF RechargeSwap, Recharged
    <3> QED
      BY <3>1, <1>0 DEF Recharge, Larger
  <2> QED
    BY <2>1, <2>2
<1>3. ASSUME ResetQuota
      PROVE  BoundInv'
  BY <1>3, <1>0 DEF ResetQuota, Larger
<1>4. ASSUME NEW s \in Streams,
             TryStartSend(s) \/ AcquireRead(s) \/ StoreToken(s) \/ Release(s) \/ Collect(s)
      PROVE  UNCHANGED <<quota, granted, budget>>
  BY <1>4 DEF TryStartSend, AcquireRead, StoreToken, Release, Collect, poolVars, historyVars
<1>5. ASSUME \/ StartSlice \/ RechargeRead \/ Trigger \/ TimerTrySend \/ EndSlice
             \/ ResetOptions \/ ResetLimit \/ UNCHANGED vars
      PROVE  UNCHANGED <<quota, granted, budget>>
  BY <1>5 DEF StartSlice, RechargeRead, Trigger, TimerTrySend, EndSlice, ResetOptions,
              ResetLimit, vars, poolVars, historyVars
<1>6. ASSUME UNCHANGED <<quota, granted, budget>>
      PROVE  BoundInv'
  BY <1>6
<1> QED
  BY <1>1, <1>2, <1>3, <1>4, <1>5, <1>6 DEF Next, StreamStep, TimerStep

\* However the streams, the timer and ResetOptions interleave, the quota
\* granted over any number of slices exceeds one slice quota and the recharges
\* by less than one request.
THEOREM ThroughputIsBounded == Spec => []ThroughputBound
<1>1. Init => BoundInv
  BY RequestAssumption, QuotaAssumption DEF Init, BoundInv, ThroughputBound, Larger
<1>2. Spec => []BoundInv
  BY <1>1, BoundStep, FlowTypeCorrect, PTL DEF Spec
<1>3. BoundInv => ThroughputBound
  BY DEF BoundInv
<1> QED
  BY <1>2, <1>3, PTL

----------------------------------------------------------------------------
(* The order of the tokens *)

\* All tokens handed out since the last recharge are still above the pool.
OrderInv ==
    /\ TokensInOrder
    /\ \A i \in 1 .. Len(refused) : refused[i] <= 0 /\ refused[i] > quota

\* Every step keeps the order: the next token is the value of the pool, which
\* is below all tokens handed out before.
LEMMA OrderStep == FlowTypeOK /\ OrderInv /\ [Next]_vars => OrderInv'
<1> SUFFICES ASSUME FlowTypeOK, OrderInv, [Next]_vars
             PROVE  OrderInv'
  OBVIOUS
<1>0. /\ quota \in Int /\ refused \in Seq(Int)
      /\ \A s \in Streams : amount[s] \in Nat
  BY RequestAssumption DEF FlowTypeOK
<1> USE DEF OrderInv, TokensInOrder
<1>1. ASSUME refused' = <<>>
      PROVE  OrderInv'
  BY <1>1
<1>2. ASSUME UNCHANGED <<quota, refused>>
      PROVE  OrderInv'
  BY <1>2
<1>3. ASSUME NEW s \in Streams, AcquireSwap(s)
      PROVE  OrderInv'
  <2>1. CASE quota # old[s]
    BY <1>3, <2>1, <1>2 DEF AcquireSwap
  <2>2. CASE quota = old[s] /\ quota > 0
    <3>1. Len(refused) = 0
      <4> SUFFICES ASSUME Len(refused) # 0 PROVE FALSE
        OBVIOUS
      <4>1. 1 \in 1 .. Len(refused) /\ refused[1] \in Int
        BY <1>0
      <4> QED
        BY <4>1, <2>2, <1>0
    <3>2. refused' = refused
      BY <1>3, <2>2, <1>0 DEF AcquireSwap
    <3>3. refused = <<>>
      BY <3>1, <1>0
    <3> QED
      BY <3>2, <3>3
  <2>3. CASE quota = old[s] /\ quota <= 0
    <3>1. quota' = quota - 1 /\ refused' = Append(refused, quota)
      BY <1>3, <2>3, <1>0 DEF AcquireSwap, Acquired
    <3>2. /\ Len(refused') = Len(refused) + 1 /\ refused'[Len(refused) + 1] = quota
          /\ \A i \in 1 .. Len(refused) : refused'[i] = refused[i] /\ refused[i] \in Int
      BY <3>1, <1>0
    <3>3. Len(refused) \in Nat
      BY <1>0
    <3>4. \A i \in 1 .. Len(refused') : refused'[i] <= 0 /\ refused'[i] > quota'
      BY <3>1, <3>2, <3>3, <2>3, <1>0
    <3>5. \A i, j \in 1 .. Len(refused') : i < j => refused'[i] > refused'[j]
      BY <3>2, <3>3, <1>0
    <3> QED
      BY <3>1, <3>4, <3>5, <2>3, <1>0
  <2> QED
    BY <2>1, <2>2, <2>3, <1>0
<1>4. ASSUME RechargeSwap \/ ResetQuota
      PROVE  OrderInv'
  BY <1>4, <1>1, <1>2 DEF RechargeSwap, Recharge, ResetQuota, historyVars
<1>5. ASSUME NEW s \in Streams,
             TryStartSend(s) \/ AcquireRead(s) \/ StoreToken(s) \/ Release(s) \/ Collect(s)
      PROVE  UNCHANGED <<quota, refused>>
  BY <1>5 DEF TryStartSend, AcquireRead, StoreToken, Release, Collect, poolVars, historyVars
<1>6. ASSUME \/ StartSlice \/ RechargeRead \/ Trigger \/ TimerTrySend \/ EndSlice
             \/ ResetOptions \/ ResetLimit \/ UNCHANGED vars
      PROVE  UNCHANGED <<quota, refused>>
  BY <1>6 DEF StartSlice, RechargeRead, Trigger, TimerTrySend, EndSlice, ResetOptions,
              ResetLimit, vars, poolVars, historyVars
<1> QED
  BY <1>2, <1>3, <1>4, <1>5, <1>6 DEF Next, StreamStep, TimerStep

\* Within a slice every refused stream gets a token of its own, smaller than
\* those handed out before.
THEOREM TokensAreOrdered == Spec => []TokensInOrder
<1>1. Init => OrderInv
  BY DEF Init, OrderInv, TokensInOrder
<1>2. Spec => []OrderInv
  BY <1>1, OrderStep, FlowTypeCorrect, PTL DEF Spec
<1>3. OrderInv => TokensInOrder
  BY DEF OrderInv
<1> QED
  BY <1>2, <1>3, PTL
=============================================================================
