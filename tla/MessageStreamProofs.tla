------------------------ MODULE MessageStreamProofs ------------------------
(***************************************************************************)
(* Proofs about MessageStream, for any number of threads and messages.     *)
(***************************************************************************)
EXTENDS MessageStream, FiniteSetTheorems, SequenceTheorems, TLAPS

----------------------------------------------------------------------------
(* The three ways in which a step moves a thread *)

\* Every place a call returns to is a label.
LEMMA ReturnLabelsAreLabels == ReturnLabels \subseteq Labels
  BY DEF ReturnLabels, Labels, ByteLabels

\* A plain step and a call stay among the labels.
LEMMA StepControl ==
    ASSUME ControlTypeOK, NEW t \in Threads, NEW from, NEW to \in Labels,
           Step(t, from, to), ret' \in [Threads -> ReturnLabels]
    PROVE  ControlTypeOK'
  BY DEF ControlTypeOK, Step, Goto, openVars

\* A return goes to a label too, and leaves "idle" behind as the next return.
LEMMA ReturnControl ==
    ASSUME ControlTypeOK, NEW t \in Threads, NEW from, Return(t, from)
    PROVE  ControlTypeOK'
<1>1. ret[t] \in Labels
  BY ReturnLabelsAreLabels DEF ControlTypeOK
<1>2. Step(t, from, ret[t]) /\ ret' \in [Threads -> ReturnLabels]
  BY DEF Return, ControlTypeOK, ReturnLabels
<1> QED
  BY <1>1, <1>2, StepControl

\* So does a test that either goes on or returns.
LEMMA GoOnIfControl ==
    ASSUME ControlTypeOK, NEW t \in Threads, NEW from, NEW to \in Labels, NEW condition,
           GoOnIf(condition, t, from, to)
    PROVE  ControlTypeOK'
<1>1. CASE Step(t, from, to) /\ UNCHANGED ret
  BY <1>1, StepControl DEF ControlTypeOK
<1>2. CASE Return(t, from)
  BY <1>2, ReturnControl
<1> QED
  BY <1>1, <1>2 DEF GoOnIf

----------------------------------------------------------------------------
(* Types *)

\* What a thread that is about to use arg or sending relies on.
MessagesAtHand ==
    /\ \A t \in Threads : pc[t] = "enqueue" => arg[t] \in Messages
    /\ \A t \in Threads : pc[t] \in {"send_decide", "send_requeue"} => sending \in Messages

\* Every step moves the threads among the labels of the code and keeps the
\* connection's variables within their types.
LEMMA ControlStep == ControlTypeOK /\ [Next]_vars => ControlTypeOK'
<1> SUFFICES ASSUME ControlTypeOK, [Next]_vars
             PROVE  ControlTypeOK'
  OBVIOUS
<1> USE DEF Labels, ByteLabels, SendHolding, ReceiveHolding
<1>1. ASSUME NEW t \in Threads,
             \/ SendCheckToken(t) \/ SendCheckQuota(t) \/ SendCheckConnected(t) \/ SendAcquire(t)
             \/ SendRecheck(t) \/ ReceiveCheckToken(t)
             \/ ReceiveCheckPending(t) \/ ReceiveCheckConnected(t) \/ ReceiveAcquire(t)
      PROVE  ControlTypeOK'
  BY <1>1, GoOnIfControl
     DEF SendCheckToken, SendCheckQuota, SendCheckConnected, SendAcquire, SendRecheck,
         ReceiveCheckToken, ReceiveCheckPending, ReceiveCheckConnected, ReceiveAcquire
<1>2. ASSUME NEW t \in Threads, ReceiveCheckQuota(t) PROVE ControlTypeOK'
  <2>1. PICK to \in {"receive_check_pending", "receive_check_connected"} :
           GoOnIf(readQuota > 0, t, "receive_check_quota", to)
    BY <1>2 DEF ReceiveCheckQuota
  <2> QED
    BY <2>1, GoOnIfControl
<1>3. ASSUME NEW t \in Threads,
             \/ SwapPendingQueue(t) \/ FetchFront(t) \/ CancelSending(t)
             \/ InsertIntoPendingQueue(t) \/ TriggerSend(t) \/ ReadPendingSize(t)
             \/ Deliver(t) \/ TriggerReceive(t)
      PROVE  ControlTypeOK'
  <2>1. ret' \in [Threads -> ReturnLabels]
    BY <1>3 DEF ControlTypeOK, SwapPendingQueue, FetchFront, CancelSending,
                InsertIntoPendingQueue, TriggerSend, ReadPendingSize, Deliver, TriggerReceive
  <2> QED
    BY <1>3, <2>1, StepControl
       DEF SwapPendingQueue, FetchFront, CancelSending, InsertIntoPendingQueue, TriggerSend,
           ReadPendingSize, Deliver, TriggerReceive
<1>4. ASSUME NEW t \in Workers, \/ \E m \in Messages : AsyncSendMessage(t, m)
                                \/ OnWriteSome(t)
                                \/ OnReadSome(t)
      PROVE  ControlTypeOK'
  <2>1. t \in Threads /\ ret' \in [Threads -> ReturnLabels]
    BY <1>4 DEF ControlTypeOK, Threads, AsyncSendMessage, OnWriteSome, OnReadSome
  <2>2. \E to \in {"idle", "enqueue", "close", "write_release", "read_release"} :
           Step(t, "idle", to)
    BY <1>4 DEF AsyncSendMessage, OnWriteSome, OnReadSome
  <2> QED
    BY <2>1, <2>2, StepControl
<1>5. ASSUME NEW t \in Threads,
             PutIntoPendingQueue(t) \/ WriteRelease(t) \/ ReadRelease(t)
      PROVE  ControlTypeOK'
  <2>1. ret' \in [Threads -> ReturnLabels]
    BY <1>5 DEF ControlTypeOK, ReturnLabels, PutIntoPendingQueue, WriteRelease, ReadRelease, Call
  <2> QED
    BY <1>5, <2>1, StepControl DEF PutIntoPendingQueue, WriteRelease, ReadRelease, Call
<1>6. ASSUME NEW t \in Threads, StartSending(t) \/ StartReceiving(t) PROVE ControlTypeOK'
  <2>1. \/ Return(t, "send_decide") \/ Return(t, "receive_quota")
        \/ Step(t, "send_decide", "send_requeue") /\ UNCHANGED ret
        \/ Step(t, "receive_quota", "receive_release") /\ UNCHANGED ret
    BY <1>6 DEF StartSending, StartReceiving
  <2> QED
    BY <2>1, StepControl, ReturnControl DEF ControlTypeOK
<1>7. ASSUME NEW t \in Threads, SendRelease(t) PROVE ControlTypeOK'
  BY <1>7, StepControl, ReturnControl DEF SendRelease, ControlTypeOK
<1>8. ASSUME NEW t \in Threads, ReceiveRelease(t) PROVE ControlTypeOK'
  BY <1>8, ReturnControl DEF ReceiveRelease
<1>9. ASSUME NEW t \in Threads, Connected(t) PROVE ControlTypeOK'
  BY <1>9 DEF ControlTypeOK, Connected, StoreConnected, StoreStatus, Goto, Statuses, ReturnLabels
<1>10. ASSUME NEW t \in Threads, ConnectionStep(t) PROVE ControlTypeOK'
  <2>1. CASE AsyncConnect(t)
    BY <1>10, <2>1 DEF ConnectionStep, ControlTypeOK, AsyncConnect, StoreStatus, Goto, Statuses
  <2>2. CASE Accept(t)
    BY <1>10, <2>2 DEF ConnectionStep, ControlTypeOK, Accept, Goto
  <2>3. CASE Close(t)
    BY <1>10, <2>3 DEF ConnectionStep, ControlTypeOK, Close, Goto, Statuses
  <2>4. CASE OnClosed(t)
    BY <1>10, <2>4 DEF ConnectionStep, ControlTypeOK, OnClosed, Goto
  <2> QED
    BY <1>10, <2>1, <2>2, <2>3, <2>4 DEF ConnectionStep
<1>11. ASSUME NEW t \in Threads, OnConnect(t) \/ OnConnectTimeout(t) \/ CallClose(t), UNCHANGED ret
       PROVE  ControlTypeOK'
  BY <1>11 DEF ControlTypeOK, OnConnect, OnConnectTimeout, CallClose, Goto
<1>12. CASE TimerMaintain
  BY <1>12, StepControl DEF TimerMaintain, Threads, ControlTypeOK
<1>13. CASE UNCHANGED vars
  BY <1>13 DEF vars, byteVars, ControlTypeOK
<1> QED
  BY <1>1, <1>2, <1>3, <1>4, <1>5, <1>6, <1>7, <1>8, <1>9, <1>10, <1>11, <1>12, <1>13,
     CallersAssumption
     DEF Next, ThreadStep, SendStep, ReceiveStep, Handler, Threads

\* Every step keeps the queue, the tokens and the operations within their
\* types, as long as the messages used are there.
LEMMA DataStep == TypeOK /\ MessagesAtHand /\ [Next]_vars => DataTypeOK'
<1> SUFFICES ASSUME TypeOK, MessagesAtHand, [Next]_vars
             PROVE  DataTypeOK'
  OBVIOUS
<1> USE MessageAssumption DEF TypeOK, DataTypeOK, queueVars, sendVars, receiveVars, streamVars
<1>1. CASE UNCHANGED streamVars
  BY <1>1
<1>2. ASSUME NEW t \in Threads, NEW m \in Messages, AsyncSendMessage(t, m) PROVE DataTypeOK'
  BY <1>2 DEF AsyncSendMessage
<1>3. ASSUME NEW t \in Threads, PutIntoPendingQueue(t) PROVE DataTypeOK'
  <2>1. arg[t] \in Messages
    BY <1>3 DEF PutIntoPendingQueue, MessagesAtHand, Call, Step, Goto
  <2> QED
    BY <1>3, <2>1 DEF PutIntoPendingQueue
<1>4. ASSUME NEW t \in Threads,
             SendAcquire(t) \/ SendRelease(t) \/ WriteRelease(t) \/ TriggerSend(t)
      PROVE  DataTypeOK'
  BY <1>4 DEF SendAcquire, SendRelease, WriteRelease, TriggerSend
<1>5. ASSUME NEW t \in Threads, SwapPendingQueue(t) \/ FetchFront(t) PROVE DataTypeOK'
  <2>1. CASE SwapPendingQueue(t)
    BY <2>1 DEF SwapPendingQueue
  <2>2. CASE FetchFront(t)
    <3>1. swapped # <<>> => Head(swapped) \in Messages /\ Tail(swapped) \in Seq(Messages)
      OBVIOUS
    <3> QED
      BY <2>2, <3>1 DEF FetchFront
  <2> QED
    BY <1>5, <2>1, <2>2
<1>6. ASSUME NEW t \in Threads, CancelSending(t) PROVE DataTypeOK'
  BY <1>6 DEF CancelSending
<1>7. ASSUME NEW t \in Threads, StartSending(t) PROVE DataTypeOK'
  BY <1>7 DEF StartSending, QuotaResults
<1>8. ASSUME NEW t \in Threads, InsertIntoPendingQueue(t) PROVE DataTypeOK'
  <2>1. sending \in Messages
    BY <1>8 DEF InsertIntoPendingQueue, MessagesAtHand, Step, Goto
  <2> QED
    BY <1>8, <2>1 DEF InsertIntoPendingQueue
<1>9. ASSUME NEW t \in Threads, OnWriteSome(t) PROVE DataTypeOK'
  <2>1. UNCHANGED <<pending, swapped, arg, sendToken, writeQuota, receiveVars>>
    BY <1>9 DEF OnWriteSome
  <2>2. sending' \in Messages \cup {NoMessage} /\ parts' \in 0 .. MaxParts /\ writes' \in Nat
    BY <1>9 DEF OnWriteSome
  <2>3. outcome' \in [Messages -> {"new", "accepted", "sent", "failed"}]
    BY <1>9 DEF OnWriteSome
  <2> QED
    BY <2>1, <2>2, <2>3
<1>10. ASSUME NEW t \in Threads, ReadPendingSize(t) \/ ReceiveCheckPending(t) PROVE DataTypeOK'
  <2>1. UNCHANGED <<queueVars, sendVars, receiveToken, readQuota, reads, received>>
    BY <1>10 DEF ReadPendingSize, ReceiveCheckPending
  <2>2. Len(pending) \in Nat /\ Len(swapped) \in Nat
    OBVIOUS
  <2>3. sizeRead' \in [Threads -> Nat]
    BY <1>10, <2>2 DEF ReadPendingSize, ReceiveCheckPending
  <2> QED
    BY <2>1, <2>3
<1>11. ASSUME NEW t \in Threads, StartReceiving(t) PROVE DataTypeOK'
  BY <1>11 DEF StartReceiving, QuotaResults
<1>12. ASSUME NEW t \in Threads,
              ReceiveAcquire(t) \/ ReceiveRelease(t) \/ ReadRelease(t) \/ TriggerReceive(t)
       PROVE  DataTypeOK'
  BY <1>12 DEF ReceiveAcquire, ReceiveRelease, ReadRelease, TriggerReceive
<1>13. ASSUME NEW t \in Threads, OnReadSome(t) \/ Deliver(t) PROVE DataTypeOK'
  <2>1. CASE OnReadSome(t)
    BY <2>1 DEF OnReadSome
  <2>2. CASE Deliver(t)
    BY <2>2 DEF Deliver
  <2> QED
    BY <1>13, <2>1, <2>2
<1>14. ASSUME NEW t \in Threads,
              \/ SendCheckToken(t) \/ SendCheckQuota(t) \/ SendCheckConnected(t)
              \/ SendRecheck(t) \/ ReceiveCheckToken(t) \/ ReceiveCheckQuota(t)
              \/ ReceiveCheckConnected(t) \/ ConnectionStep(t) \/ Connected(t)
       PROVE  UNCHANGED streamVars
  BY <1>14 DEF SendCheckToken, SendCheckQuota, SendCheckConnected, SendRecheck,
               ReceiveCheckToken, ReceiveCheckQuota, ReceiveCheckConnected, ConnectionStep,
               Connected
<1>15. TimerMaintain \/ UNCHANGED vars => UNCHANGED streamVars
  BY DEF TimerMaintain, vars
<1> QED
  BY <1>1, <1>2, <1>3, <1>4, <1>5, <1>6, <1>7, <1>8, <1>9, <1>10, <1>11, <1>12, <1>13, <1>14, <1>15
     DEF Next, ThreadStep, SendStep, ReceiveStep, Handler, Threads

----------------------------------------------------------------------------
(* The send token *)

SendInv == SendTokenExclusive /\ MessagesAtHand

\* A step of a thread that ends outside the protected part, and does not touch
\* what the token protects, keeps its ownership.
LEMMA SendFrame ==
    ASSUME ControlTypeOK, SendInv, NEW t \in Threads, NEW to,
           pc' = [pc EXCEPT ![t] = to], to \notin SendHolding, to # "enqueue",
           UNCHANGED <<sendToken, writes, sending, arg>>
    PROVE  SendInv'
  BY DEF ControlTypeOK, SendInv, SendTokenExclusive, MessagesAtHand, Holds, SendHolding

\* The owner gives the token back.
LEMMA SendGiveBack ==
    ASSUME ControlTypeOK, SendInv, NEW t \in Threads, NEW to,
           pc[t] \in SendHolding, pc' = [pc EXCEPT ![t] = to], to \notin SendHolding,
           to # "enqueue", UNCHANGED <<writes, sending, arg>>
    PROVE  SendInv'
<1>1. writes = 0 /\ \A u \in Threads \ {t} : pc[u] \notin SendHolding
  BY DEF SendInv, SendTokenExclusive, Holds
<1>2. \A u \in Threads : pc'[u] \notin SendHolding
  BY <1>1 DEF ControlTypeOK
<1>3. SendTokenExclusive'
  BY <1>1, <1>2 DEF SendTokenExclusive, Holds
<1>4. MessagesAtHand'
  BY <1>2 DEF SendInv, MessagesAtHand, ControlTypeOK, SendHolding
<1> QED
  BY <1>3, <1>4 DEF SendInv

\* The owner goes on; nobody else looks at sending.
LEMMA SendGoOn ==
    ASSUME ControlTypeOK, SendInv, NEW t \in Threads, NEW to \in SendHolding,
           pc[t] \in SendHolding, pc' = [pc EXCEPT ![t] = to],
           to \in {"send_decide", "send_requeue"} => sending' \in Messages,
           UNCHANGED <<sendToken, writes, arg>>
    PROVE  SendInv'
<1>1. sendToken = "LOCK" /\ writes = 0 /\ \A u \in Threads \ {t} : pc[u] \notin SendHolding
  BY DEF SendInv, SendTokenExclusive, Holds
<1>2. \A u \in Threads \ {t} : pc'[u] \notin SendHolding
  BY <1>1 DEF ControlTypeOK
<1>3. SendTokenExclusive'
  BY <1>1, <1>2 DEF SendTokenExclusive, Holds
<1>4. MessagesAtHand'
  BY <1>2 DEF SendInv, MessagesAtHand, ControlTypeOK, SendHolding
<1> QED
  BY <1>3, <1>4 DEF SendInv

\* The receiving side and the connection leave the send token alone.
LEMMA OutsideSending ==
    ASSUME ControlTypeOK, NEW t \in Threads,
           \/ ReceiveStep(t) \/ ConnectionStep(t) \/ Connected(t) \/ OnReadSome(t)
           \/ OnConnect(t) /\ UNCHANGED <<streamVars, ret>>
           \/ OnConnectTimeout(t) /\ UNCHANGED <<streamVars, ret>>
           \/ CallClose(t) /\ UNCHANGED <<streamVars, ret>>
    PROVE  /\ UNCHANGED <<sendToken, writes, sending, arg>>
           /\ \E to : /\ pc' = [pc EXCEPT ![t] = to]
                      /\ to \notin SendHolding /\ to # "enqueue"
<1> USE DEF SendHolding, ReturnLabels, ControlTypeOK, Goto, Step, Call, Return, GoOnIf
<1>1. CASE ReceiveStep(t)
  <2>1. UNCHANGED <<sendToken, writes, sending, arg>>
    BY <1>1 DEF ReceiveStep, ReceiveCheckToken, ReceiveCheckQuota, ReadPendingSize,
       ReceiveCheckPending, ReceiveCheckConnected, ReceiveAcquire, StartReceiving,
       ReceiveRelease, ReadRelease, Deliver, TriggerReceive, streamVars, queueVars, sendVars
  <2>2. CASE ReceiveCheckToken(t) \/ ReceiveCheckQuota(t) \/ ReadPendingSize(t)
    BY <2>1, <2>2 DEF ReceiveCheckToken, ReceiveCheckQuota, ReadPendingSize
  <2>3. CASE ReceiveCheckPending(t) \/ ReceiveCheckConnected(t) \/ ReceiveAcquire(t)
    BY <2>1, <2>3 DEF ReceiveCheckPending, ReceiveCheckConnected, ReceiveAcquire
  <2>4. CASE StartReceiving(t) \/ ReceiveRelease(t)
    BY <2>1, <2>4 DEF StartReceiving, ReceiveRelease
  <2>5. CASE ReadRelease(t) \/ Deliver(t) \/ TriggerReceive(t)
    BY <2>1, <2>5 DEF ReadRelease, Deliver, TriggerReceive
  <2> QED
    BY <1>1, <2>2, <2>3, <2>4, <2>5 DEF ReceiveStep
<1>2. CASE ConnectionStep(t) \/ Connected(t)
  BY <1>2 DEF ConnectionStep, AsyncConnect, Accept, Close, OnClosed, Connected,
     StoreConnected, streamVars, queueVars, sendVars
<1>3. CASE OnReadSome(t)
  BY <1>3 DEF OnReadSome, queueVars, sendVars
<1>4. CASE (OnConnect(t) \/ OnConnectTimeout(t) \/ CallClose(t)) /\ UNCHANGED <<streamVars, ret>>
  BY <1>4 DEF OnConnect, OnConnectTimeout, CallClose, streamVars, queueVars, sendVars
<1> QED
  BY <1>1, <1>2, <1>3, <1>4

\* Every step of the stream keeps the send token's invariant.
LEMMA SendStepInv == TypeOK /\ SendInv /\ [Next]_vars => SendInv'
<1> SUFFICES ASSUME TypeOK, SendInv, [Next]_vars
             PROVE  SendInv'
  OBVIOUS
<1>0. ControlTypeOK /\ DataTypeOK
  BY DEF TypeOK
<1> USE DEF Goto, Step, Call, Return, GoOnIf, SendHolding, ReturnLabels, queueVars, sendVars,
            streamVars
<1>1. ASSUME NEW t \in Threads, NEW m \in Messages, AsyncSendMessage(t, m) PROVE SendInv'
  <2>1. /\ UNCHANGED <<sendToken, writes, sending>>
        /\ \/ pc' = [pc EXCEPT ![t] = "idle"] /\ UNCHANGED arg
           \/ pc' = [pc EXCEPT ![t] = "enqueue"] /\ arg' = [arg EXCEPT ![t] = m]
    BY <1>1 DEF AsyncSendMessage
  <2>2. SendTokenExclusive'
    BY <2>1, <1>0 DEF SendInv, SendTokenExclusive, Holds, ControlTypeOK
  <2>3. MessagesAtHand'
    BY <2>1, <1>0 DEF SendInv, MessagesAtHand, ControlTypeOK, DataTypeOK
  <2> QED
    BY <2>2, <2>3 DEF SendInv
<1>2. ASSUME NEW t \in Threads, PutIntoPendingQueue(t) PROVE SendInv'
  BY <1>2, <1>0 DEF PutIntoPendingQueue, SendInv, SendTokenExclusive, MessagesAtHand, Holds,
                    ControlTypeOK, DataTypeOK
<1>3. ASSUME NEW t \in Threads,
             \/ SendCheckToken(t) \/ SendCheckQuota(t) \/ SendCheckConnected(t)
             \/ SendRecheck(t) \/ TriggerSend(t)
      PROVE  SendInv'
  <2>1. \E to \in ReturnLabels \cup {"send_check_token", "send_check_quota",
                                     "send_check_connected", "send_acquire"} :
           pc' = [pc EXCEPT ![t] = to]
    BY <1>3, <1>0 DEF SendCheckToken, SendCheckQuota, SendCheckConnected, SendRecheck,
                      TriggerSend, ControlTypeOK
  <2>2. UNCHANGED <<sendToken, writes, sending, arg>>
    BY <1>3 DEF SendCheckToken, SendCheckQuota, SendCheckConnected, SendRecheck, TriggerSend
  <2> QED
    BY <2>1, <2>2, <1>0, SendFrame
<1>4. ASSUME NEW t \in Threads, SendAcquire(t) PROVE SendInv'
  <2>1. CASE sendToken = "FREE"
    <3>1. writes = 0 /\ \A u \in Threads : pc[u] \notin SendHolding
      BY <2>1, <1>0 DEF SendInv, SendTokenExclusive, Holds, DataTypeOK
    <3>2. /\ pc' = [pc EXCEPT ![t] = "send_get"] /\ sendToken' = "LOCK"
          /\ UNCHANGED <<writes, sending, arg>>
      BY <1>4, <2>1 DEF SendAcquire
    <3>3. SendTokenExclusive'
      BY <3>1, <3>2, <1>0 DEF SendTokenExclusive, Holds, ControlTypeOK
    <3>4. MessagesAtHand'
      BY <3>2, <1>0 DEF SendInv, MessagesAtHand, ControlTypeOK
    <3> QED
      BY <3>3, <3>4 DEF SendInv
  <2>2. CASE sendToken # "FREE"
    BY <1>4, <2>2, <1>0, SendFrame DEF SendAcquire, ControlTypeOK, DataTypeOK
  <2> QED
    BY <2>1, <2>2
<1>5. ASSUME NEW t \in Threads,
             SwapPendingQueue(t) \/ CancelSending(t) \/ InsertIntoPendingQueue(t)
      PROVE  SendInv'
  BY <1>5, <1>0, SendGoOn DEF SwapPendingQueue, CancelSending, InsertIntoPendingQueue
<1>6. ASSUME NEW t \in Threads, FetchFront(t) PROVE SendInv'
  <2>1. swapped # <<>> => Head(swapped) \in Messages
    BY <1>0 DEF DataTypeOK
  <2> QED
    BY <1>6, <2>1, <1>0, SendGoOn DEF FetchFront
<1>7. ASSUME NEW t \in Threads, StartSending(t) PROVE SendInv'
  <2>1. /\ sendToken = "LOCK" /\ writes = 0 /\ sending \in Messages
        /\ \A u \in Threads \ {t} : pc[u] \notin SendHolding
    BY <1>7 DEF StartSending, SendInv, SendTokenExclusive, MessagesAtHand, Holds
  <2>2. CASE Step(t, "send_decide", "send_requeue") /\ UNCHANGED writes
    BY <1>7, <2>1, <2>2, <1>0, SendGoOn DEF StartSending
  <2>3. CASE Return(t, "send_decide") /\ writes' = writes + 1
    <3>1. \A u \in Threads : pc'[u] \notin SendHolding
      BY <2>1, <2>3, <1>0 DEF ControlTypeOK
    <3>2. SendTokenExclusive'
      BY <1>7, <2>1, <2>3, <3>1 DEF StartSending, SendTokenExclusive, Holds
    <3>3. MessagesAtHand'
      BY <1>7, <2>3, <3>1, <1>0 DEF StartSending, SendInv, MessagesAtHand, ControlTypeOK
    <3> QED
      BY <3>2, <3>3 DEF SendInv
  <2> QED
    BY <1>7, <2>2, <2>3 DEF StartSending
<1>8. ASSUME NEW t \in Threads, SendRelease(t) \/ WriteRelease(t) PROVE SendInv'
  <2>1. PICK to \in ReturnLabels \cup {"send_check_connected", "send_recheck", "send_check_token"} :
           pc' = [pc EXCEPT ![t] = to]
    BY <1>8, <1>0 DEF SendRelease, WriteRelease, ControlTypeOK
  <2>2. to \notin SendHolding /\ to # "enqueue"
    BY <2>1
  <2>3. pc[t] \in SendHolding /\ UNCHANGED <<writes, sending, arg>>
    BY <1>8 DEF SendRelease, WriteRelease
  <2> HIDE DEF SendHolding
  <2> QED
    BY <2>1, <2>2, <2>3, <1>0, SendGiveBack
<1>9. ASSUME NEW t \in Threads, OnWriteSome(t) PROVE SendInv'
  <2>1. /\ writes = 1 /\ sendToken = "LOCK" /\ UNCHANGED <<sendToken, arg>>
        /\ \A u \in Threads : pc[u] \notin SendHolding
    BY <1>9, <1>0 DEF OnWriteSome, SendInv, SendTokenExclusive, Holds, DataTypeOK
  <2>2. \E to \in {"idle", "close", "write_release"} :
           /\ pc' = [pc EXCEPT ![t] = to]
           /\ writes' \in {0, 1} /\ (to = "write_release" => writes' = 0)
    BY <1>9, <2>1 DEF OnWriteSome
  <2>3. SendTokenExclusive'
    BY <2>1, <2>2, <1>0 DEF SendTokenExclusive, Holds, ControlTypeOK
  <2>4. MessagesAtHand'
    BY <2>1, <2>2, <1>0 DEF SendInv, MessagesAtHand, ControlTypeOK
  <2> QED
    BY <2>3, <2>4 DEF SendInv
<1>10. ASSUME NEW t \in Threads,
              \/ ReceiveStep(t) \/ ConnectionStep(t) \/ Connected(t) \/ OnReadSome(t)
              \/ OnConnect(t) /\ UNCHANGED <<streamVars, ret>>
              \/ OnConnectTimeout(t) /\ UNCHANGED <<streamVars, ret>>
              \/ CallClose(t) /\ UNCHANGED <<streamVars, ret>>
       PROVE  SendInv'
  <2>1. PICK to : /\ pc' = [pc EXCEPT ![t] = to] /\ to \notin SendHolding /\ to # "enqueue"
                  /\ UNCHANGED <<sendToken, writes, sending, arg>>
    BY <1>0, <1>10, OutsideSending
  <2> QED
    BY <2>1, <1>0, SendFrame
<1>11. CASE TimerMaintain
  BY <1>11, <1>0, SendFrame DEF TimerMaintain, Threads
<1>12. CASE UNCHANGED vars
  BY <1>12 DEF vars, byteVars, SendInv, SendTokenExclusive, MessagesAtHand, Holds
<1> QED
  BY <1>1, <1>2, <1>3, <1>4, <1>5, <1>6, <1>7, <1>8, <1>9, <1>10, <1>11, <1>12, CallersAssumption
     DEF Next, ThreadStep, SendStep, Handler, Threads

----------------------------------------------------------------------------
(* The invariants of the sending side *)

\* Types, ownership of the send token and the messages at hand are inductive
\* together.
LEMMA SendingInvariant == Spec => [](TypeOK /\ SendInv)
<1>1. Init => TypeOK /\ SendInv
  <2> SUFFICES ASSUME Init PROVE TypeOK /\ SendInv
    OBVIOUS
  <2>1. pc \in [Threads -> {"idle", "async_connect", "accept"}]
    BY DEF Init, ByteInit
  <2>2. ControlTypeOK
    BY <2>1 DEF Init, ByteInit, ControlTypeOK, Labels, ByteLabels, Statuses, ReturnLabels
  <2>3. DataTypeOK
    BY MessageAssumption DEF Init, DataTypeOK
  <2>4. SendInv
    BY <2>1 DEF Init, SendInv, SendTokenExclusive, MessagesAtHand, Holds, SendHolding
  <2> QED
    BY <2>2, <2>3, <2>4 DEF TypeOK
<1>2. TypeOK /\ SendInv /\ [Next]_vars => (TypeOK /\ SendInv)'
  BY ControlStep, DataStep, SendStepInv DEF TypeOK, SendInv
<1> QED
  BY <1>1, <1>2, PTL DEF Spec

\* The type invariant of the message stream.
THEOREM TypeCorrect == Spec => []TypeOK
  BY SendingInvariant, PTL

\* At any time at most one thread or one write in flight works on the message
\* being sent and on the swapped queue: async_write_some is never called while
\* a write is in flight, and the unlocked queue has one user.
THEOREM SendTokenCorrect == Spec => []SendTokenExclusive
<1>1. SendInv => SendTokenExclusive
  BY DEF SendInv
<1> QED
  BY <1>1, SendingInvariant, PTL

----------------------------------------------------------------------------
(* The receive token *)

\* A step that ends outside the protected part and leaves the token and the
\* read in flight alone.
LEMMA ReceiveFrame ==
    ASSUME ControlTypeOK, ReceiveTokenExclusive, NEW t \in Threads, NEW to,
           pc' = [pc EXCEPT ![t] = to], to \notin ReceiveHolding,
           UNCHANGED <<receiveToken, reads>>
    PROVE  ReceiveTokenExclusive'
  BY DEF ControlTypeOK, ReceiveTokenExclusive, Holds

\* The sending side and the connection leave the receive token alone.
LEMMA OutsideReceiving ==
    ASSUME ControlTypeOK, NEW t \in Threads,
           \/ SendStep(t) \/ ConnectionStep(t) \/ Connected(t) \/ OnWriteSome(t)
           \/ \E m \in Messages : AsyncSendMessage(t, m)
           \/ OnConnect(t) /\ UNCHANGED <<streamVars, ret>>
           \/ OnConnectTimeout(t) /\ UNCHANGED <<streamVars, ret>>
           \/ CallClose(t) /\ UNCHANGED <<streamVars, ret>>
    PROVE  /\ UNCHANGED <<receiveToken, reads>>
           /\ \E to : pc' = [pc EXCEPT ![t] = to] /\ to \notin ReceiveHolding
<1> USE DEF ReceiveHolding, ReturnLabels, ControlTypeOK, Goto, Step, Call, Return, GoOnIf
<1>1. CASE SendStep(t)
  <2>1. UNCHANGED <<receiveToken, reads>>
    BY <1>1 DEF SendStep, PutIntoPendingQueue, SendCheckToken, SendCheckQuota,
       SendCheckConnected, SendAcquire, SwapPendingQueue, FetchFront, CancelSending,
       StartSending, InsertIntoPendingQueue, SendRelease, SendRecheck, WriteRelease,
       TriggerSend, streamVars, receiveVars
  <2>2. CASE PutIntoPendingQueue(t) \/ SendCheckToken(t) \/ SendCheckQuota(t)
    BY <2>1, <2>2 DEF PutIntoPendingQueue, SendCheckToken, SendCheckQuota
  <2>3. CASE SendCheckConnected(t) \/ SendAcquire(t) \/ SwapPendingQueue(t)
    BY <2>1, <2>3 DEF SendCheckConnected, SendAcquire, SwapPendingQueue
  <2>4. CASE FetchFront(t) \/ CancelSending(t) \/ InsertIntoPendingQueue(t)
    BY <2>1, <2>4 DEF FetchFront, CancelSending, InsertIntoPendingQueue
  <2>5. CASE StartSending(t)
    BY <2>1, <2>5 DEF StartSending
  <2>6. CASE SendRelease(t) \/ SendRecheck(t)
    BY <2>1, <2>6 DEF SendRelease, SendRecheck
  <2>7. CASE WriteRelease(t) \/ TriggerSend(t)
    BY <2>1, <2>7 DEF WriteRelease, TriggerSend
  <2> QED
    BY <1>1, <2>2, <2>3, <2>4, <2>5, <2>6, <2>7 DEF SendStep
<1>2. CASE ConnectionStep(t) \/ Connected(t)
  BY <1>2 DEF ConnectionStep, AsyncConnect, Accept, Close, OnClosed, Connected,
     StoreConnected, streamVars, receiveVars
<1>3. CASE OnWriteSome(t) \/ \E m \in Messages : AsyncSendMessage(t, m)
  BY <1>3 DEF OnWriteSome, AsyncSendMessage, receiveVars
<1>4. CASE (OnConnect(t) \/ OnConnectTimeout(t) \/ CallClose(t)) /\ UNCHANGED <<streamVars, ret>>
  BY <1>4 DEF OnConnect, OnConnectTimeout, CallClose, streamVars, receiveVars
<1> QED
  BY <1>1, <1>2, <1>3, <1>4

\* Every step of the stream keeps the receive token with its one owner.
LEMMA ReceiveTokenStep == TypeOK /\ ReceiveTokenExclusive /\ [Next]_vars => ReceiveTokenExclusive'
<1> SUFFICES ASSUME TypeOK, ReceiveTokenExclusive, [Next]_vars
             PROVE  ReceiveTokenExclusive'
  OBVIOUS
<1>0. ControlTypeOK /\ receiveToken \in {"FREE", "LOCK"} /\ reads \in Nat
  BY DEF TypeOK, DataTypeOK
<1> USE DEF Goto, Step, Call, Return, GoOnIf, ReceiveHolding, ReturnLabels, receiveVars, streamVars
<1>1. ASSUME NEW t \in Threads,
             \/ ReceiveCheckToken(t) \/ ReceiveCheckQuota(t) \/ ReadPendingSize(t)
             \/ ReceiveCheckPending(t) \/ ReceiveCheckConnected(t)
             \/ Deliver(t) \/ TriggerReceive(t)
      PROVE  ReceiveTokenExclusive'
  <2>1. \E to \in ReturnLabels \cup
              {"receive_check_quota", "receive_check_pending", "receive_add_swapped",
               "receive_add_pending", "receive_check_connected", "receive_acquire",
               "receive_check_token"} :
           pc' = [pc EXCEPT ![t] = to]
    BY <1>1, <1>0 DEF ReceiveCheckToken, ReceiveCheckQuota, ReadPendingSize,
       ReceiveCheckPending, ReceiveCheckConnected, Deliver, TriggerReceive, ControlTypeOK
  <2>2. UNCHANGED <<receiveToken, reads>>
    BY <1>1 DEF ReceiveCheckToken, ReceiveCheckQuota, ReadPendingSize,
       ReceiveCheckPending, ReceiveCheckConnected, Deliver, TriggerReceive
  <2> QED
    BY <2>1, <2>2, <1>0, ReceiveFrame
<1>2. ASSUME NEW t \in Threads, ReceiveAcquire(t) PROVE ReceiveTokenExclusive'
  <2>1. CASE receiveToken = "FREE"
    <3>1. reads = 0 /\ \A u \in Threads : pc[u] \notin ReceiveHolding
      BY <2>1, <1>0 DEF ReceiveTokenExclusive, Holds
    <3> QED
      BY <1>2, <2>1, <3>1, <1>0 DEF ReceiveAcquire, ReceiveTokenExclusive, Holds, ControlTypeOK
  <2>2. CASE receiveToken # "FREE"
    BY <1>2, <2>2, <1>0, ReceiveFrame DEF ReceiveAcquire, ControlTypeOK
  <2> QED
    BY <2>1, <2>2
<1>3. ASSUME NEW t \in Threads, StartReceiving(t) PROVE ReceiveTokenExclusive'
  <2>1. /\ receiveToken = "LOCK" /\ reads = 0 /\ UNCHANGED receiveToken
        /\ \A u \in Threads \ {t} : pc[u] \notin ReceiveHolding
    BY <1>3 DEF StartReceiving, ReceiveTokenExclusive, Holds
  <2>2. CASE Step(t, "receive_quota", "receive_release") /\ UNCHANGED reads
    BY <2>1, <2>2, <1>0 DEF ReceiveTokenExclusive, Holds, ControlTypeOK
  <2>3. CASE Return(t, "receive_quota") /\ reads' = reads + 1
    <3>1. \A u \in Threads : pc'[u] \notin ReceiveHolding
      BY <2>1, <2>3, <1>0 DEF ControlTypeOK
    <3> QED
      BY <2>1, <2>3, <3>1 DEF ReceiveTokenExclusive, Holds
  <2> QED
    BY <1>3, <2>2, <2>3 DEF StartReceiving
<1>4. ASSUME NEW t \in Threads, ReceiveRelease(t) \/ ReadRelease(t) PROVE ReceiveTokenExclusive'
  <2>1. reads = 0 /\ UNCHANGED reads /\ \A u \in Threads \ {t} : pc[u] \notin ReceiveHolding
    BY <1>4 DEF ReceiveRelease, ReadRelease, ReceiveTokenExclusive, Holds
  <2>2. \E to \in ReturnLabels : pc' = [pc EXCEPT ![t] = to]
    BY <1>4, <1>0 DEF ReceiveRelease, ReadRelease, ControlTypeOK
  <2>3. \A u \in Threads : pc'[u] \notin ReceiveHolding
    BY <2>1, <2>2, <1>0 DEF ControlTypeOK
  <2> QED
    BY <2>1, <2>3 DEF ReceiveTokenExclusive, Holds
<1>5. ASSUME NEW t \in Threads, OnReadSome(t) PROVE ReceiveTokenExclusive'
  <2>1. /\ receiveToken = "LOCK" /\ UNCHANGED receiveToken /\ reads' = 0
        /\ \A u \in Threads : pc[u] \notin ReceiveHolding
    BY <1>5, <1>0 DEF OnReadSome, ReceiveTokenExclusive, Holds
  <2>2. \E to \in {"idle", "close", "read_release"} : pc' = [pc EXCEPT ![t] = to]
    BY <1>5 DEF OnReadSome
  <2> QED
    BY <2>1, <2>2, <1>0 DEF ReceiveTokenExclusive, Holds, ControlTypeOK
<1>6. ASSUME NEW t \in Threads,
             \/ SendStep(t) \/ ConnectionStep(t) \/ Connected(t) \/ OnWriteSome(t)
             \/ \E m \in Messages : AsyncSendMessage(t, m)
             \/ OnConnect(t) /\ UNCHANGED <<streamVars, ret>>
             \/ OnConnectTimeout(t) /\ UNCHANGED <<streamVars, ret>>
             \/ CallClose(t) /\ UNCHANGED <<streamVars, ret>>
      PROVE  ReceiveTokenExclusive'
  <2>1. PICK to : /\ pc' = [pc EXCEPT ![t] = to] /\ to \notin ReceiveHolding
                  /\ UNCHANGED <<receiveToken, reads>>
    BY <1>0, <1>6, OutsideReceiving
  <2> QED
    BY <2>1, <1>0, ReceiveFrame
<1>7. CASE TimerMaintain
  BY <1>7, <1>0, ReceiveFrame DEF TimerMaintain, Threads
<1>8. CASE UNCHANGED vars
  BY <1>8 DEF vars, byteVars, ReceiveTokenExclusive, Holds
<1> QED
  BY <1>1, <1>2, <1>3, <1>4, <1>5, <1>6, <1>7, <1>8, CallersAssumption
     DEF Next, ThreadStep, ReceiveStep, Handler, Threads

\* At any time at most one thread or one read in flight works on the receive
\* buffer: async_read_some is never called while a read is in flight.
THEOREM ReceiveTokenCorrect == Spec => []ReceiveTokenExclusive
<1>1. Init => ReceiveTokenExclusive
  <2> SUFFICES ASSUME Init PROVE ReceiveTokenExclusive
    OBVIOUS
  <2>1. pc \in [Threads -> {"idle", "async_connect", "accept"}]
    BY DEF Init, ByteInit
  <2> QED
    BY <2>1 DEF Init, ReceiveTokenExclusive, Holds, ReceiveHolding
<1> QED
  BY <1>1, ReceiveTokenStep, TypeCorrect, PTL DEF Spec

----------------------------------------------------------------------------
(* The steps of ByteStream, whatever else the threads do between them: L is *)
(* the set of all their labels.                                             *)

\* The threads about to call the hook are finitely many.
LEMMA HookFinite == IsFiniteSet(RunningHook) /\ Cardinality(RunningHook) \in Nat
<1>1. IsFiniteSet(Threads)
  BY ThreadAssumption, FS_AddElement DEF Threads
<1>2. RunningHook \in SUBSET Threads
  BY DEF RunningHook
<1> QED
  BY <1>1, <1>2, FS_Subset, FS_CardinalityType

\* Closing the stream starts a call of the hook, and the call ends there.
LEMMA AccountingClose ==
    ASSUME NEW L, pc \in [Threads -> L], closedRuns \in Nat, revived \in Nat, ClosedAccounting,
           NEW t \in Threads, Close(t) \/ OnClosed(t)
    PROVE  ClosedAccounting'
<1> USE DEF Goto
<1>1. CASE Close(t)
  <2>1. CASE status = "CLOSED"
    <3>1. RunningHook' = RunningHook
      BY <1>1, <2>1 DEF Close, RunningHook
    <3> QED
      BY <1>1, <2>1, <3>1 DEF Close, ClosedAccounting
  <2>2. CASE status # "CLOSED"
    <3>1. RunningHook' = RunningHook \cup {t} /\ t \notin RunningHook
      BY <1>1, <2>2 DEF Close, RunningHook
    <3>2. Cardinality(RunningHook') = Cardinality(RunningHook) + 1
      BY <3>1, HookFinite, FS_AddElement
    <3> QED
      BY <1>1, <2>2, <3>2, HookFinite DEF Close, ClosedAccounting
  <2> QED
    BY <2>1, <2>2
<1>2. CASE OnClosed(t)
  <2>1. RunningHook' = RunningHook \ {t} /\ t \in RunningHook
    BY <1>2 DEF OnClosed, RunningHook
  <2>2. Cardinality(RunningHook') = Cardinality(RunningHook) - 1
    BY <2>1, HookFinite, FS_RemoveElement
  <2> QED
    BY <1>2, <2>2, HookFinite DEF OnClosed, ClosedAccounting
<1> QED
  BY <1>1, <1>2

\* A plain store that undoes a close is one more passage to come.
LEMMA AccountingStore ==
    ASSUME NEW L, pc \in [Threads -> L], closedRuns \in Nat, revived \in Nat, ClosedAccounting,
           NEW t \in Threads, NEW next, next # "on_closed",
           AsyncConnect(t) \/ StoreConnected(t, next)
    PROVE  ClosedAccounting'
<1>1. RunningHook' = RunningHook
  BY DEF AsyncConnect, StoreConnected, Goto, RunningHook
<1>2. closedRuns' = closedRuns /\ StoreStatus(status') /\ status' # "CLOSED"
  BY DEF AsyncConnect, StoreConnected, StoreStatus
<1> QED
  BY <1>1, <1>2, HookFinite DEF StoreStatus, ClosedAccounting

\* Steps that have nothing to do with closing.
LEMMA AccountingMove ==
    ASSUME NEW L, pc \in [Threads -> L], ClosedAccounting,
           NEW t \in Threads, NEW from, NEW to, from # "on_closed", to # "on_closed",
           Goto(t, from, to), UNCHANGED <<status, closedRuns, revived>>
    PROVE  ClosedAccounting'
<1>1. RunningHook' = RunningHook
  BY DEF Goto, RunningHook
<1> QED
  BY <1>1 DEF ClosedAccounting

----------------------------------------------------------------------------

OpeningLabels == {"async_connect", "accept", "store_connected"}

\* A stream whose close is final.
Final == status = "CLOSED" /\ ~Opening

\* A thread that does not begin to open the connection leaves it so.
LEMMA FinalMove ==
    ASSUME NEW L, pc \in [Threads -> L], Final, NEW t \in Threads, NEW from, NEW to,
           to \notin OpeningLabels, Goto(t, from, to), UNCHANGED <<status, connecting>>
    PROVE  Final'
  BY DEF Final, Opening, OpeningLabels, Goto

\* Nothing in the life of a connection takes a final close back.
LEMMA FinalByte ==
    ASSUME NEW L, pc \in [Threads -> L], Final, NEW t \in Threads, NEW next,
           \/ AsyncConnect(t) \/ Accept(t) \/ StoreConnected(t, next) \/ Close(t) \/ OnClosed(t)
           \/ OnConnect(t) \/ OnConnectTimeout(t) \/ CallClose(t)
    PROVE  Final'
<1>1. CASE AsyncConnect(t) \/ Accept(t) \/ StoreConnected(t, next) \/ OnConnect(t)
  BY <1>1 DEF AsyncConnect, Accept, StoreConnected, OnConnect, Goto, Final, Opening
<1>2. CASE Close(t)
  BY <1>2 DEF Close, Goto, Final, Opening
<1>3. CASE OnClosed(t) \/ CallClose(t)
  BY <1>3 DEF OnClosed, CallClose, Goto, Final, Opening
<1>4. CASE OnConnectTimeout(t)
  BY <1>4 DEF OnConnectTimeout, Goto, Final, Opening
<1> QED
  BY <1>1, <1>2, <1>3, <1>4

----------------------------------------------------------------------------
(* The connection under the stream *)

\* Threads that send and receive neither call the hook of close() nor open the
\* connection.
StreamLabels == Labels \ ({"on_closed"} \cup OpeningLabels)

Moves(t) == \E from, to \in StreamLabels : Step(t, from, to)

\* Sending and receiving leave the connection alone.
LEMMA StreamMoves ==
    ASSUME ControlTypeOK, NEW t \in Threads,
           \/ SendStep(t) \/ ReceiveStep(t) \/ OnWriteSome(t) \/ OnReadSome(t)
           \/ \E m \in Messages : AsyncSendMessage(t, m)
    PROVE  Moves(t)
<1> USE DEF StreamLabels, OpeningLabels, Labels, ByteLabels, SendHolding, ReceiveHolding,
            ReturnLabels, ControlTypeOK
<1>1. ret[t] \in StreamLabels
  OBVIOUS
<1>2. ASSUME NEW from \in StreamLabels, NEW to \in StreamLabels, Step(t, from, to) PROVE Moves(t)
  BY <1>2 DEF Moves
<1>3. ASSUME NEW from \in StreamLabels, Return(t, from) PROVE Moves(t)
  BY <1>1, <1>2, <1>3 DEF Return
<1>4. ASSUME NEW condition, NEW from \in StreamLabels, NEW to \in StreamLabels,
             GoOnIf(condition, t, from, to)
      PROVE  Moves(t)
  BY <1>2, <1>3, <1>4 DEF GoOnIf
<1>5. CASE SendStep(t)
  <2>1. CASE \/ SendCheckToken(t) \/ SendCheckQuota(t) \/ SendCheckConnected(t)
             \/ SendAcquire(t) \/ SendRecheck(t)
    BY <1>4, <2>1 DEF SendCheckToken, SendCheckQuota, SendCheckConnected, SendAcquire, SendRecheck
  <2>2. CASE \/ PutIntoPendingQueue(t) \/ SwapPendingQueue(t) \/ FetchFront(t)
             \/ CancelSending(t) \/ InsertIntoPendingQueue(t) \/ WriteRelease(t) \/ TriggerSend(t)
    BY <1>2, <2>2 DEF PutIntoPendingQueue, SwapPendingQueue, FetchFront, CancelSending,
       InsertIntoPendingQueue, WriteRelease, TriggerSend, Call
  <2>3. CASE StartSending(t) \/ SendRelease(t)
    BY <1>2, <1>3, <2>3 DEF StartSending, SendRelease
  <2> QED
    BY <1>5, <2>1, <2>2, <2>3 DEF SendStep
<1>6. CASE ReceiveStep(t)
  <2>1. CASE \/ ReceiveCheckToken(t) \/ ReceiveCheckQuota(t)
             \/ ReceiveCheckPending(t) \/ ReceiveCheckConnected(t) \/ ReceiveAcquire(t)
    BY <1>4, <2>1 DEF ReceiveCheckToken, ReceiveCheckQuota, ReceiveCheckPending,
       ReceiveCheckConnected, ReceiveAcquire
  <2>2. CASE ReadPendingSize(t) \/ ReadRelease(t) \/ Deliver(t) \/ TriggerReceive(t)
    BY <1>2, <2>2 DEF ReadPendingSize, ReadRelease, Deliver, TriggerReceive, Call
  <2>3. CASE StartReceiving(t) \/ ReceiveRelease(t)
    BY <1>2, <1>3, <2>3 DEF StartReceiving, ReceiveRelease
  <2> QED
    BY <1>6, <2>1, <2>2, <2>3 DEF ReceiveStep
<1>7. CASE OnWriteSome(t) \/ OnReadSome(t) \/ \E m \in Messages : AsyncSendMessage(t, m)
  BY <1>2, <1>7 DEF OnWriteSome, OnReadSome, AsyncSendMessage
<1> QED
  BY <1>5, <1>6, <1>7

\* A step is one of sending and receiving or one of the connection.
LEMMA StepKinds ==
    ASSUME ControlTypeOK, Next
    PROVE  \E t \in Threads :
              \/ Moves(t)
              \/ AsyncConnect(t) \/ Accept(t) \/ StoreConnected(t, "trigger_receive")
              \/ Close(t) \/ OnClosed(t) \/ OnConnect(t) \/ OnConnectTimeout(t) \/ CallClose(t)
<1>1. TimerMaintain => Moves(Timer)
  BY DEF TimerMaintain, Moves, StreamLabels, OpeningLabels, Labels, ByteLabels
<1> QED
  BY <1>1, StreamMoves, CallersAssumption
     DEF Next, ThreadStep, ConnectionStep, Connected, Handler, Threads

\* Every passage of a stream into CLOSED runs on_closed() exactly once, those
\* that the opening has undone included, whatever its threads are doing: the
\* atomic swap of close() lets one thread of each passage go on.
THEOREM CloseAccounted == Spec => []ClosedAccounting
<1>1. Init => ClosedAccounting
  <2> SUFFICES ASSUME Init PROVE ClosedAccounting
    OBVIOUS
  <2>1. RunningHook = {}
    BY DEF Init, ByteInit, RunningHook
  <2> QED
    BY <2>1, FS_EmptySet DEF Init, ByteInit, ClosedAccounting
<1>2. TypeOK /\ ClosedAccounting /\ [Next]_vars => ClosedAccounting'
  <2> SUFFICES ASSUME TypeOK, ClosedAccounting, [Next]_vars PROVE ClosedAccounting'
    OBVIOUS
  <2>1. ControlTypeOK /\ pc \in [Threads -> Labels] /\ closedRuns \in Nat /\ revived \in Nat
    BY DEF TypeOK, ControlTypeOK
  <2>2. ASSUME NEW t \in Threads, Moves(t) PROVE ClosedAccounting'
    BY <2>1, <2>2, AccountingMove DEF Moves, StreamLabels, Step
  <2>3. ASSUME NEW t \in Threads, AsyncConnect(t) \/ StoreConnected(t, "trigger_receive")
        PROVE  ClosedAccounting'
    BY <2>1, <2>3, AccountingStore
  <2>4. ASSUME NEW t \in Threads, Close(t) \/ OnClosed(t) PROVE ClosedAccounting'
    BY <2>1, <2>4, AccountingClose
  <2>5. ASSUME NEW t \in Threads, Accept(t) \/ OnConnect(t) \/ OnConnectTimeout(t) \/ CallClose(t)
        PROVE  ClosedAccounting'
    <3>1. UNCHANGED <<status, closedRuns, revived>>
      BY <2>5 DEF Accept, OnConnect, OnConnectTimeout, CallClose
    <3>2. \E from, to \in {"idle", "accept", "close", "store_connected"} : Goto(t, from, to)
      BY <2>5 DEF Accept, OnConnect, OnConnectTimeout, CallClose
    <3> QED
      BY <2>1, <3>1, <3>2, AccountingMove
  <2>6. CASE UNCHANGED vars
    BY <2>6 DEF vars, byteVars, ClosedAccounting, RunningHook
  <2> QED
    BY <2>1, <2>2, <2>3, <2>4, <2>5, <2>6, StepKinds
<1> QED
  BY <1>1, <1>2, TypeCorrect, PTL DEF Spec

\* Once the connect has ended and no thread is about to store a status, no
\* step takes a stream out of CLOSED or starts to open it again: a stale check
\* of _status can undo a close only while the connection is being opened.
THEOREM CloseOfEstablishedIsFinal == Spec => ClosedIsFinal
<1>1. TypeOK /\ [Next]_vars => (Final => Final')
  <2> SUFFICES ASSUME TypeOK, [Next]_vars, Final PROVE Final'
    OBVIOUS
  <2>1. ControlTypeOK /\ pc \in [Threads -> Labels]
    BY DEF TypeOK, ControlTypeOK
  <2>2. ASSUME NEW t \in Threads, Moves(t) PROVE Final'
    BY <2>1, <2>2, FinalMove DEF Moves, StreamLabels, Step, openVars
  <2>3. CASE UNCHANGED vars
    BY <2>3 DEF vars, byteVars, Final, Opening
  <2> QED
    BY <2>1, <2>2, <2>3, FinalByte, StepKinds
<1>2. TypeOK /\ [Next]_vars =>
          [status = "CLOSED" /\ ~Opening => status' = "CLOSED" /\ ~Opening']_byteVars
  BY <1>1 DEF Final
<1> QED
  BY <1>2, TypeCorrect, PTL DEF Spec, ClosedIsFinal

----------------------------------------------------------------------------
(* Who acts *)

\* The steps of thread t.
StepOf(t) ==
    \/ SendStep(t) \/ ReceiveStep(t) \/ ConnectionStep(t) \/ Connected(t)
    \/ OnWriteSome(t) \/ OnReadSome(t)
    \/ (OnConnect(t) \/ OnConnectTimeout(t) \/ CallClose(t)) /\ UNCHANGED <<streamVars, ret>>
    \/ \E m \in Messages : AsyncSendMessage(t, m)
    \/ t = Timer /\ TimerMaintain

\* Every step is one of one thread.
LEMMA StepOfOne == Next => \E t \in Threads : StepOf(t)
  BY CallersAssumption DEF Next, ThreadStep, Handler, StepOf, Threads

\* A step of thread t leaves the other threads where they are.
OthersStay(t) ==
    \A u \in Threads \ {t} :
        pc'[u] = pc[u] /\ ret'[u] = ret[u] /\ arg'[u] = arg[u] /\ sizeRead'[u] = sizeRead[u]

\* No thread writes where another one is or what it carries.
LEMMA OthersStayPut ==
    ASSUME TypeOK, NEW t \in Threads, StepOf(t)
    PROVE  OthersStay(t)
<1> USE DEF TypeOK, ControlTypeOK, DataTypeOK, OthersStay, Goto, Step, Call, Return, GoOnIf,
            streamVars, queueVars, sendVars, receiveVars
<1>1. CASE SendStep(t)
  <2>1. CASE \/ PutIntoPendingQueue(t) \/ SendCheckToken(t) \/ SendCheckQuota(t)
             \/ SendCheckConnected(t) \/ SendAcquire(t) \/ SwapPendingQueue(t) \/ FetchFront(t)
    BY <2>1 DEF PutIntoPendingQueue, SendCheckToken, SendCheckQuota, SendCheckConnected,
       SendAcquire, SwapPendingQueue, FetchFront
  <2>2. CASE \/ CancelSending(t) \/ StartSending(t) \/ InsertIntoPendingQueue(t)
             \/ SendRelease(t) \/ SendRecheck(t) \/ WriteRelease(t) \/ TriggerSend(t)
    BY <2>2 DEF CancelSending, StartSending, InsertIntoPendingQueue, SendRelease, SendRecheck,
       WriteRelease, TriggerSend
  <2> QED
    BY <1>1, <2>1, <2>2 DEF SendStep
<1>2. CASE ReceiveStep(t)
  <2>1. CASE \/ ReceiveCheckToken(t) \/ ReceiveCheckQuota(t) \/ ReadPendingSize(t)
             \/ ReceiveCheckPending(t) \/ ReceiveCheckConnected(t) \/ ReceiveAcquire(t)
    BY <2>1 DEF ReceiveCheckToken, ReceiveCheckQuota, ReadPendingSize, ReceiveCheckPending,
       ReceiveCheckConnected, ReceiveAcquire
  <2>2. CASE \/ StartReceiving(t) \/ ReceiveRelease(t) \/ ReadRelease(t) \/ Deliver(t)
             \/ TriggerReceive(t)
    BY <2>2 DEF StartReceiving, ReceiveRelease, ReadRelease, Deliver, TriggerReceive
  <2> QED
    BY <1>2, <2>1, <2>2 DEF ReceiveStep
<1>3. CASE ConnectionStep(t) \/ Connected(t)
  BY <1>3 DEF ConnectionStep, Connected, AsyncConnect, Accept, Close, OnClosed, StoreConnected
<1>4. CASE OnWriteSome(t) \/ OnReadSome(t) \/ \E m \in Messages : AsyncSendMessage(t, m)
  BY <1>4 DEF OnWriteSome, OnReadSome, AsyncSendMessage
<1>5. CASE (OnConnect(t) \/ OnConnectTimeout(t) \/ CallClose(t)) /\ UNCHANGED <<streamVars, ret>>
  BY <1>5 DEF OnConnect, OnConnectTimeout, CallClose
<1>6. CASE t = Timer /\ TimerMaintain
  BY <1>6 DEF TimerMaintain
<1> QED
  BY <1>1, <1>2, <1>3, <1>4, <1>5, <1>6 DEF StepOf

----------------------------------------------------------------------------
(* Where a thread returns to *)

\* The steps of try_start_send() and try_start_receive().
SendFlow ==
    {"send_check_token", "send_check_quota", "send_check_connected", "send_acquire",
     "send_recheck"} \cup (SendHolding \ {"write_release"})

SizeFlow == {"receive_check_pending", "receive_add_pending", "receive_add_swapped"}

ReceiveFlow ==
    {"receive_check_token", "receive_check_quota", "receive_check_connected",
     "receive_acquire", "receive_quota", "receive_release"} \cup SizeFlow

\* Only those have callers to go back to, and a client never asks for the size
\* of its queue.
ReturnOK(t) ==
    /\ ret[t] = "trigger_send" => pc[t] \in {"trigger_receive"} \cup ReceiveFlow
    /\ ret[t] = "receive_check_token" => Role = "server" /\ pc[t] \in SendFlow
    /\ ret[t] = "deliver" => pc[t] \in ReceiveFlow
    /\ pc[t] \in SizeFlow => Role = "server"

ReturnsOK == \A t \in Threads : ReturnOK(t)

\* Every step keeps the return places where they may be.
LEMMA ReturnsStep == TypeOK /\ ReturnsOK /\ [Next]_vars => ReturnsOK'
<1> SUFFICES ASSUME TypeOK, ReturnsOK, [Next]_vars
             PROVE  ReturnsOK'
  OBVIOUS
<1>1. ASSUME NEW t \in Threads, StepOf(t) PROVE ReturnOK(t)'
  <2> ControlTypeOK /\ ReturnOK(t)
    BY DEF TypeOK, ReturnsOK
  <2> USE DEF ControlTypeOK, ReturnOK, SendFlow, ReceiveFlow, SizeFlow, SendHolding, ReturnLabels,
              Goto, Step, Call, Return, GoOnIf, streamVars
  <2>1. CASE SendStep(t)
    <3>1. CASE \/ PutIntoPendingQueue(t) \/ SendCheckToken(t) \/ SendCheckQuota(t)
               \/ SendCheckConnected(t) \/ SendAcquire(t) \/ SwapPendingQueue(t) \/ FetchFront(t)
      BY <3>1 DEF PutIntoPendingQueue, SendCheckToken, SendCheckQuota, SendCheckConnected,
         SendAcquire, SwapPendingQueue, FetchFront
    <3>2. CASE \/ CancelSending(t) \/ StartSending(t) \/ InsertIntoPendingQueue(t)
               \/ SendRelease(t) \/ SendRecheck(t) \/ WriteRelease(t) \/ TriggerSend(t)
      BY <3>2 DEF CancelSending, StartSending, InsertIntoPendingQueue, SendRelease, SendRecheck,
         WriteRelease, TriggerSend
    <3> QED
      BY <2>1, <3>1, <3>2 DEF SendStep
  <2>2. CASE ReceiveStep(t)
    <3>1. CASE \/ ReceiveCheckToken(t) \/ ReceiveCheckQuota(t) \/ ReadPendingSize(t)
               \/ ReceiveCheckPending(t) \/ ReceiveCheckConnected(t) \/ ReceiveAcquire(t)
      BY <3>1 DEF ReceiveCheckToken, ReceiveCheckQuota, ReadPendingSize, ReceiveCheckPending,
         ReceiveCheckConnected, ReceiveAcquire
    <3>2. CASE \/ StartReceiving(t) \/ ReceiveRelease(t) \/ ReadRelease(t) \/ Deliver(t)
               \/ TriggerReceive(t)
      BY <3>2 DEF StartReceiving, ReceiveRelease, ReadRelease, Deliver, TriggerReceive
    <3> QED
      BY <2>2, <3>1, <3>2 DEF ReceiveStep
  <2>3. CASE ConnectionStep(t) \/ Connected(t)
    BY <2>3 DEF ConnectionStep, Connected, AsyncConnect, Accept, Close, OnClosed, StoreConnected
  <2>4. CASE OnWriteSome(t) \/ OnReadSome(t) \/ \E m \in Messages : AsyncSendMessage(t, m)
    BY <2>4 DEF OnWriteSome, OnReadSome, AsyncSendMessage
  <2>5. CASE (OnConnect(t) \/ OnConnectTimeout(t) \/ CallClose(t)) /\ UNCHANGED <<streamVars, ret>>
    BY <2>5 DEF OnConnect, OnConnectTimeout, CallClose
  <2>6. CASE t = Timer /\ TimerMaintain
    BY <2>6 DEF TimerMaintain
  <2> QED
    BY <1>1, <2>1, <2>2, <2>3, <2>4, <2>5, <2>6 DEF StepOf
<1>2. ASSUME NEW t \in Threads, StepOf(t) PROVE ReturnsOK'
  BY <1>1, <1>2, OthersStayPut DEF ReturnsOK, ReturnOK, OthersStay
<1>3. CASE UNCHANGED vars
  BY <1>3 DEF vars, byteVars, ReturnsOK, ReturnOK
<1> QED
  BY <1>2, <1>3, StepOfOne

----------------------------------------------------------------------------
(* The connection is opened once, and used only then *)

OpenInv ==
    /\ \A t, u \in Threads : pc[t] \in OpeningLabels /\ pc[u] \in OpeningLabels => t = u
    /\ connecting = "pending" => \A t \in Threads : pc[t] \notin OpeningLabels
    /\ Opening =>
          /\ status # "CONNECTED" /\ sendToken = "FREE" /\ receiveToken = "FREE"
          /\ \A t \in Threads : pc[t] \notin {"send_acquire", "receive_acquire"}

\* A step that neither opens the connection nor passes a check of it.
LEMMA OpenFrame ==
    ASSUME TypeOK, OpenInv, NEW t \in Threads, OthersStay(t),
           pc'[t] \notin OpeningLabels \cup {"send_acquire", "receive_acquire"},
           connecting' = connecting,
           Opening => /\ status' # "CONNECTED"
                      /\ UNCHANGED <<sendToken, receiveToken>>
    PROVE  OpenInv'
<1> USE DEF OpenInv, Opening, OthersStay, OpeningLabels
<1>1. /\ \A u \in Threads : pc'[u] \in OpeningLabels => u # t /\ pc[u] \in OpeningLabels
      /\ \A u \in Threads : pc'[u] \in {"send_acquire", "receive_acquire"} => pc[u] = pc'[u]
  OBVIOUS
<1>2. Opening' => Opening
  BY <1>1
<1> QED
  BY <1>1, <1>2

\* The stream is connected, and its tokens are taken, only after the opening.
LEMMA OpenStep ==
    TypeOK /\ SendInv /\ ReceiveTokenExclusive /\ OpenInv /\ [Next]_vars => OpenInv'
<1> SUFFICES ASSUME TypeOK, SendInv, ReceiveTokenExclusive, OpenInv, [Next]_vars
             PROVE  OpenInv'
  OBVIOUS
<1>1. ControlTypeOK /\ SendTokenExclusive
  BY DEF TypeOK, SendInv
<1>2. ASSUME NEW t \in Threads, SendStep(t) \/ ReceiveStep(t), OthersStay(t)
      PROVE  OpenInv'
  <2> USE DEF Goto, Step, Call, Return, GoOnIf, streamVars, queueVars, sendVars, receiveVars,
              openVars
  <2>1. UNCHANGED <<status, connecting>>
    BY <1>1, <1>2, StreamMoves DEF Moves
  <2>2. CASE SendCheckConnected(t) /\ status = "CONNECTED"
    BY <1>1, <1>2, <2>1, <2>2 DEF SendCheckConnected, OpenInv, Opening, OthersStay, ControlTypeOK,
       OpeningLabels
  <2>3. CASE ReceiveCheckConnected(t) /\ status = "CONNECTED"
    BY <1>1, <1>2, <2>1, <2>3 DEF ReceiveCheckConnected, OpenInv, Opening, OthersStay,
       ControlTypeOK, OpeningLabels
  <2>4. CASE ~(SendCheckConnected(t) /\ status = "CONNECTED")
             /\ ~(ReceiveCheckConnected(t) /\ status = "CONNECTED")
    <3>1. pc'[t] \notin OpeningLabels \cup {"send_acquire", "receive_acquire"}
      <4> USE DEF ControlTypeOK, OpeningLabels, ReturnLabels
      <4>1. CASE SendStep(t)
        BY <1>1, <2>4, <4>1
           DEF SendStep, PutIntoPendingQueue, SendCheckToken, SendCheckQuota, SendCheckConnected,
               SendAcquire, SwapPendingQueue, FetchFront, CancelSending, StartSending,
               InsertIntoPendingQueue, SendRelease, SendRecheck, WriteRelease, TriggerSend
      <4>2. CASE ReceiveStep(t)
        BY <1>1, <2>4, <4>2
           DEF ReceiveStep, ReceiveCheckToken, ReceiveCheckQuota, ReadPendingSize,
               ReceiveCheckPending, ReceiveCheckConnected, ReceiveAcquire, StartReceiving,
               ReceiveRelease, ReadRelease, Deliver, TriggerReceive
      <4> QED
        BY <1>2, <4>1, <4>2
    <3>2. Opening => UNCHANGED <<sendToken, receiveToken>>
      <4> SUFFICES ASSUME Opening PROVE UNCHANGED <<sendToken, receiveToken>>
        OBVIOUS
      <4>1. pc[t] \notin {"send_acquire", "receive_acquire"} \cup SendHolding \cup ReceiveHolding
        BY <1>1 DEF OpenInv, SendTokenExclusive, ReceiveTokenExclusive, Holds
      <4>2. ~SendAcquire(t) /\ ~SendRelease(t) /\ ~WriteRelease(t)
        BY <4>1 DEF SendAcquire, SendRelease, WriteRelease, SendHolding
      <4>3. ~ReceiveAcquire(t) /\ ~ReceiveRelease(t) /\ ~ReadRelease(t)
        BY <4>1 DEF ReceiveAcquire, ReceiveRelease, ReadRelease, ReceiveHolding
      <4>4. CASE SendStep(t)
        BY <4>2, <4>4
           DEF SendStep, PutIntoPendingQueue, SendCheckToken, SendCheckQuota, SendCheckConnected,
               SwapPendingQueue, FetchFront, CancelSending, StartSending,
               InsertIntoPendingQueue, SendRecheck, TriggerSend
      <4>5. CASE ReceiveStep(t)
        BY <4>3, <4>5
           DEF ReceiveStep, ReceiveCheckToken, ReceiveCheckQuota, ReadPendingSize,
               ReceiveCheckPending, ReceiveCheckConnected, StartReceiving, Deliver, TriggerReceive
      <4> QED
        BY <1>2, <4>4, <4>5
    <3>3. Opening => status' # "CONNECTED"
      BY <2>1 DEF OpenInv
    <3> QED
      BY <1>2, <2>1, <3>1, <3>2, <3>3, OpenFrame
  <2> QED
    BY <2>2, <2>3, <2>4
<1>3. ASSUME NEW t \in Threads, OthersStay(t),
             \/ OnWriteSome(t) \/ OnReadSome(t) \/ \E m \in Messages : AsyncSendMessage(t, m)
             \/ t = Timer /\ TimerMaintain
      PROVE  OpenInv'
  <2>1. /\ pc'[t] \in {"idle", "close", "write_release", "read_release", "enqueue",
                       "trigger_receive", "trigger_send"}
        /\ UNCHANGED <<status, connecting, sendToken, receiveToken>>
    BY <1>1, <1>3 DEF OnWriteSome, OnReadSome, AsyncSendMessage, TimerMaintain, Step, Goto,
       ControlTypeOK, streamVars, queueVars, sendVars, receiveVars, openVars
  <2> QED
    BY <1>3, <2>1, OpenFrame DEF OpeningLabels, OpenInv
<1>4. ASSUME NEW t \in Threads, OthersStay(t),
             \/ ConnectionStep(t) \/ Connected(t)
             \/ /\ OnConnect(t) \/ OnConnectTimeout(t) \/ CallClose(t)
                /\ UNCHANGED <<streamVars, ret>>
      PROVE  OpenInv'
  <2> UNCHANGED <<sendToken, receiveToken>>
    BY <1>4 DEF ConnectionStep, Connected, streamVars, sendVars, receiveVars
  <2> USE DEF OpenInv, Opening, OthersStay, ControlTypeOK, Goto, StoreStatus, OpeningLabels
  <2>1. CASE AsyncConnect(t)
    BY <1>1, <1>4, <2>1 DEF AsyncConnect
  <2>2. CASE Accept(t)
    BY <1>1, <1>4, <2>2 DEF Accept
  <2>3. CASE Close(t)
    BY <1>1, <1>4, <2>3 DEF Close
  <2>4. CASE OnClosed(t) \/ CallClose(t) \/ OnConnectTimeout(t)
    BY <1>1, <1>4, <2>4 DEF OnClosed, CallClose, OnConnectTimeout
  <2>5. CASE Connected(t)
    BY <1>1, <1>4, <2>5 DEF Connected, StoreConnected
  <2>6. CASE OnConnect(t)
    BY <1>1, <1>4, <2>6 DEF OnConnect
  <2> QED
    BY <1>4, <2>1, <2>2, <2>3, <2>4, <2>5, <2>6 DEF ConnectionStep
<1>5. CASE UNCHANGED vars
  BY <1>5 DEF vars, byteVars, sendVars, receiveVars, OpenInv, Opening
<1> QED
  BY <1>2, <1>3, <1>4, <1>5, StepOfOne, OthersStayPut DEF StepOf

----------------------------------------------------------------------------
(* Nobody keeps a token *)

\* On a connected stream a token is held by a thread, by the operation in
\* flight, or by a thread that is about to close the stream.
TokenInv ==
    status = "CONNECTED" =>
        /\ sendToken = "LOCK" =>
              writes > 0 \/ \E t \in Threads : pc[t] \in SendHolding \cup {"close"}
        /\ receiveToken = "LOCK" =>
              reads > 0 \/ \E t \in Threads : pc[t] \in ReceiveHolding \cup {"close"}

\* A step that neither leaves a taken token without an owner nor connects.
LEMMA TokenFrame ==
    ASSUME TokenInv, NEW t \in Threads, OthersStay(t),
           status' = "CONNECTED" =>
              /\ status = "CONNECTED"
              /\ /\ sendToken' = "LOCK" /\ ~(writes' > 0)
                 /\ pc'[t] \notin SendHolding \cup {"close"}
                 => /\ sendToken = "LOCK" /\ ~(writes > 0)
                    /\ pc[t] \notin SendHolding \cup {"close"}
              /\ /\ receiveToken' = "LOCK" /\ ~(reads' > 0)
                 /\ pc'[t] \notin ReceiveHolding \cup {"close"}
                 => /\ receiveToken = "LOCK" /\ ~(reads > 0)
                    /\ pc[t] \notin ReceiveHolding \cup {"close"}
    PROVE  TokenInv'
  BY DEF TokenInv, OthersStay

\* No step leaves a token of a connected stream without an owner.
LEMMA TokenStep ==
    TypeOK /\ OpenInv /\ TokenInv /\ [Next]_vars => TokenInv'
<1> SUFFICES ASSUME TypeOK, OpenInv, TokenInv, [Next]_vars
             PROVE  TokenInv'
  OBVIOUS
<1>1. ControlTypeOK /\ writes \in Nat /\ reads \in Nat
  BY DEF TypeOK, DataTypeOK
<1> USE DEF Goto, Step, Call, Return, GoOnIf, streamVars, queueVars, sendVars, receiveVars,
            SendHolding, ReceiveHolding, ControlTypeOK, ReturnLabels
<1>2. ASSUME NEW t \in Threads, SendStep(t), OthersStay(t)
      PROVE  TokenInv'
  <2>1. /\ UNCHANGED <<status, receiveToken, reads>>
        /\ pc[t] \notin ReceiveHolding \cup {"close"}
    <3>1. UNCHANGED <<status, receiveToken, reads>>
      BY <1>1, <1>2, StreamMoves, OutsideReceiving DEF Moves
    <3> QED
      BY <1>2, <3>1
         DEF SendStep, PutIntoPendingQueue, SendCheckToken, SendCheckQuota, SendCheckConnected,
             SendAcquire, SwapPendingQueue, FetchFront, CancelSending, StartSending,
             InsertIntoPendingQueue, SendRelease, SendRecheck, WriteRelease, TriggerSend
  <2>2. CASE \/ PutIntoPendingQueue(t) \/ SendCheckToken(t) \/ SendCheckQuota(t)
             \/ SendCheckConnected(t) \/ SendRecheck(t) \/ TriggerSend(t)
    <3>1. UNCHANGED <<sendToken, writes>> /\ pc[t] \notin SendHolding
      BY <2>2 DEF PutIntoPendingQueue, SendCheckToken, SendCheckQuota, SendCheckConnected,
         SendRecheck, TriggerSend
    <3> QED
      BY <1>2, <2>1, <3>1, TokenFrame
  <2>3. CASE \/ SwapPendingQueue(t) \/ FetchFront(t) \/ CancelSending(t)
             \/ InsertIntoPendingQueue(t)
    <3>1. pc'[t] \in SendHolding
      BY <1>1, <2>3 DEF SwapPendingQueue, FetchFront, CancelSending, InsertIntoPendingQueue
    <3> QED
      BY <1>2, <2>1, <3>1, TokenFrame
  <2>4. CASE SendAcquire(t)
    <3>1. \/ pc'[t] \in SendHolding
          \/ UNCHANGED <<sendToken, writes>> /\ pc[t] \notin SendHolding
      BY <1>1, <2>4 DEF SendAcquire, TypeOK, DataTypeOK
    <3> QED
      BY <1>2, <2>1, <3>1, TokenFrame
  <2>5. CASE StartSending(t)
    <3>1. pc'[t] \in SendHolding \/ writes' > 0
      BY <1>1, <2>5 DEF StartSending
    <3> QED
      BY <1>2, <2>1, <3>1, TokenFrame
  <2>6. CASE SendRelease(t) \/ WriteRelease(t)
    <3>1. sendToken' = "FREE"
      BY <2>6 DEF SendRelease, WriteRelease
    <3> QED
      BY <1>2, <2>1, <3>1, TokenFrame
  <2> QED
    BY <1>2, <2>2, <2>3, <2>4, <2>5, <2>6 DEF SendStep
<1>3. ASSUME NEW t \in Threads, ReceiveStep(t), OthersStay(t)
      PROVE  TokenInv'
  <2>1. /\ UNCHANGED <<status, sendToken, writes>>
        /\ pc[t] \notin SendHolding \cup {"close"}
    <3>1. UNCHANGED <<status, sendToken, writes>>
      BY <1>1, <1>3, StreamMoves, OutsideSending DEF Moves
    <3> QED
      BY <1>3, <3>1
         DEF ReceiveStep, ReceiveCheckToken, ReceiveCheckQuota, ReadPendingSize,
             ReceiveCheckPending, ReceiveCheckConnected, ReceiveAcquire, StartReceiving,
             ReceiveRelease, ReadRelease, Deliver, TriggerReceive
  <2>2. CASE \/ ReceiveCheckToken(t) \/ ReceiveCheckQuota(t) \/ ReadPendingSize(t)
             \/ ReceiveCheckPending(t) \/ ReceiveCheckConnected(t) \/ Deliver(t)
             \/ TriggerReceive(t)
    <3>1. UNCHANGED <<receiveToken, reads>> /\ pc[t] \notin ReceiveHolding
      BY <2>2 DEF ReceiveCheckToken, ReceiveCheckQuota, ReadPendingSize, ReceiveCheckPending,
         ReceiveCheckConnected, Deliver, TriggerReceive
    <3> QED
      BY <1>3, <2>1, <3>1, TokenFrame
  <2>3. CASE ReceiveAcquire(t)
    <3>1. \/ pc'[t] \in ReceiveHolding
          \/ UNCHANGED <<receiveToken, reads>> /\ pc[t] \notin ReceiveHolding
      BY <1>1, <2>3 DEF ReceiveAcquire, TypeOK, DataTypeOK
    <3> QED
      BY <1>3, <2>1, <3>1, TokenFrame
  <2>4. CASE StartReceiving(t)
    <3>1. pc'[t] \in ReceiveHolding \/ reads' > 0
      BY <1>1, <2>4 DEF StartReceiving
    <3> QED
      BY <1>3, <2>1, <3>1, TokenFrame
  <2>5. CASE ReceiveRelease(t) \/ ReadRelease(t)
    <3>1. receiveToken' = "FREE"
      BY <2>5 DEF ReceiveRelease, ReadRelease
    <3> QED
      BY <1>3, <2>1, <3>1, TokenFrame
  <2> QED
    BY <1>3, <2>2, <2>3, <2>4, <2>5 DEF ReceiveStep
<1>4. ASSUME NEW t \in Threads, OthersStay(t),
             \/ OnWriteSome(t) \/ OnReadSome(t) \/ \E m \in Messages : AsyncSendMessage(t, m)
             \/ t = Timer /\ TimerMaintain
      PROVE  TokenInv'
  BY <1>1, <1>4, TokenFrame DEF OnWriteSome, OnReadSome, AsyncSendMessage, TimerMaintain
<1>5. ASSUME NEW t \in Threads, OthersStay(t), Connected(t)
      PROVE  TokenInv'
  <2>1. sendToken' = "FREE" /\ receiveToken' = "FREE"
    BY <1>5 DEF Connected, StoreConnected, OpenInv, Opening
  <2> QED
    BY <2>1 DEF TokenInv
<1>6. ASSUME NEW t \in Threads, OthersStay(t),
             \/ ConnectionStep(t)
             \/ /\ OnConnect(t) \/ OnConnectTimeout(t) \/ CallClose(t)
                /\ UNCHANGED <<streamVars, ret>>
      PROVE  TokenInv'
  BY <1>1, <1>6, TokenFrame DEF ConnectionStep, AsyncConnect, Accept, Close, OnClosed, OnConnect,
     OnConnectTimeout, CallClose, StoreStatus
<1>7. CASE UNCHANGED vars
  BY <1>7 DEF vars, byteVars, TokenInv
<1> QED
  BY <1>2, <1>3, <1>4, <1>5, <1>6, <1>7, StepOfOne, OthersStayPut DEF StepOf

----------------------------------------------------------------------------
(* The message being sent *)

SendingInv ==
    /\ sendToken = "FREE" => sending = NoMessage
    /\ writes > 0 => sending \in Messages
    /\ \A t \in Threads :
          pc[t] \in SendHolding \ {"send_decide", "send_requeue"} => sending = NoMessage
    /\ \A t \in Threads : pc[t] = "send_release_empty" => swapped = <<>>

\* The receiving side and the connection leave the whole sending side alone.
LEMMA OutsideQueue ==
    ASSUME NEW t \in Threads,
           \/ ReceiveStep(t) \/ ConnectionStep(t) \/ Connected(t) \/ OnReadSome(t)
           \/ (OnConnect(t) \/ OnConnectTimeout(t) \/ CallClose(t)) /\ UNCHANGED <<streamVars, ret>>
           \/ TimerMaintain
    PROVE  UNCHANGED <<queueVars, sendVars>>
<1>1. CASE ReceiveStep(t)
  BY <1>1 DEF ReceiveStep, ReceiveCheckToken, ReceiveCheckQuota, ReadPendingSize,
     ReceiveCheckPending, ReceiveCheckConnected, ReceiveAcquire, StartReceiving, ReceiveRelease,
     ReadRelease, Deliver, TriggerReceive, streamVars
<1> QED
  BY <1>1 DEF ConnectionStep, Connected, OnReadSome, TimerMaintain, streamVars

\* A step that ends outside the protected part and leaves what it protects alone.
LEMMA SendingFrame ==
    ASSUME SendingInv, NEW t \in Threads, OthersStay(t), pc'[t] \notin SendHolding,
           UNCHANGED <<sendToken, writes, sending, swapped>>
    PROVE  SendingInv'
  BY DEF SendingInv, OthersStay, SendHolding

\* A step of the owner that keeps the token.
LEMMA SendingOwner ==
    ASSUME NEW t \in Threads, OthersStay(t), \A u \in Threads \ {t} : pc[u] \notin SendHolding,
           sendToken' = "LOCK", writes' = 0,
           pc'[t] \in SendHolding \ {"send_decide", "send_requeue"} => sending' = NoMessage,
           pc'[t] = "send_release_empty" => swapped' = <<>>
    PROVE  SendingInv'
  BY DEF SendingInv, OthersStay, SendHolding

\* Every step clears the message being sent before it gives the token back.
LEMMA SendingStep ==
    TypeOK /\ SendInv /\ SendingInv /\ [Next]_vars => SendingInv'
<1> SUFFICES ASSUME TypeOK, SendInv, SendingInv, [Next]_vars
             PROVE  SendingInv'
  OBVIOUS
<1>1. ControlTypeOK /\ DataTypeOK /\ SendTokenExclusive /\ MessagesAtHand
  BY DEF TypeOK, SendInv
<1> USE DEF Goto, Step, Call, Return, GoOnIf, ControlTypeOK, ReturnLabels, SendHolding,
            streamVars, queueVars, sendVars
<1>2. ASSUME NEW t \in Threads, OthersStay(t),
             \/ ReceiveStep(t) \/ ConnectionStep(t) \/ Connected(t) \/ OnReadSome(t)
             \/ /\ OnConnect(t) \/ OnConnectTimeout(t) \/ CallClose(t)
                /\ UNCHANGED <<streamVars, ret>>
             \/ t = Timer /\ TimerMaintain
      PROVE  SendingInv'
  <2>1. UNCHANGED <<queueVars, sendVars>>
    BY <1>2, OutsideQueue
  <2>2. pc'[t] \notin SendHolding
    <3>1. CASE t = Timer /\ TimerMaintain
      BY <1>1, <3>1 DEF TimerMaintain
    <3>2. CASE ~(t = Timer /\ TimerMaintain)
      <4>1. PICK to : pc' = [pc EXCEPT ![t] = to] /\ to \notin SendHolding
        BY <1>1, <1>2, <3>2, OutsideSending
      <4> QED
        BY <1>1, <4>1
    <3> QED
      BY <3>1, <3>2
  <2> QED
    BY <1>2, <2>1, <2>2, SendingFrame
<1>3. ASSUME NEW t \in Threads, OthersStay(t),
             \/ \E m \in Messages : AsyncSendMessage(t, m)
             \/ PutIntoPendingQueue(t) \/ SendCheckToken(t) \/ SendCheckQuota(t)
             \/ SendCheckConnected(t) \/ SendRecheck(t) \/ TriggerSend(t)
      PROVE  SendingInv'
  <2>1. UNCHANGED <<sendToken, writes, sending, swapped>> /\ pc'[t] \notin SendHolding
    BY <1>1, <1>3 DEF AsyncSendMessage, PutIntoPendingQueue, SendCheckToken, SendCheckQuota,
       SendCheckConnected, SendRecheck, TriggerSend
  <2> QED
    BY <1>3, <2>1, SendingFrame
<1>4. ASSUME NEW t \in Threads, OthersStay(t), SendAcquire(t)
      PROVE  SendingInv'
  <2>1. CASE sendToken = "FREE"
    <3>1. /\ writes = 0 /\ sending = NoMessage
          /\ \A u \in Threads : pc[u] \notin SendHolding
      BY <1>1, <2>1 DEF SendTokenExclusive, Holds, SendingInv, DataTypeOK
    <3> QED
      BY <1>1, <1>4, <2>1, <3>1, SendingOwner DEF SendAcquire
  <2>2. CASE sendToken # "FREE"
    BY <1>1, <1>4, <2>2, SendingFrame DEF SendAcquire, DataTypeOK
  <2> QED
    BY <2>1, <2>2
<1>5. ASSUME NEW t \in Threads, OthersStay(t),
             \/ SwapPendingQueue(t) \/ FetchFront(t) \/ CancelSending(t)
             \/ StartSending(t) \/ InsertIntoPendingQueue(t) \/ SendRelease(t) \/ WriteRelease(t)
      PROVE  SendingInv'
  <2>1. pc[t] \in SendHolding
    BY <1>5 DEF SwapPendingQueue, FetchFront, CancelSending, StartSending,
       InsertIntoPendingQueue, SendRelease, WriteRelease
  <2>2. /\ sendToken = "LOCK" /\ writes = 0
        /\ \A u \in Threads \ {t} : pc[u] \notin SendHolding
    BY <1>1, <2>1 DEF SendTokenExclusive, Holds
  <2>3. CASE SwapPendingQueue(t) \/ FetchFront(t) \/ CancelSending(t) \/ InsertIntoPendingQueue(t)
    <3>1. /\ UNCHANGED <<sendToken, writes>>
          /\ pc'[t] \in SendHolding \ {"send_decide", "send_requeue"} => sending' = NoMessage
          /\ pc'[t] = "send_release_empty" => swapped' = <<>>
      BY <1>1, <2>3 DEF SwapPendingQueue, FetchFront, CancelSending, InsertIntoPendingQueue,
         SendingInv
    <3> QED
      BY <1>5, <2>2, <3>1, SendingOwner
  <2>4. CASE StartSending(t)
    <3>1. sending \in Messages /\ UNCHANGED <<sending, swapped, sendToken>>
      BY <1>1, <2>4 DEF StartSending, MessagesAtHand
    <3>2. pc'[t] \notin SendHolding \/ (pc'[t] = "send_requeue" /\ writes' = 0)
      BY <1>1, <2>2, <2>4 DEF StartSending
    <3>3. \A u \in Threads : pc'[u] \notin SendHolding \ {"send_requeue"}
      BY <1>5, <2>2, <3>2 DEF OthersStay
    <3> QED
      BY <2>2, <3>1, <3>3 DEF SendingInv
  <2>5. CASE SendRelease(t) \/ WriteRelease(t)
    <3>1. sending = NoMessage /\ UNCHANGED <<sending, swapped, writes>>
      BY <2>5 DEF SendRelease, WriteRelease, SendingInv
    <3>2. pc'[t] \notin SendHolding
      BY <1>1, <2>5 DEF SendRelease, WriteRelease
    <3>3. \A u \in Threads : pc'[u] \notin SendHolding
      BY <1>5, <2>2, <3>2 DEF OthersStay
    <3> QED
      BY <2>2, <3>1, <3>3 DEF SendingInv
  <2> QED
    BY <1>5, <2>3, <2>4, <2>5
<1>6. ASSUME NEW t \in Threads, OthersStay(t), OnWriteSome(t)
      PROVE  SendingInv'
  <2>1. /\ writes = 1 /\ sendToken = "LOCK" /\ sending \in Messages
        /\ \A u \in Threads : pc[u] \notin SendHolding
    BY <1>1, <1>6 DEF OnWriteSome, SendTokenExclusive, Holds, SendingInv, DataTypeOK
  <2>2. /\ UNCHANGED <<sendToken, swapped>> /\ pc'[t] \notin SendHolding \ {"write_release"}
        /\ sending' = sending \/ (sending' = NoMessage /\ writes' = 0)
        /\ pc'[t] = "write_release" => sending' = NoMessage
    BY <1>1, <1>6, <2>1 DEF OnWriteSome
  <2> QED
    BY <1>6, <2>1, <2>2 DEF SendingInv, OthersStay
<1>7. CASE UNCHANGED vars
  BY <1>7 DEF vars, byteVars, SendingInv
<1> QED
  BY <1>2, <1>3, <1>4, <1>5, <1>6, <1>7, StepOfOne, OthersStayPut DEF StepOf, SendStep

----------------------------------------------------------------------------
(* The refused quota *)

\* A trigger that meets a thread between the store of a refused quota and the
\* release of the token finds the token held and goes away; then the token is
\* released and nobody tries again (rpc_message_stream.h:527 and :477).  This
\* says that no trigger comes there.
TriggersApart ==
    \A t \in Threads :
        /\ TriggerSend(t) =>
              \A u \in Threads : pc[u] \notin {"send_requeue", "send_release_requeued"}
        /\ TriggerReceive(t) => \A u \in Threads : pc[u] # "receive_release"

\* The token is released for want of quota only while there is none.
QuotaInv ==
    /\ \A t \in Threads : pc[t] \in {"send_requeue", "send_release_requeued"} =>
          FlowControl /\ writeQuota = 0
    /\ \A t \in Threads : pc[t] = "receive_release" => FlowControl /\ readQuota = 0

\* Quota is refused only where throughput is limited, so without a limit no
\* trigger can come between.
LEMMA UnlimitedApart ==
    ASSUME ~FlowControl, QuotaInv
    PROVE  TriggersApart
  BY DEF TriggersApart, QuotaInv

\* A step that neither asks for quota nor recharges it.
LEMMA QuotaFrame ==
    ASSUME QuotaInv, NEW t \in Threads, OthersStay(t), UNCHANGED <<writeQuota, readQuota>>,
           pc'[t] = "send_release_requeued" => pc[t] = "send_requeue",
           pc'[t] \notin {"send_requeue", "receive_release"}
    PROVE  QuotaInv'
  BY DEF QuotaInv, OthersStay

\* No step but a trigger gives quota while the token is released for want of it.
LEMMA QuotaStep ==
    TypeOK /\ SendInv /\ ReceiveTokenExclusive /\ QuotaInv /\ [Next]_vars /\ [TriggersApart]_vars
        => QuotaInv'
<1> SUFFICES ASSUME TypeOK, SendInv, ReceiveTokenExclusive, QuotaInv, [Next]_vars,
                    [TriggersApart]_vars
             PROVE  QuotaInv'
  OBVIOUS
<1>1. ControlTypeOK /\ SendTokenExclusive
  BY DEF TypeOK, SendInv
<1> USE DEF Goto, Step, Call, Return, GoOnIf, ControlTypeOK, ReturnLabels, streamVars, sendVars,
            receiveVars
<1>2. ASSUME NEW t \in Threads, OthersStay(t), StartSending(t)
      PROVE  QuotaInv'
  <2>1. \A u \in Threads \ {t} : pc[u] \notin SendHolding
    BY <1>1, <1>2 DEF StartSending, SendTokenExclusive, Holds, SendHolding
  <2>2. \A u \in Threads \ {t} : pc'[u] \notin {"send_requeue", "send_release_requeued"}
    BY <1>2, <2>1 DEF OthersStay, SendHolding
  <2>3. /\ pc'[t] = "send_requeue" => FlowControl /\ writeQuota' = 0
        /\ pc'[t] \notin {"send_release_requeued", "receive_release"}
        /\ readQuota' = readQuota
    BY <1>1, <1>2 DEF StartSending, QuotaResults
  <2> QED
    BY <1>2, <2>2, <2>3 DEF QuotaInv, OthersStay
<1>3. ASSUME NEW t \in Threads, OthersStay(t), StartReceiving(t)
      PROVE  QuotaInv'
  <2>1. \A u \in Threads \ {t} : pc[u] \notin ReceiveHolding
    BY <1>1, <1>3 DEF StartReceiving, ReceiveTokenExclusive, Holds, ReceiveHolding
  <2>2. \A u \in Threads \ {t} : pc'[u] # "receive_release"
    BY <1>3, <2>1 DEF OthersStay, ReceiveHolding
  <2>3. /\ pc'[t] = "receive_release" => FlowControl /\ readQuota' = 0
        /\ pc'[t] \notin {"send_requeue", "send_release_requeued"}
        /\ writeQuota' = writeQuota
    BY <1>1, <1>3 DEF StartReceiving, QuotaResults
  <2> QED
    BY <1>3, <2>2, <2>3 DEF QuotaInv, OthersStay
<1>4. ASSUME NEW t \in Threads, OthersStay(t), TriggerSend(t) \/ TriggerReceive(t)
      PROVE  QuotaInv'
  <2>1. TriggersApart
    BY <1>1, <1>4 DEF vars, byteVars, TriggerSend, TriggerReceive
  <2>2. CASE TriggerSend(t)
    BY <1>1, <1>4, <2>1, <2>2 DEF TriggersApart, TriggerSend, QuotaInv, OthersStay
  <2>3. CASE TriggerReceive(t)
    BY <1>1, <1>4, <2>1, <2>3 DEF TriggersApart, TriggerReceive, QuotaInv, OthersStay
  <2> QED
    BY <1>4, <2>2, <2>3
<1>5. ASSUME NEW t \in Threads, OthersStay(t), SendStep(t), ~StartSending(t), ~TriggerSend(t)
      PROVE  QuotaInv'
  <2>1. UNCHANGED <<writeQuota, readQuota>>
    BY <1>5 DEF SendStep, PutIntoPendingQueue, SendCheckToken, SendCheckQuota, SendCheckConnected,
       SendAcquire, SwapPendingQueue, FetchFront, CancelSending, InsertIntoPendingQueue,
       SendRelease, SendRecheck, WriteRelease
  <2>2. /\ pc'[t] = "send_release_requeued" => pc[t] = "send_requeue"
        /\ pc'[t] \notin {"send_requeue", "receive_release"}
    <3>1. CASE \/ PutIntoPendingQueue(t) \/ SendCheckToken(t) \/ SendCheckQuota(t)
               \/ SendCheckConnected(t) \/ SendAcquire(t) \/ SwapPendingQueue(t)
      BY <1>1, <3>1 DEF PutIntoPendingQueue, SendCheckToken, SendCheckQuota, SendCheckConnected,
         SendAcquire, SwapPendingQueue
    <3>2. CASE \/ FetchFront(t) \/ CancelSending(t) \/ InsertIntoPendingQueue(t)
               \/ SendRelease(t) \/ SendRecheck(t) \/ WriteRelease(t)
      BY <1>1, <3>2 DEF FetchFront, CancelSending, InsertIntoPendingQueue, SendRelease,
         SendRecheck, WriteRelease
    <3> QED
      BY <1>5, <3>1, <3>2 DEF SendStep
  <2> QED
    BY <1>5, <2>1, <2>2, QuotaFrame
<1>6. ASSUME NEW t \in Threads, OthersStay(t), ReceiveStep(t), ~StartReceiving(t),
             ~TriggerReceive(t)
      PROVE  QuotaInv'
  <2>1. UNCHANGED <<writeQuota, readQuota>>
    BY <1>6 DEF ReceiveStep, ReceiveCheckToken, ReceiveCheckQuota, ReadPendingSize,
       ReceiveCheckPending, ReceiveCheckConnected, ReceiveAcquire, ReceiveRelease, ReadRelease,
       Deliver
  <2>2. pc'[t] \notin {"send_requeue", "send_release_requeued", "receive_release"}
    BY <1>1, <1>6 DEF ReceiveStep, ReceiveCheckToken, ReceiveCheckQuota, ReadPendingSize,
       ReceiveCheckPending, ReceiveCheckConnected, ReceiveAcquire, ReceiveRelease, ReadRelease,
       Deliver
  <2> QED
    BY <1>6, <2>1, <2>2, QuotaFrame
<1>7. ASSUME NEW t \in Threads, OthersStay(t),
             \/ ConnectionStep(t) \/ Connected(t) \/ OnWriteSome(t) \/ OnReadSome(t)
             \/ /\ OnConnect(t) \/ OnConnectTimeout(t) \/ CallClose(t)
                /\ UNCHANGED <<streamVars, ret>>
             \/ \E m \in Messages : AsyncSendMessage(t, m)
             \/ t = Timer /\ TimerMaintain
      PROVE  QuotaInv'
  <2>1. UNCHANGED <<writeQuota, readQuota>>
    BY <1>7 DEF ConnectionStep, Connected, OnWriteSome, OnReadSome, AsyncSendMessage, TimerMaintain
  <2>2. pc'[t] \notin {"send_requeue", "send_release_requeued", "receive_release"}
    BY <1>1, <1>7 DEF ConnectionStep, AsyncConnect, Accept, Close, OnClosed, Connected,
       StoreConnected, OnConnect, OnConnectTimeout, CallClose, OnWriteSome, OnReadSome,
       AsyncSendMessage, TimerMaintain
  <2> QED
    BY <1>7, <2>1, <2>2, QuotaFrame
<1>8. CASE UNCHANGED vars
  BY <1>8 DEF vars, byteVars, QuotaInv
<1> QED
  BY <1>2, <1>3, <1>4, <1>5, <1>6, <1>7, <1>8, StepOfOne, OthersStayPut DEF StepOf

----------------------------------------------------------------------------
(* Somebody sends *)

\* Threads that are going to look at the queue, whatever they find until then,
\* or to close the stream.
WillSend(t) ==
    \/ pc[t] \in {"send_check_token", "send_check_quota", "send_check_connected", "send_acquire",
                  "trigger_send", "close"}
    \/ pc[t] \in SendHolding \ {"send_release_empty"}
    \/ ret[t] = "trigger_send"

\* Threads that found the queue empty and look once more.
WillRecheck(t) == pc[t] \in {"send_release_empty", "send_recheck"}

Sendable == status = "CONNECTED" /\ writeQuota > 0 /\ writes = 0

SenderAwake ==
    Sendable =>
        /\ swapped # <<>> => \E t \in Threads : WillSend(t)
        /\ pending # <<>> => \E t \in Threads : WillSend(t) \/ WillRecheck(t)

\* A step after which its thread will send.
LEMMA SenderWakes ==
    ASSUME NEW t \in Threads, WillSend(t)'
    PROVE  SenderAwake'
  BY DEF SenderAwake

\* A step of a thread that would not send, and that queues nothing.
LEMMA SenderFrame ==
    ASSUME SenderAwake, NEW t \in Threads, OthersStay(t),
           Sendable' => Sendable,
           swapped' # <<>> => swapped # <<>> /\ ~WillSend(t),
           pending' # <<>> => pending # <<>> /\ ~WillSend(t),
           pending' # <<>> /\ WillRecheck(t) => WillRecheck(t)'
    PROVE  SenderAwake'
  BY DEF SenderAwake, WillSend, WillRecheck, OthersStay, SendHolding

\* Every step leaves somebody to send what is sendable.
LEMMA SenderStep ==
    TypeOK /\ SendInv /\ ReturnsOK /\ TokenInv /\ SendingInv /\ QuotaInv /\ SenderAwake
    /\ [Next]_vars => SenderAwake'
<1> SUFFICES ASSUME TypeOK, SendInv, ReturnsOK, TokenInv, SendingInv, QuotaInv, SenderAwake,
                    [Next]_vars
             PROVE  SenderAwake'
  OBVIOUS
<1>1. ControlTypeOK /\ DataTypeOK /\ SendTokenExclusive
  BY DEF TypeOK, SendInv
<1>2. ASSUME NEW t \in Threads PROVE ReturnOK(t)
  BY DEF ReturnsOK
<1> USE DEF Goto, Step, Call, Return, GoOnIf, ControlTypeOK, ReturnLabels, streamVars, queueVars,
            sendVars, SendHolding
<1>3. ASSUME NEW t \in Threads, OthersStay(t), SendCheckToken(t) \/ SendAcquire(t)
      PROVE  SenderAwake'
  <2>1. UNCHANGED <<pending, swapped, writes, writeQuota, status>>
    BY <1>3 DEF SendCheckToken, SendAcquire
  <2>2. CASE sendToken = "FREE"
    BY <1>1, <1>3, <2>2, SenderWakes DEF SendCheckToken, SendAcquire, WillSend
  <2>3. CASE sendToken # "FREE"
    <3>1. sendToken = "LOCK" /\ pc[t] \notin SendHolding \cup {"close"}
      BY <1>1, <1>3, <2>3 DEF DataTypeOK, SendCheckToken, SendAcquire
    <3>2. Sendable => \E u \in Threads \ {t} : pc[u] \in SendHolding \cup {"close"}
      BY <1>1, <3>1 DEF Sendable, TokenInv, DataTypeOK
    <3>3. Sendable => \E u \in Threads \ {t} :
                         WillSend(u) \/ (WillRecheck(u) /\ swapped = <<>>)
      BY <3>2 DEF WillSend, WillRecheck, SendingInv
    <3> QED
      BY <1>3, <2>1, <3>3 DEF SenderAwake, Sendable, WillSend, WillRecheck, OthersStay
  <2> QED
    BY <2>2, <2>3
<1>4. ASSUME NEW t \in Threads, OthersStay(t), SendCheckQuota(t) \/ SendCheckConnected(t)
      PROVE  SenderAwake'
  <2>1. ~Sendable' \/ pc'[t] \in {"send_check_connected", "send_acquire"}
    BY <1>1, <1>4 DEF SendCheckQuota, SendCheckConnected, Sendable
  <2> QED
    BY <2>1, SenderWakes DEF WillSend, SenderAwake
<1>5. ASSUME NEW t \in Threads, OthersStay(t),
             \/ PutIntoPendingQueue(t) \/ SwapPendingQueue(t) \/ CancelSending(t)
             \/ InsertIntoPendingQueue(t) \/ WriteRelease(t) \/ TriggerSend(t) \/ Connected(t)
      PROVE  SenderAwake'
  <2>1. \/ pc'[t] \in {"send_check_token", "send_fetch", "send_release_cancelled",
                       "send_release_requeued"}
        \/ ret'[t] = "trigger_send"
    BY <1>1, <1>5 DEF PutIntoPendingQueue, SwapPendingQueue, CancelSending,
       InsertIntoPendingQueue, WriteRelease, TriggerSend, Connected, StoreConnected
  <2> QED
    BY <2>1, SenderWakes DEF WillSend
<1>6. ASSUME NEW t \in Threads, OthersStay(t), FetchFront(t)
      PROVE  SenderAwake'
  <2>1. CASE swapped # <<>>
    BY <1>1, <1>6, <2>1, SenderWakes DEF FetchFront, WillSend
  <2>2. CASE swapped = <<>>
    BY <1>1, <1>6, <2>2 DEF FetchFront, SenderAwake, WillRecheck
  <2> QED
    BY <2>1, <2>2
<1>7. ASSUME NEW t \in Threads, OthersStay(t), StartSending(t)
      PROVE  SenderAwake'
  <2>1. writes' > 0 \/ pc'[t] = "send_requeue"
    BY <1>1, <1>7 DEF StartSending, DataTypeOK
  <2> QED
    BY <2>1, SenderWakes DEF WillSend, SenderAwake, Sendable
<1>8. ASSUME NEW t \in Threads, OthersStay(t), SendRelease(t)
      PROVE  SenderAwake'
  <2>1. CASE pc[t] = "send_release_cancelled"
    BY <1>1, <1>8, <2>1, SenderWakes DEF SendRelease, WillSend
  <2>2. CASE pc[t] = "send_release_requeued"
    BY <1>1, <1>8, <2>2 DEF SendRelease, QuotaInv, SenderAwake, Sendable
  <2>3. CASE pc[t] = "send_release_empty"
    BY <1>1, <1>8, <2>3 DEF SendRelease, SendingInv, SenderAwake, WillRecheck
  <2> QED
    BY <1>8, <2>1, <2>2, <2>3 DEF SendRelease
<1>9. ASSUME NEW t \in Threads, OthersStay(t), SendRecheck(t)
      PROVE  SenderAwake'
  <2>1. CASE pending # <<>>
    BY <1>1, <1>9, <2>1, SenderWakes DEF SendRecheck, WillSend
  <2>2. CASE pending = <<>>
    <3>1. ~WillSend(t) /\ UNCHANGED <<pending, swapped, status, writeQuota, writes>>
      BY <1>2, <1>9 DEF SendRecheck, WillSend, ReturnOK, ReceiveFlow, SizeFlow
    <3> QED
      BY <1>9, <2>2, <3>1, SenderFrame DEF Sendable
  <2> QED
    BY <2>1, <2>2
<1>10. ASSUME NEW t \in Threads, OthersStay(t), OnWriteSome(t)
       PROVE  SenderAwake'
  <2>1. ~Sendable' \/ pc'[t] \in {"close", "write_release"}
    BY <1>1, <1>10 DEF OnWriteSome, Sendable, DataTypeOK
  <2> QED
    BY <2>1, SenderWakes DEF WillSend, SenderAwake
<1>11. ASSUME NEW t \in Threads, OthersStay(t), ReceiveStep(t)
       PROVE  SenderAwake'
  <2>1. UNCHANGED <<pending, swapped, writeQuota, writes, status>>
    BY <1>1, <1>11, OutsideQueue, StreamMoves DEF Moves
  <2>2. pc[t] \notin {"send_check_token", "send_check_quota", "send_check_connected",
                      "send_acquire", "trigger_send", "close", "send_recheck"} \cup SendHolding
    BY <1>11 DEF ReceiveStep, ReceiveCheckToken, ReceiveCheckQuota, ReadPendingSize,
       ReceiveCheckPending, ReceiveCheckConnected, ReceiveAcquire, StartReceiving, ReceiveRelease,
       ReadRelease, Deliver, TriggerReceive
  <2>3. CASE ret[t] # "trigger_send"
    BY <1>11, <2>1, <2>2, <2>3, SenderFrame DEF WillSend, WillRecheck, Sendable
  <2>4. CASE ret[t] = "trigger_send"
    <3>1. ret'[t] = "trigger_send" \/ pc'[t] = "trigger_send"
      BY <1>1, <1>2, <1>11, <2>4
         DEF ReceiveStep, ReceiveCheckToken, ReceiveCheckQuota, ReadPendingSize,
             ReceiveCheckPending, ReceiveCheckConnected, ReceiveAcquire, StartReceiving,
             ReceiveRelease, ReadRelease, Deliver, TriggerReceive, ReturnOK, ReceiveFlow, SizeFlow
    <3> QED
      BY <3>1, SenderWakes DEF WillSend
  <2> QED
    BY <2>3, <2>4
<1>12. ASSUME NEW t \in Threads, OthersStay(t),
              \/ ConnectionStep(t) \/ OnReadSome(t)
              \/ /\ OnConnect(t) \/ OnConnectTimeout(t) \/ CallClose(t)
                 /\ UNCHANGED <<streamVars, ret>>
              \/ \E m \in Messages : AsyncSendMessage(t, m)
              \/ t = Timer /\ TimerMaintain
       PROVE  SenderAwake'
  <2>1. /\ UNCHANGED <<pending, swapped, writeQuota, writes>>
        /\ status' = "CONNECTED" => status = "CONNECTED" /\ pc[t] # "close"
        /\ pc[t] \in {"idle", "async_connect", "accept", "close", "on_closed"}
    BY <1>1, <1>12 DEF ConnectionStep, AsyncConnect, Accept, Close, OnClosed, OnConnect,
       OnConnectTimeout, CallClose, OnReadSome, AsyncSendMessage, TimerMaintain, StoreStatus
  <2>2. Sendable' => ~WillSend(t) /\ ~WillRecheck(t)
    BY <1>2, <2>1 DEF Sendable, WillSend, WillRecheck, ReturnOK, ReceiveFlow, SizeFlow
  <2>3. CASE Sendable'
    BY <1>12, <2>1, <2>2, <2>3, SenderFrame DEF Sendable
  <2>4. CASE ~Sendable'
    BY <2>4 DEF SenderAwake
  <2> QED
    BY <2>3, <2>4
<1>13. CASE UNCHANGED vars
  BY <1>13 DEF vars, byteVars, SenderAwake, Sendable, WillSend, WillRecheck
<1> QED
  BY <1>3, <1>4, <1>5, <1>6, <1>7, <1>8, <1>9, <1>10, <1>11, <1>12, <1>13, StepOfOne,
     OthersStayPut DEF StepOf, SendStep

----------------------------------------------------------------------------
(* Somebody receives *)

\* The end of a send resumes a server that does not read for its full queue.
Pressure ==
    /\ Role = "server"
    /\ \/ writes > 0 \/ pending # <<>> \/ swapped # <<>>
       \/ \E t \in Threads : pc[t] \in {"send_decide", "send_requeue", "write_release"}

\* Threads that are going to start a read, or to find out that another does,
\* or to close the stream; a thread that has seen output queued may give up.
WillReceive(t) ==
    \/ pc[t] \in {"receive_check_token", "receive_check_quota", "receive_check_pending",
                  "receive_check_connected", "receive_acquire", "trigger_receive", "close"}
    \/ pc[t] \in ReceiveHolding
    \/ pc[t] \in {"receive_add_pending", "receive_add_swapped"} /\ sizeRead[t] = 0
    \/ ret[t] = "receive_check_token"

Receivable == status = "CONNECTED" /\ readQuota > 0 /\ reads = 0

ReceiverAwake == Receivable => Pressure \/ \E t \in Threads : WillReceive(t)

\* A step after which its thread will receive.
LEMMA ReceiverWakes ==
    ASSUME NEW t \in Threads, WillReceive(t)'
    PROVE  ReceiverAwake'
  BY DEF ReceiverAwake

\* A step of a thread that would not receive, and that keeps the pressure.
LEMMA ReceiverFrame ==
    ASSUME ReceiverAwake, NEW t \in Threads, OthersStay(t),
           Receivable' => Receivable /\ ~WillReceive(t),
           Pressure => Pressure'
    PROVE  ReceiverAwake'
  BY DEF ReceiverAwake, WillReceive, OthersStay

\* A queue with an element put into it is not empty.
LEMMA AppendNotEmpty ==
    ASSUME NEW S, NEW s \in Seq(S), NEW e \in S
    PROVE  Append(s, e) # <<>>
<1>1. Len(Append(s, e)) = Len(s) + 1 /\ Len(s) \in Nat
  OBVIOUS
<1> QED
  BY <1>1

\* A step of the sending side keeps the pressure or hands over to receiving.
LEMMA PressureKept ==
    ASSUME TypeOK, SendInv, NEW t \in Threads, OthersStay(t), SendStep(t), Pressure
    PROVE  Pressure' \/ ret'[t] = "receive_check_token"
<1> USE DEF Pressure, Goto, Step, Call, Return, GoOnIf, TypeOK, ControlTypeOK, DataTypeOK,
            OthersStay, streamVars, queueVars, sendVars
<1>1. ASSUME pc[t] \notin {"send_decide", "send_requeue", "write_release"}, pending' = pending,
             swapped' = swapped, writes' = writes
      PROVE  Pressure'
  BY <1>1
<1>2. CASE \/ SendCheckToken(t) \/ SendCheckQuota(t) \/ SendCheckConnected(t) \/ SendAcquire(t)
           \/ SendRelease(t) \/ SendRecheck(t) \/ TriggerSend(t)
  BY <1>1, <1>2 DEF SendCheckToken, SendCheckQuota, SendCheckConnected, SendAcquire, SendRelease,
     SendRecheck, TriggerSend
<1>3. CASE PutIntoPendingQueue(t)
  <2>1. pending' = Append(pending, arg[t]) /\ arg[t] \in Messages
    BY <1>3 DEF PutIntoPendingQueue, SendInv, MessagesAtHand
  <2>2. pending' # <<>>
    BY <2>1, AppendNotEmpty DEF TypeOK, DataTypeOK
  <2> QED
    BY <2>2
<1>4. CASE SwapPendingQueue(t)
  BY <1>4 DEF SwapPendingQueue
<1>5. CASE FetchFront(t)
  BY <1>1, <1>5 DEF FetchFront
<1>6. CASE CancelSending(t)
  BY <1>6 DEF CancelSending
<1>7. CASE StartSending(t)
  <2>1. writes' > 0 \/ pc'[t] = "send_requeue"
    BY <1>7 DEF StartSending
  <2> QED
    BY <2>1
<1>8. CASE InsertIntoPendingQueue(t)
  <2>1. swapped' # <<>>
    BY <1>8 DEF InsertIntoPendingQueue
  <2> QED
    BY <2>1
<1>9. CASE WriteRelease(t)
  BY <1>9 DEF WriteRelease
<1> QED
  BY <1>2, <1>3, <1>4, <1>5, <1>6, <1>7, <1>8, <1>9 DEF SendStep

\* Every step leaves somebody to receive, or a send whose end will resume it.
LEMMA ReceiverStep ==
    TypeOK /\ SendInv /\ ReturnsOK /\ TokenInv /\ QuotaInv /\ ReceiverAwake /\ [Next]_vars
        => ReceiverAwake'
<1> SUFFICES ASSUME TypeOK, SendInv, ReturnsOK, TokenInv, QuotaInv, ReceiverAwake, [Next]_vars
             PROVE  ReceiverAwake'
  OBVIOUS
<1>1. ControlTypeOK /\ DataTypeOK
  BY DEF TypeOK
<1>2. ASSUME NEW t \in Threads PROVE ReturnOK(t)
  BY DEF ReturnsOK
<1> USE DEF Goto, Step, Call, Return, GoOnIf, ControlTypeOK, ReturnLabels, streamVars, queueVars,
            sendVars, receiveVars, ReceiveHolding
<1>3. ASSUME NEW t \in Threads, OthersStay(t), SendStep(t)
      PROVE  ReceiverAwake'
  <2>1. UNCHANGED <<readQuota, reads, status, sizeRead>>
    <3>1. UNCHANGED receiveVars
      BY <1>3 DEF SendStep, PutIntoPendingQueue, SendCheckToken, SendCheckQuota,
         SendCheckConnected, SendAcquire, SwapPendingQueue, FetchFront, CancelSending,
         StartSending, InsertIntoPendingQueue, SendRelease, SendRecheck, WriteRelease, TriggerSend
    <3>2. UNCHANGED status
      BY <1>1, <1>3, StreamMoves DEF Moves
    <3> QED
      BY <3>1, <3>2
  <2>2. pc[t] \notin {"receive_check_token", "receive_check_quota", "receive_check_pending",
                      "receive_check_connected", "receive_acquire", "trigger_receive", "close",
                      "receive_add_pending", "receive_add_swapped"} \cup ReceiveHolding
    BY <1>3 DEF SendStep, PutIntoPendingQueue, SendCheckToken, SendCheckQuota,
           SendCheckConnected, SendAcquire, SwapPendingQueue, FetchFront, CancelSending,
           StartSending, InsertIntoPendingQueue, SendRelease, SendRecheck, WriteRelease, TriggerSend
  <2>3. CASE ret[t] = "receive_check_token"
    <3>1. pc[t] \in SendFlow
      BY <1>2, <2>3 DEF ReturnOK
    <3>2. ret'[t] = "receive_check_token" \/ pc'[t] = "receive_check_token"
      <4> USE DEF SendFlow, SendHolding
      <4>1. CASE \/ SendCheckToken(t) \/ SendCheckQuota(t) \/ SendCheckConnected(t)
                 \/ SendAcquire(t) \/ SendRecheck(t)
        BY <1>1, <2>3, <4>1 DEF SendCheckToken, SendCheckQuota, SendCheckConnected, SendAcquire,
           SendRecheck
      <4>2. CASE \/ SwapPendingQueue(t) \/ FetchFront(t) \/ CancelSending(t)
                 \/ InsertIntoPendingQueue(t) \/ TriggerSend(t)
        <5>1. UNCHANGED ret
          BY <4>2 DEF SwapPendingQueue, FetchFront, CancelSending, InsertIntoPendingQueue,
             TriggerSend
        <5> QED
          BY <2>3, <5>1
      <4>4. CASE PutIntoPendingQueue(t) \/ WriteRelease(t)
        <5>1. pc[t] \in {"enqueue", "write_release"}
          BY <4>4 DEF PutIntoPendingQueue, WriteRelease
        <5> QED
          BY <3>1, <5>1
      <4>3. CASE StartSending(t) \/ SendRelease(t)
        BY <1>1, <2>3, <4>3 DEF StartSending, SendRelease
      <4> QED
        BY <1>3, <4>1, <4>2, <4>3, <4>4 DEF SendStep
    <3> QED
      BY <3>2, ReceiverWakes DEF WillReceive
  <2>4. CASE ret'[t] = "receive_check_token"
    BY <2>4, ReceiverWakes DEF WillReceive
  <2>5. CASE ret[t] # "receive_check_token" /\ ret'[t] # "receive_check_token"
    <3>1. Pressure => Pressure'
      BY <1>3, <2>5, PressureKept
    <3>2. ~WillReceive(t)
      BY <2>2, <2>5 DEF WillReceive
    <3> QED
      BY <1>3, <2>1, <3>1, <3>2, ReceiverFrame DEF Receivable
  <2> QED
    BY <2>3, <2>4, <2>5
<1>4. ASSUME NEW t \in Threads, OthersStay(t), ReceiveStep(t)
      PROVE  Pressure => Pressure'
  <2>1. UNCHANGED <<queueVars, sendVars>>
    BY <1>4, OutsideQueue
  <2>2. pc[t] \notin {"send_decide", "send_requeue", "write_release"}
    BY <1>4 DEF ReceiveStep, ReceiveCheckToken, ReceiveCheckQuota, ReadPendingSize,
       ReceiveCheckPending, ReceiveCheckConnected, ReceiveAcquire, StartReceiving, ReceiveRelease,
       ReadRelease, Deliver, TriggerReceive
  <2> QED
    BY <1>4, <2>1, <2>2 DEF Pressure, OthersStay
<1>5. ASSUME NEW t \in Threads, OthersStay(t), ReceiveCheckToken(t) \/ ReceiveAcquire(t)
      PROVE  ReceiverAwake'
  <2>1. UNCHANGED <<status, readQuota, reads>>
    BY <1>5 DEF ReceiveCheckToken, ReceiveAcquire
  <2>2. CASE receiveToken = "FREE"
    BY <1>1, <1>5, <2>2, ReceiverWakes DEF ReceiveCheckToken, ReceiveAcquire, WillReceive
  <2>3. CASE receiveToken # "FREE"
    <3>1. receiveToken = "LOCK" /\ pc[t] \notin ReceiveHolding \cup {"close"}
      BY <1>1, <1>5, <2>3 DEF DataTypeOK, ReceiveCheckToken, ReceiveAcquire
    <3>2. Receivable => \E u \in Threads \ {t} : pc[u] \in ReceiveHolding \cup {"close"}
      BY <1>1, <3>1 DEF Receivable, TokenInv, DataTypeOK
    <3>3. Receivable => \E u \in Threads : pc'[u] \in ReceiveHolding \cup {"close"}
      BY <1>5, <3>2 DEF OthersStay
    <3> QED
      BY <2>1, <3>3 DEF ReceiverAwake, Receivable, WillReceive
  <2> QED
    BY <2>2, <2>3
<1>6. ASSUME NEW t \in Threads, OthersStay(t), ReceiveCheckQuota(t) \/ ReceiveCheckConnected(t)
      PROVE  ReceiverAwake'
  <2>1. \/ ~Receivable'
        \/ pc'[t] \in {"receive_check_pending", "receive_check_connected", "receive_acquire"}
    BY <1>1, <1>6 DEF ReceiveCheckQuota, ReceiveCheckConnected, Receivable
  <2> QED
    BY <2>1, ReceiverWakes DEF WillReceive, ReceiverAwake
<1>7. ASSUME NEW t \in Threads, OthersStay(t), ReadPendingSize(t)
      PROVE  ReceiverAwake'
  <2>1. Role = "server" /\ UNCHANGED <<pending, swapped>>
    BY <1>2, <1>7 DEF ReadPendingSize, ReturnOK, SizeFlow
  <2>2. /\ pc'[t] \in {"receive_add_pending", "receive_add_swapped"}
        /\ sizeRead'[t] \in {Len(pending), Len(swapped)}
    BY <1>1, <1>7 DEF ReadPendingSize, DataTypeOK
  <2>3. CASE sizeRead'[t] = 0
    BY <2>2, <2>3, ReceiverWakes DEF WillReceive
  <2>4. CASE sizeRead'[t] # 0
    <3>1. pending # <<>> \/ swapped # <<>>
      BY <1>1, <2>2, <2>4 DEF DataTypeOK
    <3> QED
      BY <2>1, <3>1 DEF Pressure, ReceiverAwake
  <2> QED
    BY <2>3, <2>4
<1>8. ASSUME NEW t \in Threads, OthersStay(t), ReceiveCheckPending(t)
      PROVE  ReceiverAwake'
  <2>1. UNCHANGED <<pending, swapped, status, readQuota, reads>>
    BY <1>8 DEF ReceiveCheckPending
  <2>2. pc[t] \in SizeFlow \ {"receive_check_pending"} /\ Role = "server"
    BY <1>2, <1>8 DEF ReceiveCheckPending, ReturnOK, SizeFlow
  <2>3. CASE pc'[t] = "receive_check_connected"
    BY <2>3, ReceiverWakes DEF WillReceive
  <2>4. CASE pc'[t] # "receive_check_connected" /\ sizeRead[t] = 0
    <3>1. ~(Len(swapped) <= MaxPending) \/ ~(Len(pending) <= MaxPending)
      BY <1>1, <1>8, <2>4 DEF ReceiveCheckPending, DataTypeOK
    <3>2. pending # <<>> \/ swapped # <<>>
      BY <3>1, MessageAssumption
    <3> QED
      BY <2>1, <2>2, <3>2 DEF Pressure, ReceiverAwake
  <2>5. CASE sizeRead[t] # 0
    <3>1. CASE ret[t] = "receive_check_token"
      BY <1>2, <2>2, <3>1 DEF ReturnOK, SizeFlow, SendFlow, SendHolding
    <3>2. CASE ret[t] # "receive_check_token"
      <4>1. ~WillReceive(t)
        BY <2>2, <2>5, <3>2 DEF WillReceive, SizeFlow
      <4>2. Pressure => Pressure'
        BY <1>4, <1>8 DEF ReceiveStep
      <4> QED
        BY <1>8, <2>1, <4>1, <4>2, ReceiverFrame DEF Receivable
    <3> QED
      BY <3>1, <3>2
  <2> QED
    BY <2>3, <2>4, <2>5
<1>9. ASSUME NEW t \in Threads, OthersStay(t), StartReceiving(t) \/ ReceiveRelease(t)
      PROVE  ReceiverAwake'
  <2>1. ~Receivable' \/ pc'[t] = "receive_release"
    BY <1>1, <1>9 DEF StartReceiving, ReceiveRelease, QuotaInv, Receivable, DataTypeOK
  <2> QED
    BY <2>1, ReceiverWakes DEF WillReceive, ReceiverAwake
<1>10. ASSUME NEW t \in Threads, OthersStay(t),
              ReadRelease(t) \/ TriggerReceive(t) \/ Connected(t)
       PROVE  ReceiverAwake'
  <2>1. pc'[t] \in {"receive_check_token", "trigger_receive"}
    BY <1>1, <1>10 DEF ReadRelease, TriggerReceive, Connected, StoreConnected
  <2> QED
    BY <2>1, ReceiverWakes DEF WillReceive
<1>11. ASSUME NEW t \in Threads, OthersStay(t), Deliver(t)
       PROVE  ReceiverAwake'
  <2>1. ~WillReceive(t) /\ UNCHANGED <<status, readQuota, reads>>
    BY <1>2, <1>11 DEF Deliver, WillReceive, ReturnOK, SendFlow, SendHolding
  <2>2. Pressure => Pressure'
    BY <1>4, <1>11 DEF ReceiveStep
  <2> QED
    BY <1>11, <2>1, <2>2, ReceiverFrame DEF Receivable
<1>12. ASSUME NEW t \in Threads, OthersStay(t), OnReadSome(t)
       PROVE  ReceiverAwake'
  <2>1. \/ status' # "CONNECTED"
        \/ pc'[t] \in {"close", "read_release"}
    BY <1>1, <1>12 DEF OnReadSome
  <2> QED
    BY <2>1, ReceiverWakes DEF WillReceive, ReceiverAwake, Receivable
<1>13. ASSUME NEW t \in Threads, OthersStay(t), OnWriteSome(t)
       PROVE  ReceiverAwake'
  <2>1. /\ UNCHANGED <<pending, swapped, readQuota, reads, status>> /\ pc[t] = "idle"
        /\ \/ status' # "CONNECTED"
           \/ pc'[t] = "close"
           \/ writes' > 0
           \/ pc'[t] = "write_release"
    BY <1>1, <1>13 DEF OnWriteSome, DataTypeOK
  <2>2. CASE status' # "CONNECTED" \/ pc'[t] = "close"
    BY <2>2, ReceiverWakes DEF WillReceive, ReceiverAwake, Receivable
  <2>3. CASE writes' > 0 \/ pc'[t] = "write_release"
    <3>1. ~WillReceive(t)
      BY <1>2, <2>1 DEF WillReceive, ReturnOK, SendFlow, SendHolding
    <3>2. Pressure => Pressure'
      BY <2>3 DEF Pressure
    <3> QED
      BY <1>13, <2>1, <3>1, <3>2, ReceiverFrame DEF Receivable
  <2> QED
    BY <2>1, <2>2, <2>3
<1>14. ASSUME NEW t \in Threads, OthersStay(t),
              \/ ConnectionStep(t)
              \/ /\ OnConnect(t) \/ OnConnectTimeout(t) \/ CallClose(t)
                 /\ UNCHANGED <<streamVars, ret>>
              \/ \E m \in Messages : AsyncSendMessage(t, m)
              \/ t = Timer /\ TimerMaintain
       PROVE  ReceiverAwake'
  <2>1. /\ UNCHANGED <<pending, swapped, writes, readQuota, reads>>
        /\ status' = "CONNECTED" => status = "CONNECTED" /\ pc[t] # "close"
        /\ pc[t] \in {"idle", "async_connect", "accept", "close", "on_closed"}
    BY <1>1, <1>14 DEF ConnectionStep, AsyncConnect, Accept, Close, OnClosed, OnConnect,
       OnConnectTimeout, CallClose, AsyncSendMessage, TimerMaintain, StoreStatus
  <2>2. Receivable' => Receivable /\ ~WillReceive(t)
    BY <1>2, <2>1 DEF Receivable, WillReceive, ReturnOK, SendFlow, SendHolding
  <2>3. Pressure => Pressure'
    BY <1>14, <2>1 DEF Pressure, OthersStay
  <2> QED
    BY <1>14, <2>2, <2>3, ReceiverFrame
<1>15. CASE UNCHANGED vars
  BY <1>15 DEF vars, byteVars, ReceiverAwake, Receivable, WillReceive, Pressure
<1> QED
  BY <1>3, <1>5, <1>6, <1>7, <1>8, <1>9, <1>10, <1>11, <1>12, <1>13, <1>14, <1>15, StepOfOne,
     OthersStayPut DEF StepOf, ReceiveStep

----------------------------------------------------------------------------
(* No dead stream, no lost wakeup *)

\* Nobody has started: every thread is idle but the one that opens the stream.
LEMMA InitialThreads ==
    ASSUME Init
    PROVE  /\ pc \in [Threads -> {"idle", "async_connect", "accept"}]
           /\ \A t, u \in Threads : pc[t] # "idle" /\ pc[u] # "idle" => t = u
  BY DEF Init, ByteInit

\* The owners of the tokens, without any assumption about the triggers.
OwnersInv == SendInv /\ ReceiveTokenExclusive /\ ReturnsOK /\ OpenInv /\ TokenInv /\ SendingInv

\* The invariants of the owners are inductive together.
LEMMA OwnersInvariant == Spec => [](TypeOK /\ OwnersInv)
<1>1. Init => OwnersInv
  <2> SUFFICES ASSUME Init PROVE OwnersInv
    OBVIOUS
  <2>1. /\ pc \in [Threads -> {"idle", "async_connect", "accept"}]
        /\ \A t, u \in Threads : pc[t] # "idle" /\ pc[u] # "idle" => t = u
    BY InitialThreads
  <2>2. SendInv /\ ReceiveTokenExclusive
    BY <2>1 DEF Init, SendInv, SendTokenExclusive, MessagesAtHand, ReceiveTokenExclusive, Holds,
       SendHolding, ReceiveHolding
  <2>3. ReturnsOK /\ SendingInv
    BY <2>1 DEF Init, ReturnsOK, ReturnOK, SizeFlow, SendingInv, SendHolding
  <2>4. OpenInv /\ TokenInv
    BY <2>1 DEF Init, ByteInit, OpenInv, TokenInv, OpeningLabels
  <2> QED
    BY <2>2, <2>3, <2>4 DEF OwnersInv
<1>2. TypeOK /\ OwnersInv /\ [Next]_vars => OwnersInv'
  BY SendStepInv, ReceiveTokenStep, ReturnsStep, OpenStep, TokenStep, SendingStep DEF OwnersInv
<1> QED
  BY <1>1, <1>2, TypeCorrect, PTL DEF Spec

\* The threads that will send and receive, as long as the triggers come apart.
AwakeInv == QuotaInv /\ SenderAwake /\ ReceiverAwake

\* At the start nothing is queued and the stream is not connected.
LEMMA AwakeInit == Init => AwakeInv
<1> SUFFICES ASSUME Init PROVE AwakeInv
  OBVIOUS
<1>1. \A t \in Threads : pc[t] \in {"idle", "async_connect", "accept"}
  BY InitialThreads
<1> QED
  BY <1>1 DEF Init, ByteInit, AwakeInv, QuotaInv, SenderAwake, Sendable, ReceiverAwake, Receivable

\* A step whose trigger comes apart keeps them.
LEMMA AwakeStep ==
    TypeOK /\ OwnersInv /\ AwakeInv /\ [Next]_vars /\ [TriggersApart]_vars => AwakeInv'
  BY QuotaStep, SenderStep, ReceiverStep DEF OwnersInv, AwakeInv

\* So they hold for ever while the triggers come apart.
LEMMA AwakeInvariant == Spec /\ [][TriggersApart]_vars => []AwakeInv
  BY AwakeInit, AwakeStep, OwnersInvariant, PTL DEF Spec

\* A token is never left locked on a connected stream that no thread is in,
\* without the write or the read that gives it back: try_start_send and
\* try_start_receive return the token on every path that starts nothing.
THEOREM TokensReturnedCorrect == Spec => []TokensReturned
<1>1. TypeOK /\ OwnersInv => TokensReturned
  BY DEF OwnersInv, TokenInv, TokensReturned, Quiescent, SendHolding, ReceiveHolding
<1> QED
  BY <1>1, OwnersInvariant, PTL

\* When every thread has left, nothing sendable is stranded.
LEMMA SenderAwakeSends == TypeOK /\ OwnersInv /\ SenderAwake => NoStrandedSend
<1> SUFFICES ASSUME TypeOK, OwnersInv, SenderAwake, Quiescent, status = "CONNECTED",
                    writeQuota > 0, writes = 0
             PROVE  pending = <<>> /\ swapped = <<>> /\ sending = NoMessage
  BY DEF NoStrandedSend
<1>1. \A t \in Threads : ret[t] # "trigger_send" /\ pc[t] = "idle"
  BY DEF Quiescent, OwnersInv, ReturnsOK, ReturnOK, ReceiveFlow, SizeFlow
<1>2. pending = <<>> /\ swapped = <<>>
  BY <1>1 DEF SenderAwake, Sendable, WillSend, WillRecheck, SendHolding
<1>3. sendToken = "FREE"
  BY <1>1 DEF TypeOK, DataTypeOK, OwnersInv, TokenInv, SendHolding
<1> QED
  BY <1>2, <1>3 DEF OwnersInv, SendingInv

\* And a stream that does not read is a server with a send to come.
LEMMA ReceiverAwakeReceives ==
    TypeOK /\ OwnersInv /\ SenderAwake /\ ReceiverAwake => NoStrandedReceive
<1> SUFFICES ASSUME TypeOK, OwnersInv, SenderAwake, ReceiverAwake, Quiescent,
                    status = "CONNECTED", readQuota > 0, reads = 0
             PROVE  Role = "server" /\ (writes > 0 \/ writeQuota <= 0)
  BY DEF NoStrandedReceive
<1>1. \A t \in Threads : ret[t] # "receive_check_token" /\ pc[t] = "idle"
  BY DEF Quiescent, OwnersInv, ReturnsOK, ReturnOK, SendFlow, SendHolding
<1>2. Pressure
  BY <1>1 DEF ReceiverAwake, Receivable, WillReceive, ReceiveHolding
<1>3. writes > 0 \/ pending # <<>> \/ swapped # <<>>
  BY <1>1, <1>2 DEF Pressure
<1>4. writes \in Nat /\ writeQuota \in {0, 1}
  BY DEF TypeOK, DataTypeOK
<1> QED
  BY <1>2, <1>3, <1>4, SenderAwakeSends DEF Pressure, NoStrandedSend

\* No lost wakeup of the sender, whatever the interleaving of the threads that
\* queue messages, send them and release the token, and with or without a
\* limit of the throughput: a trigger that comes while the token is being
\* given back for want of quota is the one exception.
THEOREM NoStrandedSendApart == Spec /\ [][TriggersApart]_vars => []NoStrandedSend
  BY SenderAwakeSends, OwnersInvariant, AwakeInvariant, PTL DEF AwakeInv

\* The same for the receiver, on a server that suspends reading too.
THEOREM NoStrandedReceiveApart == Spec /\ [][TriggersApart]_vars => []NoStrandedReceive
  BY ReceiverAwakeReceives, OwnersInvariant, AwakeInvariant, PTL DEF AwakeInv

\* Without a limit of the throughput there is no exception.
LEMMA UnlimitedAwake == ASSUME ~FlowControl PROVE Spec => []AwakeInv
<1>1. TypeOK /\ OwnersInv /\ AwakeInv /\ [Next]_vars => AwakeInv'
  BY AwakeStep, UnlimitedApart DEF AwakeInv
<1> QED
  BY <1>1, AwakeInit, OwnersInvariant, PTL DEF Spec

\* No lost wakeup of the sender: without a limit of the throughput, a connected
\* stream that no thread is in and that has no write in flight has nothing to
\* send, whatever the order in which messages were queued and the token released.
THEOREM NoStrandedSendUnlimited == ASSUME ~FlowControl PROVE Spec => []NoStrandedSend
  BY SenderAwakeSends, OwnersInvariant, UnlimitedAwake, PTL DEF AwakeInv

\* No lost wakeup of the receiver, under the same condition: it has a read in
\* flight, or it is a server with a write in flight whose end resumes it.
THEOREM NoStrandedReceiveUnlimited == ASSUME ~FlowControl PROVE Spec => []NoStrandedReceive
  BY ReceiverAwakeReceives, OwnersInvariant, UnlimitedAwake, PTL DEF AwakeInv

----------------------------------------------------------------------------
(* The stream is a first-in first-out queue *)

\* The queue of the abstract specification.
Unreported == InHand \o swapped \o pending

\* What is queued has been accepted and not reported, nothing is queued twice,
\* and a thread that is about to queue a message is the only one to have it.
QueueInv ==
    /\ \A i \in 1 .. Len(Unreported) : outcome[Unreported[i]] = "accepted"
    /\ \A i, j \in 1 .. Len(Unreported) : Unreported[i] = Unreported[j] => i = j
    /\ \A t \in Threads : pc[t] = "enqueue" =>
          /\ outcome[arg[t]] = "accepted"
          /\ \A i \in 1 .. Len(Unreported) : Unreported[i] # arg[t]
    /\ \A t, u \in Threads :
          pc[t] = "enqueue" /\ pc[u] = "enqueue" /\ arg[t] = arg[u] => t = u

\* The three parts of the queue, and the queue, hold messages.
LEMMA QueueType ==
    ASSUME TypeOK
    PROVE  /\ InHand \in Seq(Messages) /\ swapped \in Seq(Messages) /\ pending \in Seq(Messages)
           /\ Unreported \in Seq(Messages) /\ Len(Unreported) \in Nat
           /\ Unreported = InHand \o (swapped \o pending)
<1>1. InHand \in Seq(Messages) /\ swapped \in Seq(Messages) /\ pending \in Seq(Messages)
  BY DEF TypeOK, DataTypeOK, InHand
<1>2. InHand \o swapped \in Seq(Messages)
  BY <1>1, ConcatProperties
<1>3. Unreported \in Seq(Messages)
  BY <1>1, <1>2, ConcatProperties DEF Unreported
<1> QED
  BY <1>1, <1>3, ConcatAssociative, LenProperties DEF Unreported

\* A step that leaves the queue and the outcomes alone and gives no thread a
\* message to queue.
LEMMA QueueKept ==
    ASSUME QueueInv, NEW t \in Threads, OthersStay(t), pc'[t] # "enqueue",
           UNCHANGED <<Unreported, outcome>>
    PROVE  QueueInv'
  BY DEF QueueInv, OthersStay

\* The message at the head is reported and leaves the queue.
LEMMA ReportStep ==
    ASSUME TypeOK, SendInv, QueueInv, NEW t \in Threads, OthersStay(t), pc'[t] # "enqueue",
           sending \in Messages, sending' = NoMessage, UNCHANGED <<swapped, pending>>,
           NEW result \in {"sent", "failed"}, outcome' = [outcome EXCEPT ![sending] = result]
    PROVE  QueueInv' /\ Queue!Report(result)
<1>1. /\ InHand \in Seq(Messages) /\ swapped \o pending \in Seq(Messages)
      /\ Unreported \in Seq(Messages)
      /\ Unreported = InHand \o (swapped \o pending)
  BY QueueType, ConcatProperties
<1>2. InHand = <<sending>>
  BY MessageAssumption DEF InHand
<1>3. Unreported' = swapped \o pending
  <2>1. InHand' = <<>>
    BY DEF InHand
  <2>2. <<>> \o swapped = swapped
    BY QueueType, ConcatEmptySeq
  <2> QED
    BY <2>1, <2>2 DEF Unreported
<1>4. /\ Len(Unreported) = 1 + Len(Unreported') /\ Len(Unreported') \in Nat
      /\ Unreported[1] = sending
      /\ \A i \in 1 .. Len(Unreported') : Unreported'[i] = Unreported[i + 1]
  BY <1>1, <1>2, <1>3, ConcatProperties
<1>5. /\ Unreported # <<>> /\ Head(Unreported) = sending
      /\ Tail(Unreported) = Unreported'
  <2>1. Unreported # <<>> /\ Head(Unreported) = sending
    BY <1>1, <1>4
  <2>2. /\ Tail(Unreported) \in Seq(Messages)
        /\ Len(Tail(Unreported)) = Len(Unreported) - 1
        /\ \A i \in 1 .. Len(Tail(Unreported)) : Tail(Unreported)[i] = Unreported[i + 1]
    BY <1>1, <2>1, HeadTailProperties
  <2>3. /\ Len(Tail(Unreported)) = Len(Unreported')
        /\ \A i \in 1 .. Len(Tail(Unreported)) : Tail(Unreported)[i] = Unreported'[i]
    BY <1>4, <2>2
  <2> QED
    BY <1>1, <1>3, <2>1, <2>2, <2>3, SeqEqual
<1>6. outcome \in [Messages -> {"new", "accepted", "sent", "failed"}]
  BY DEF TypeOK, DataTypeOK
<1>7. QueueInv'
  <2>1. ASSUME NEW i \in 1 .. Len(Unreported')
        PROVE  /\ Unreported'[i] \in Messages /\ Unreported'[i] # sending
               /\ outcome[Unreported'[i]] = "accepted"
    <3>1. /\ i + 1 \in 1 .. Len(Unreported) /\ 1 \in 1 .. Len(Unreported) /\ i + 1 # 1
          /\ Unreported'[i] = Unreported[i + 1]
      BY <1>4
    <3>2. Unreported[i + 1] \in Messages
      BY <1>1, <3>1, ElementOfSeq
    <3> QED
      BY <1>4, <3>1, <3>2 DEF QueueInv
  <2>2. \A i \in 1 .. Len(Unreported') : outcome'[Unreported'[i]] = "accepted"
    BY <1>6, <2>1
  <2>3. \A i, j \in 1 .. Len(Unreported') : Unreported'[i] = Unreported'[j] => i = j
    BY <1>4 DEF QueueInv
  <2>4. ASSUME NEW u \in Threads, pc'[u] = "enqueue"
        PROVE  /\ outcome'[arg'[u]] = "accepted"
               /\ \A i \in 1 .. Len(Unreported') : Unreported'[i] # arg'[u]
    <3>1. pc[u] = "enqueue" /\ arg'[u] = arg[u]
      BY <2>4 DEF OthersStay
    <3>2. /\ arg[u] \in Messages /\ arg[u] # sending
          /\ \A i \in 1 .. Len(Unreported') : Unreported'[i] # arg[u]
      BY <1>4, <3>1 DEF QueueInv, SendInv, MessagesAtHand
    <3> QED
      BY <1>6, <3>1, <3>2 DEF QueueInv
  <2>5. \A u, v \in Threads : pc'[u] = "enqueue" /\ pc'[v] = "enqueue" /\ arg'[u] = arg'[v] => u = v
    BY DEF QueueInv, OthersStay
  <2> QED
    BY <2>2, <2>3, <2>4, <2>5 DEF QueueInv
<1>8. outcome[sending] = "accepted"
  BY <1>4 DEF QueueInv
<1> QED
  BY <1>5, <1>7, <1>8 DEF Queue!Report, Unreported

\* Appending to the last of two parts appends to the whole.
LEMMA AppendToConcat ==
    ASSUME NEW S, NEW s \in Seq(S), NEW t \in Seq(S), NEW e \in S
    PROVE  s \o Append(t, e) = Append(s \o t, e)
<1>1. <<e>> \in Seq(S) /\ s \o t \in Seq(S)
  BY ConcatProperties
<1>2. (s \o t) \o <<e>> = s \o (t \o <<e>>)
  BY <1>1, ConcatAssociative
<1> QED
  BY <1>1, <1>2, AppendIsConcat

\* A message is put at the end of the queue.
LEMMA PutStep ==
    ASSUME TypeOK, SendInv, QueueInv, NEW t \in Threads, OthersStay(t), PutIntoPendingQueue(t)
    PROVE  QueueInv' /\ Queue!Put(arg[t]) /\ arg[t] \in Messages
<1>1. /\ pc[t] = "enqueue" /\ pc'[t] = "send_check_token"
      /\ pending' = Append(pending, arg[t]) /\ UNCHANGED <<sending, swapped, outcome>>
  BY DEF PutIntoPendingQueue, Call, Step, Goto, TypeOK, ControlTypeOK
<1>2. arg[t] \in Messages
  BY <1>1 DEF SendInv, MessagesAtHand
<1>3. Unreported \in Seq(Messages) /\ Unreported' = Append(Unreported, arg[t])
  <2>1. InHand \o swapped \in Seq(Messages) /\ pending \in Seq(Messages)
    BY QueueType, ConcatProperties
  <2>2. Unreported' = (InHand \o swapped) \o Append(pending, arg[t])
    BY <1>1 DEF Unreported, InHand
  <2>3. Unreported' = Append((InHand \o swapped) \o pending, arg[t])
    BY <1>2, <2>1, <2>2, AppendToConcat
  <2> QED
    BY <2>3, QueueType DEF Unreported
<1>4. /\ Len(Unreported') = Len(Unreported) + 1 /\ Len(Unreported) \in Nat
      /\ \A i \in 1 .. Len(Unreported) : Unreported'[i] = Unreported[i]
      /\ Unreported'[Len(Unreported) + 1] = arg[t]
  BY <1>2, <1>3, QueueType, AppendProperties
<1>5. /\ outcome[arg[t]] = "accepted"
      /\ \A i \in 1 .. Len(Unreported) : Unreported[i] # arg[t]
  BY <1>1 DEF QueueInv
<1>6. QueueInv'
  <2>1. \A i \in 1 .. Len(Unreported') : outcome'[Unreported'[i]] = "accepted"
    BY <1>1, <1>4, <1>5 DEF QueueInv
  <2>2. \A i, j \in 1 .. Len(Unreported') : Unreported'[i] = Unreported'[j] => i = j
    BY <1>4, <1>5 DEF QueueInv
  <2>3. ASSUME NEW u \in Threads, pc'[u] = "enqueue"
        PROVE  /\ outcome'[arg'[u]] = "accepted"
               /\ \A i \in 1 .. Len(Unreported') : Unreported'[i] # arg'[u]
    <3>1. u # t /\ pc[u] = "enqueue" /\ arg'[u] = arg[u]
      BY <1>1, <2>3 DEF OthersStay
    <3>2. arg[u] # arg[t]
      BY <1>1, <3>1 DEF QueueInv
    <3> QED
      BY <1>1, <1>4, <3>1, <3>2 DEF QueueInv
  <2>4. \A u, v \in Threads : pc'[u] = "enqueue" /\ pc'[v] = "enqueue" /\ arg'[u] = arg'[v] => u = v
    BY <1>1 DEF QueueInv, OthersStay
  <2> QED
    BY <2>1, <2>2, <2>3, <2>4 DEF QueueInv
<1> QED
  BY <1>1, <1>2, <1>3, <1>5, <1>6 DEF Queue!Put, Unreported

\* A message is refused or accepted.
LEMMA AskStep ==
    ASSUME TypeOK, SendInv, QueueInv, NEW t \in Threads, OthersStay(t), NEW m \in Messages,
           AsyncSendMessage(t, m)
    PROVE  QueueInv' /\ (Queue!Refuse(m) \/ Queue!Accept(m))
<1>1. /\ outcome[m] = "new" /\ UNCHANGED <<sending, swapped, pending>>
      /\ \/ /\ pc'[t] = "idle" /\ UNCHANGED arg
            /\ outcome' = [outcome EXCEPT ![m] = "failed"]
         \/ /\ pc'[t] = "enqueue" /\ arg'[t] = m
            /\ outcome' = [outcome EXCEPT ![m] = "accepted"]
  BY DEF AsyncSendMessage, Step, Goto, TypeOK, ControlTypeOK, DataTypeOK
<1>2. UNCHANGED Unreported
  BY <1>1 DEF Unreported, InHand
<1>3. outcome \in [Messages -> {"new", "accepted", "sent", "failed"}]
  BY DEF TypeOK, DataTypeOK
<1>4. \A i \in 1 .. Len(Unreported) : Unreported[i] # m
  BY <1>1 DEF QueueInv
<1>5. \A u \in Threads \ {t} : pc'[u] = "enqueue" => arg'[u] # m /\ outcome'[arg'[u]] = "accepted"
  <2>1. ASSUME NEW u \in Threads \ {t}, pc'[u] = "enqueue"
        PROVE  arg[u] \in Messages /\ arg'[u] = arg[u] /\ outcome[arg[u]] = "accepted"
    BY <2>1 DEF QueueInv, OthersStay, SendInv, MessagesAtHand
  <2> QED
    BY <1>1, <1>3, <2>1
<1>6. \A i \in 1 .. Len(Unreported) : outcome'[Unreported[i]] = "accepted"
  <2>1. \A i \in 1 .. Len(Unreported) : Unreported[i] \in Messages
    BY QueueType, ElementOfSeq
  <2> QED
    BY <1>1, <1>3, <1>4, <2>1 DEF QueueInv
<1>7. QueueInv'
  <2>1. ASSUME NEW u \in Threads, pc'[u] = "enqueue"
        PROVE  /\ outcome'[arg'[u]] = "accepted"
               /\ \A i \in 1 .. Len(Unreported') : Unreported'[i] # arg'[u]
    BY <1>1, <1>2, <1>3, <1>4, <1>5, <2>1 DEF QueueInv, OthersStay
  <2>2. \A u, v \in Threads : pc'[u] = "enqueue" /\ pc'[v] = "enqueue" /\ arg'[u] = arg'[v] => u = v
    BY <1>1, <1>5 DEF QueueInv, OthersStay
  <2> QED
    BY <1>2, <1>6, <2>1, <2>2 DEF QueueInv
<1> QED
  BY <1>1, <1>2, <1>7 DEF Queue!Refuse, Queue!Accept, Unreported

\* A queue is its head before its tail.
LEMMA HeadAndTail ==
    ASSUME NEW S, NEW s \in Seq(S), s # <<>>
    PROVE  <<Head(s)>> \o Tail(s) = s
<1>1. Len(s) \in Nat \ {0} /\ 1 \in 1 .. Len(s) /\ Len(s) \in 1 .. Len(s)
  BY EmptySeq
<1>2. SubSeq(s, 1, Len(s)) = <<s[1]>> \o SubSeq(s, 2, Len(s))
  <2>1. SubSeq(s, 1, Len(s)) = <<s[1]>> \o SubSeq(s, 1 + 1, Len(s))
    BY <1>1, SubSeqRecursiveFirst
  <2> QED
    BY <2>1
<1> QED
  BY <1>1, <1>2, SubSeqFull, TailIsSubSeq

\* Moving messages from the pending to the swapped queue, from there to the
\* hand and back does not change the order they are sent in.
LEMMA MoveStep ==
    ASSUME TypeOK, SendInv, SendingInv, NEW t \in Threads,
           SwapPendingQueue(t) \/ FetchFront(t) \/ InsertIntoPendingQueue(t)
    PROVE  UNCHANGED <<Unreported, outcome>>
<1> USE DEF Step, Goto
<1>1. InHand \in Seq(Messages) /\ swapped \in Seq(Messages) /\ pending \in Seq(Messages)
  BY QueueType
<1>2. CASE SwapPendingQueue(t)
  <2>1. sending = NoMessage /\ sending' = NoMessage /\ UNCHANGED outcome
    BY <1>2 DEF SwapPendingQueue, SendingInv, SendHolding
  <2>2. \/ swapped = <<>> /\ swapped' = pending /\ pending' = <<>>
        \/ UNCHANGED <<swapped, pending>>
    BY <1>2 DEF SwapPendingQueue
  <2>3. \A s \in Seq(Messages) : <<>> \o s = s /\ s \o <<>> = s
    BY ConcatEmptySeq
  <2>4. InHand = <<>> /\ InHand' = <<>> /\ <<>> \in Seq(Messages)
    BY <2>1 DEF InHand
  <2> QED
    BY <1>1, <2>1, <2>2, <2>3, <2>4 DEF Unreported
<1>3. CASE FetchFront(t)
  <2>1. sending = NoMessage /\ UNCHANGED <<outcome, pending>>
    BY <1>3 DEF FetchFront, SendingInv, SendHolding
  <2>2. CASE swapped # <<>>
    <3>1. sending' = Head(swapped) /\ swapped' = Tail(swapped)
      BY <1>3, <2>2 DEF FetchFront
    <3>2. Head(swapped) \in Messages /\ Tail(swapped) \in Seq(Messages)
      BY <1>1, <2>2
    <3>3. InHand = <<>> /\ InHand' = <<Head(swapped)>>
      BY <2>1, <3>1, <3>2, MessageAssumption DEF InHand
    <3>4. <<Head(swapped)>> \o Tail(swapped) = swapped
      BY <1>1, <2>2, HeadAndTail
    <3>5. <<>> \o swapped = swapped
      BY <1>1, ConcatEmptySeq
    <3> QED
      BY <2>1, <3>1, <3>3, <3>4, <3>5 DEF Unreported
  <2>3. CASE swapped = <<>>
    BY <1>3, <2>1, <2>3 DEF FetchFront, Unreported, InHand
  <2> QED
    BY <2>2, <2>3
<1>4. CASE InsertIntoPendingQueue(t)
  <2>1. /\ sending \in Messages /\ sending' = NoMessage
        /\ swapped' = <<sending>> \o swapped /\ UNCHANGED <<outcome, pending>>
    BY <1>4 DEF InsertIntoPendingQueue, SendInv, MessagesAtHand
  <2>2. InHand = <<sending>> /\ InHand' = <<>>
    BY <2>1, MessageAssumption DEF InHand
  <2>3. <<sending>> \o swapped \in Seq(Messages)
    BY <1>1, <2>2, ConcatProperties
  <2>4. <<>> \o (<<sending>> \o swapped) = <<sending>> \o swapped
    BY <2>3, ConcatEmptySeq
  <2> QED
    BY <2>1, <2>2, <2>4 DEF Unreported
<1> QED
  BY <1>2, <1>3, <1>4

\* Every other step leaves the queue alone.
LEMMA QueueStep ==
    TypeOK /\ SendInv /\ SendingInv /\ QueueInv /\ [Next]_vars
        => QueueInv' /\ [Queue!Next]_<<Unreported, outcome>>
<1> SUFFICES ASSUME TypeOK, SendInv, SendingInv, QueueInv, [Next]_vars
             PROVE  QueueInv' /\ [Queue!Next]_<<Unreported, outcome>>
  OBVIOUS
<1>1. ControlTypeOK
  BY DEF TypeOK
<1> USE DEF Goto, Step, Call, Return, GoOnIf, ControlTypeOK, ReturnLabels, streamVars
<1>2. ASSUME NEW t \in Threads, OthersStay(t), NEW m \in Messages, AsyncSendMessage(t, m)
      PROVE  QueueInv' /\ Queue!Next
  BY <1>2, AskStep DEF Queue!Next
<1>3. ASSUME NEW t \in Threads, OthersStay(t), PutIntoPendingQueue(t)
      PROVE  QueueInv' /\ Queue!Next
  BY <1>3, PutStep DEF Queue!Next
<1>4. ASSUME NEW t \in Threads, OthersStay(t), CancelSending(t)
      PROVE  QueueInv' /\ Queue!Next
  <2>1. /\ pc'[t] # "enqueue" /\ sending \in Messages /\ sending' = NoMessage
        /\ UNCHANGED <<swapped, pending>> /\ outcome' = [outcome EXCEPT ![sending] = "failed"]
    BY <1>1, <1>4 DEF CancelSending, SendInv, MessagesAtHand
  <2> QED
    BY <1>4, <2>1, ReportStep DEF Queue!Next
<1>5. ASSUME NEW t \in Threads, OthersStay(t), OnWriteSome(t)
      PROVE  QueueInv' /\ [Queue!Next]_<<Unreported, outcome>>
  <2>1. pc'[t] # "enqueue" /\ sending \in Messages /\ UNCHANGED <<swapped, pending>>
    BY <1>1, <1>5 DEF OnWriteSome, SendingInv
  <2>2. CASE UNCHANGED <<sending, outcome>>
    <3>1. UNCHANGED Unreported
      BY <2>1, <2>2 DEF Unreported, InHand
    <3> QED
      BY <1>5, <2>1, <2>2, <3>1, QueueKept
  <2>3. CASE sending' = NoMessage /\ \E result \in {"sent", "failed"} :
                                        outcome' = [outcome EXCEPT ![sending] = result]
    BY <1>5, <2>1, <2>3, ReportStep DEF Queue!Next
  <2> QED
    BY <1>5, <2>2, <2>3 DEF OnWriteSome
<1>6. ASSUME NEW t \in Threads, OthersStay(t),
             SwapPendingQueue(t) \/ FetchFront(t) \/ InsertIntoPendingQueue(t)
      PROVE  QueueInv' /\ UNCHANGED <<Unreported, outcome>>
  <2>1. pc'[t] # "enqueue"
    BY <1>1, <1>6 DEF SwapPendingQueue, FetchFront, InsertIntoPendingQueue
  <2> QED
    BY <1>6, <2>1, MoveStep, QueueKept
<1>7. ASSUME NEW t \in Threads, OthersStay(t),
             \/ SendCheckToken(t) \/ SendCheckQuota(t) \/ SendCheckConnected(t) \/ SendAcquire(t)
             \/ StartSending(t) \/ SendRelease(t) \/ SendRecheck(t) \/ WriteRelease(t)
             \/ TriggerSend(t)
      PROVE  QueueInv' /\ UNCHANGED <<Unreported, outcome>>
  <2>1. UNCHANGED <<sending, swapped, pending, outcome>> /\ pc'[t] # "enqueue"
    BY <1>1, <1>7 DEF SendCheckToken, SendCheckQuota, SendCheckConnected, SendAcquire,
       StartSending, SendRelease, SendRecheck, WriteRelease, TriggerSend, queueVars
  <2>2. UNCHANGED Unreported
    BY <2>1 DEF Unreported, InHand
  <2> QED
    BY <1>7, <2>1, <2>2, QueueKept
<1>8. ASSUME NEW t \in Threads, OthersStay(t),
             \/ ReceiveStep(t) \/ ConnectionStep(t) \/ Connected(t) \/ OnReadSome(t)
             \/ /\ OnConnect(t) \/ OnConnectTimeout(t) \/ CallClose(t)
                /\ UNCHANGED <<streamVars, ret>>
             \/ t = Timer /\ TimerMaintain
      PROVE  QueueInv' /\ UNCHANGED <<Unreported, outcome>>
  <2>1. UNCHANGED <<sending, swapped, pending, outcome>>
    BY <1>8, OutsideQueue DEF queueVars
  <2>2. pc'[t] # "enqueue"
    <3>1. CASE t = Timer /\ TimerMaintain
      BY <1>1, <3>1 DEF TimerMaintain
    <3>2. CASE ~(t = Timer /\ TimerMaintain)
      <4>1. PICK to : pc' = [pc EXCEPT ![t] = to] /\ to # "enqueue"
        BY <1>1, <1>8, <3>2, OutsideSending
      <4> QED
        BY <1>1, <4>1
    <3> QED
      BY <3>1, <3>2
  <2>3. UNCHANGED Unreported
    BY <2>1 DEF Unreported, InHand
  <2> QED
    BY <1>8, <2>1, <2>2, <2>3, QueueKept
<1>9. CASE UNCHANGED vars
  <2>1. UNCHANGED <<Unreported, outcome>>
    BY <1>9 DEF vars, queueVars, Unreported, InHand
  <2> QED
    BY <1>9, <2>1 DEF vars, byteVars, queueVars, QueueInv
<1> QED
  BY <1>2, <1>3, <1>4, <1>5, <1>6, <1>7, <1>8, <1>9, StepOfOne, OthersStayPut DEF StepOf, SendStep

\* The stream implements the queue its callers are promised: a message is
\* refused at once or queued, messages are dealt with in the order in which
\* they were queued, and each is reported at most once, across the pending
\* queue, the swapped queue and the message put back for want of quota.
THEOREM QueueImplemented == Spec => QueueSpec
<1>1. Init => QueueInv /\ Queue!Init
  <2> SUFFICES ASSUME Init PROVE QueueInv /\ Queue!Init
    OBVIOUS
  <2>1. Unreported = <<>> /\ Len(Unreported) = 0
    BY DEF Init, Unreported, InHand
  <2>2. \A t \in Threads : pc[t] # "enqueue"
    BY InitialThreads
  <2> QED
    BY <2>1, <2>2 DEF Init, QueueInv, Queue!Init, Unreported
<1>2. TypeOK /\ OwnersInv /\ QueueInv /\ [Next]_vars
         => QueueInv' /\ [Queue!Next]_<<InHand \o swapped \o pending, outcome>>
  BY QueueStep DEF OwnersInv, Unreported
<1> QED
  BY <1>1, <1>2, OwnersInvariant, PTL DEF Spec, QueueSpec, Queue!Spec
=============================================================================
