--------------------------- MODULE MessageStream ---------------------------
(***************************************************************************)
(* RpcMessageStream / RpcServerMessageStream: the send queue and the       *)
(* receive loop of one connection.  Threads race for a send token and a    *)
(* receive token (compare and swap); the holder owns the swapped queue,    *)
(* the message being sent and the asynchronous operation it starts.  Both  *)
(* classes have the same code here; they differ in the framing of what is  *)
(* read, which is not part of this module, and in the server's suspension *)
(* of reading while too much output is queued.                             *)
(*                                                                         *)
(* One action is one access to shared state: a read that a decision rests  *)
(* on, a compare and swap, a locked section, or the start or the end of an *)
(* asynchronous operation.  Work of the token holder on what nobody else   *)
(* reads is joined with the access that follows or precedes it.            *)
(***************************************************************************)
EXTENDS ByteStream, Sequences

CONSTANTS
    Role,          \* "client" or "server": the end this stream is
    Messages,      \* the messages given to async_send_message
    NoMessage,     \* a null _sending_message
    FlowControl,   \* TRUE iff throughput is limited (slice quota # -1)
    MaxPending,    \* _max_pending_buffer_size; each message has size 1
    MaxParts,      \* bound: writes needed for one message
    MaxReceived    \* bound: messages received on the connection

ASSUME MessageAssumption ==
    /\ Roles = {Role}
    /\ NoMessage \notin Messages
    /\ FlowControl \in BOOLEAN
    /\ MaxPending \in Nat
    /\ MaxParts \in Nat \ {0}
    /\ MaxReceived \in Nat

VARIABLES
    pending,       \* _pending_calls, under _pending_lock
    swapped,       \* _swapped_calls, owned by the send token
    sending,       \* _sending_message, owned by the send token
    parts,         \* writes the message being sent still needs
    outcome,       \* the callback each message got: on_sent, on_send_failed
    sendToken,     \* _send_token
    receiveToken,  \* _receive_token
    writeQuota,    \* _write_quota_token: 1 stands for > 0, 0 for <= 0
    readQuota,     \* _read_quota_token
    writes,        \* async_write_some operations in flight
    reads,         \* async_read_some operations in flight
    received,      \* messages handed to on_received
    ret,           \* where try_start_send / try_start_receive return to
    arg,           \* the message a thread is putting into the queue
    sizeRead       \* the part of pending_buffer_size() a thread has read

queueVars == <<pending, swapped, sending, parts, outcome, arg>>
sendVars == <<sendToken, writeQuota, writes>>
receiveVars == <<receiveToken, readQuota, reads, received, sizeRead>>
vars == <<byteVars, queueVars, sendVars, receiveVars, ret>>
openVars == <<connecting, timer>>

\* All that close() and the opening of the connection leave alone.
streamVars == <<queueVars, sendVars, receiveVars>>

SendHolding ==
    {"send_get", "send_fetch", "send_decide", "send_requeue", "send_release_requeued",
     "send_release_cancelled", "send_release_empty", "write_release"}

ReceiveHolding == {"receive_quota", "receive_release", "read_release"}

Labels ==
    ByteLabels \cup SendHolding \cup ReceiveHolding \cup
    {"enqueue", "send_check_token", "send_check_quota", "send_check_connected",
     "send_acquire", "send_recheck", "trigger_send", "trigger_receive",
     "receive_check_token", "receive_check_quota", "receive_check_pending",
     "receive_add_pending", "receive_add_swapped", "receive_check_connected", "receive_acquire", "deliver"}

ReturnLabels == {"idle", "receive_check_token", "trigger_send", "deliver"}

Init ==
    /\ ByteInit
    /\ pending = <<>> /\ swapped = <<>>
    /\ sending = NoMessage /\ parts = 0
    /\ outcome = [m \in Messages |-> "new"]
    /\ sendToken = "FREE" /\ receiveToken = "FREE"
    /\ writeQuota = 1 /\ readQuota = 1
    /\ writes = 0 /\ reads = 0 /\ received = 0
    /\ ret = [t \in Threads |-> "idle"]
    /\ arg = [t \in Threads |-> NoMessage]
    /\ sizeRead = [t \in Threads |-> 0]

----------------------------------------------------------------------------
(* Helpers *)

\* A step of thread t that leaves the connection's status alone.
Step(t, from, to) == Goto(t, from, to) /\ UNCHANGED <<status, openVars, closedRuns, revived>>

\* A call: on return, t goes on at "back".
Call(t, from, to, back) == Step(t, from, to) /\ ret' = [ret EXCEPT ![t] = back]

\* Return from try_start_send or try_start_receive.
Return(t, from) == Step(t, from, ret[t]) /\ ret' = [ret EXCEPT ![t] = "idle"]

\* if (condition) go on; else return.
GoOnIf(condition, t, from, to) ==
    \/ condition /\ Step(t, from, to) /\ UNCHANGED ret
    \/ ~condition /\ Return(t, from)

\* What acquire_*_quota may return: the pool is shared with other streams.
QuotaResults == IF FlowControl THEN {0, 1} ELSE {1}

----------------------------------------------------------------------------
(* async_send_message() *)

\* A user thread of the client, or a server thread that answers a request.
MaySend ==
    Role = "client" \/ Cardinality({m \in Messages : outcome[m] # "new"}) < received

AsyncSendMessage(t, m) ==
    /\ outcome[m] = "new" /\ MaySend
    /\ \/ /\ status = "CLOSED"
          /\ Step(t, "idle", "idle")
          /\ outcome' = [outcome EXCEPT ![m] = "failed"]
          /\ UNCHANGED arg
       \/ /\ status # "CLOSED"
          /\ Step(t, "idle", "enqueue")
          /\ outcome' = [outcome EXCEPT ![m] = "accepted"]
          /\ arg' = [arg EXCEPT ![t] = m]
    /\ UNCHANGED <<pending, swapped, sending, parts, sendVars, receiveVars, ret>>

PutIntoPendingQueue(t) ==
    /\ Call(t, "enqueue", "send_check_token", "idle")
    /\ pending' = Append(pending, arg[t])
    /\ arg' = [arg EXCEPT ![t] = NoMessage]
    /\ UNCHANGED <<swapped, sending, parts, outcome, sendVars, receiveVars>>

----------------------------------------------------------------------------
(* try_start_send() *)

SendCheckToken(t) ==
    /\ GoOnIf(sendToken = "FREE", t, "send_check_token", "send_check_quota")
    /\ UNCHANGED streamVars

SendCheckQuota(t) ==
    /\ GoOnIf(writeQuota > 0, t, "send_check_quota", "send_check_connected")
    /\ UNCHANGED streamVars

SendCheckConnected(t) ==
    /\ GoOnIf(status = "CONNECTED", t, "send_check_connected", "send_acquire")
    /\ UNCHANGED streamVars

\* Mutant: a plain store instead of the compare and swap.
SendAcquire_Store(t) ==
    /\ Step(t, "send_acquire", "send_get")
    /\ sendToken' = "LOCK"
    /\ UNCHANGED <<queueVars, writeQuota, writes, receiveVars, ret>>

SendAcquire(t) ==
    /\ GoOnIf(sendToken = "FREE", t, "send_acquire", "send_get")
    /\ sendToken' = "LOCK"
    /\ UNCHANGED <<queueVars, writeQuota, writes, receiveVars>>

\* get_from_pending_queue(): refill the swapped queue only when it is empty,
\* and read the pending count before taking the lock.
SwapPendingQueue(t) ==
    /\ Step(t, "send_get", "send_fetch")
    /\ \/ swapped = <<>> /\ swapped' = pending /\ pending' = <<>>
       \/ swapped # <<>> /\ UNCHANGED <<pending, swapped>>
    /\ UNCHANGED <<sending, parts, outcome, arg, sendVars, receiveVars, ret>>

\* Mutant: with nothing found the token is not released.
FetchFront_KeepToken(t) ==
    /\ \/ /\ swapped # <<>>
          /\ sending' = Head(swapped)
          /\ swapped' = Tail(swapped)
          /\ Step(t, "send_fetch", "send_decide")
       \/ /\ swapped = <<>>
          /\ Step(t, "send_fetch", "send_recheck")
          /\ UNCHANGED <<swapped, sending>>
    /\ UNCHANGED <<pending, parts, outcome, arg, sendVars, receiveVars, ret>>

\* get_from_pending_queue(): fetch the top one.
FetchFront(t) ==
    /\ \/ /\ swapped # <<>>
          /\ sending' = Head(swapped)
          /\ swapped' = Tail(swapped)
          /\ Step(t, "send_fetch", "send_decide")
       \/ /\ swapped = <<>>
          /\ Step(t, "send_fetch", "send_release_empty")
          /\ UNCHANGED <<swapped, sending>>
    /\ UNCHANGED <<pending, parts, outcome, arg, sendVars, receiveVars, ret>>

\* on_sending() says no (the call is done or cancelled; clients only):
\* on_send_failed and clear_sending_env.
CancelSending(t) ==
    /\ Role = "client"
    /\ Step(t, "send_decide", "send_release_cancelled")
    /\ outcome' = [outcome EXCEPT ![sending] = "failed"]
    /\ sending' = NoMessage
    /\ UNCHANGED <<pending, swapped, parts, arg, sendVars, receiveVars, ret>>

\* acquire_write_quota() and the store of its result; with quota the first
\* write is started and the token stays with the operation in flight.
StartSending(t) ==
    /\ \E quota \in QuotaResults :
          /\ writeQuota' = quota
          /\ \/ /\ quota > 0
                /\ Return(t, "send_decide")
                /\ parts' \in 1 .. MaxParts
                /\ writes' = writes + 1
             \/ /\ quota <= 0
                /\ Step(t, "send_decide", "send_requeue")
                /\ UNCHANGED <<parts, writes, ret>>
    /\ UNCHANGED <<pending, swapped, sending, outcome, arg, sendToken, receiveVars>>

\* Mutant: the message is put back at the end of the queue.
InsertIntoPendingQueue_Back(t) ==
    /\ Step(t, "send_requeue", "send_release_requeued")
    /\ swapped' = Append(swapped, sending)
    /\ sending' = NoMessage
    /\ UNCHANGED <<pending, parts, outcome, arg, sendVars, receiveVars, ret>>

InsertIntoPendingQueue(t) ==
    /\ Step(t, "send_requeue", "send_release_requeued")
    /\ swapped' = <<sending>> \o swapped
    /\ sending' = NoMessage
    /\ UNCHANGED <<pending, parts, outcome, arg, sendVars, receiveVars, ret>>

\* The three releases of the token: after a cancelled message the loop goes
\* on, with no quota it ends, with nothing found the queue is looked at again.
SendRelease(t) ==
    /\ \/ Step(t, "send_release_cancelled", "send_check_connected") /\ UNCHANGED ret
       \/ Return(t, "send_release_requeued")
       \/ Step(t, "send_release_empty", "send_recheck") /\ UNCHANGED ret
    /\ sendToken' = "FREE"
    /\ UNCHANGED <<queueVars, writeQuota, writes, receiveVars>>

\* Mutant: the loop ends without looking at the queue again.
SendRecheck_Break(t) == Return(t, "send_recheck") /\ UNCHANGED streamVars

SendRecheck(t) ==
    /\ GoOnIf(pending # <<>>, t, "send_recheck", "send_check_connected")
    /\ UNCHANGED streamVars

----------------------------------------------------------------------------
(* on_write_some() *)

\* The end of a write: nothing more on a stream that is not connected, close
\* it on an error, write the next part, or report the message as sent.
OnWriteSome(t) ==
    /\ writes > 0
    /\ \/ /\ status # "CONNECTED"
          /\ Step(t, "idle", "idle")
          /\ writes' = writes - 1
          /\ UNCHANGED <<sending, parts, outcome>>
       \/ /\ status = "CONNECTED"
          /\ Step(t, "idle", "close")
          /\ writes' = writes - 1
          /\ outcome' = [outcome EXCEPT ![sending] = "failed"]
          /\ sending' = NoMessage /\ parts' = 0
       \/ /\ status = "CONNECTED" /\ parts > 1
          /\ Step(t, "idle", "idle")
          /\ parts' = parts - 1
          /\ UNCHANGED <<sending, outcome, writes>>
       \/ /\ status = "CONNECTED" /\ parts = 1
          /\ Step(t, "idle", "write_release")
          /\ writes' = writes - 1
          /\ outcome' = [outcome EXCEPT ![sending] = "sent"]
          /\ sending' = NoMessage /\ parts' = 0
    /\ UNCHANGED <<pending, swapped, arg, sendToken, writeQuota, receiveVars, ret>>

\* Mutant: a server does not try to receive after a message is sent.
WriteRelease_SendOnly(t) ==
    /\ Call(t, "write_release", "send_check_token", "idle")
    /\ sendToken' = "FREE"
    /\ UNCHANGED <<queueVars, writeQuota, writes, receiveVars>>

\* Release the token and start the next message; a server then also tries to
\* receive, because receiving may be suspended on a full queue.
WriteRelease(t) ==
    /\ Call(t, "write_release", "send_check_token",
            IF Role = "server" THEN "receive_check_token" ELSE "idle")
    /\ sendToken' = "FREE"
    /\ UNCHANGED <<queueVars, writeQuota, writes, receiveVars>>

----------------------------------------------------------------------------
(* try_start_receive() *)

ReceiveCheckToken(t) ==
    /\ GoOnIf(receiveToken = "FREE", t, "receive_check_token", "receive_check_quota")
    /\ UNCHANGED streamVars

ReceiveCheckQuota(t) ==
    /\ GoOnIf(readQuota > 0, t, "receive_check_quota",
              IF Role = "server" THEN "receive_check_pending" ELSE "receive_check_connected")
    /\ UNCHANGED streamVars

\* pending_buffer_size() adds two counters it reads one after the other, in
\* an order the language leaves open, without the lock.
ReadPendingSize(t) ==
    /\ \/ /\ Step(t, "receive_check_pending", "receive_add_swapped")
          /\ sizeRead' = [sizeRead EXCEPT ![t] = Len(pending)]
       \/ /\ Step(t, "receive_check_pending", "receive_add_pending")
          /\ sizeRead' = [sizeRead EXCEPT ![t] = Len(swapped)]
    /\ UNCHANGED <<queueVars, sendVars, receiveToken, readQuota, reads, received, ret>>

ReceiveCheckPending(t) ==
    /\ \/ GoOnIf(sizeRead[t] + Len(swapped) <= MaxPending,
                 t, "receive_add_swapped", "receive_check_connected")
       \/ GoOnIf(sizeRead[t] + Len(pending) <= MaxPending,
                 t, "receive_add_pending", "receive_check_connected")
    /\ sizeRead' = [sizeRead EXCEPT ![t] = 0]
    /\ UNCHANGED <<queueVars, sendVars, receiveToken, readQuota, reads, received>>

ReceiveCheckConnected(t) ==
    /\ GoOnIf(status = "CONNECTED", t, "receive_check_connected", "receive_acquire")
    /\ UNCHANGED streamVars

\* Mutant: a plain store instead of the compare and swap.
ReceiveAcquire_Store(t) ==
    /\ Step(t, "receive_acquire", "receive_quota")
    /\ receiveToken' = "LOCK"
    /\ UNCHANGED <<queueVars, sendVars, readQuota, reads, received, sizeRead, ret>>

ReceiveAcquire(t) ==
    /\ GoOnIf(receiveToken = "FREE", t, "receive_acquire", "receive_quota")
    /\ receiveToken' = "LOCK"
    /\ UNCHANGED <<queueVars, sendVars, readQuota, reads, received, sizeRead>>

\* acquire_read_quota() and the store of its result; with quota the read is
\* started and the token stays with the operation in flight.
StartReceiving(t) ==
    /\ \E quota \in QuotaResults :
          /\ readQuota' = quota
          /\ \/ quota > 0 /\ Return(t, "receive_quota") /\ reads' = reads + 1
             \/ /\ quota <= 0
                /\ Step(t, "receive_quota", "receive_release")
                /\ UNCHANGED <<reads, ret>>
    /\ UNCHANGED <<queueVars, sendVars, receiveToken, received, sizeRead>>

ReceiveRelease(t) ==
    /\ Return(t, "receive_release")
    /\ receiveToken' = "FREE"
    /\ UNCHANGED <<queueVars, sendVars, readQuota, reads, received, sizeRead>>

----------------------------------------------------------------------------
(* on_read_some() *)

\* The end of a read: nothing more on a stream that is not connected; close it
\* on an error, on a broken stream or out of memory; else go on.
OnReadSome(t) ==
    /\ reads > 0
    /\ reads' = reads - 1
    /\ \/ status # "CONNECTED" /\ Step(t, "idle", "idle")
       \/ status = "CONNECTED" /\ Step(t, "idle", "close")
       \/ status = "CONNECTED" /\ Step(t, "idle", "read_release")
    /\ UNCHANGED <<queueVars, sendVars, receiveToken, readQuota, received, sizeRead, ret>>

\* Release the token and start the next read before delivering.
ReadRelease(t) ==
    /\ Call(t, "read_release", "receive_check_token", "deliver")
    /\ receiveToken' = "FREE"
    /\ UNCHANGED <<queueVars, sendVars, readQuota, reads, received, sizeRead>>

\* Hand the messages of this read to on_received(), until none is left or
\* the stream is closed.
Deliver(t) ==
    /\ \/ /\ status # "CLOSED" /\ received < MaxReceived
          /\ Step(t, "deliver", "deliver")
          /\ received' = received + 1
       \/ /\ Step(t, "deliver", "idle")
          /\ UNCHANGED received
    /\ UNCHANGED <<queueVars, sendVars, receiveToken, readQuota, reads, sizeRead, ret>>

----------------------------------------------------------------------------
(* trigger_receive() and trigger_send() *)

TriggerReceive(t) ==
    /\ Step(t, "trigger_receive", "receive_check_token")
    /\ readQuota' = 1
    /\ UNCHANGED <<queueVars, sendVars, receiveToken, reads, received, sizeRead, ret>>

TriggerSend(t) ==
    /\ Step(t, "trigger_send", "send_check_token")
    /\ writeQuota' = 1
    /\ UNCHANGED <<queueVars, sendToken, writes, receiveVars, ret>>

\* on_connect() and set_socket_connected() end with both triggers.
Connected(t) ==
    /\ StoreConnected(t, "trigger_receive")
    /\ ret' = [ret EXCEPT ![t] = "trigger_send"]
    /\ UNCHANGED streamVars

\* TimerMaintain() of client and server, for this stream: recharge, collect
\* the stream if its token is <= 0, and trigger it as a later step.
TimerMaintain ==
    /\ FlowControl /\ status # "CLOSED"
    /\ \/ readQuota <= 0 /\ Step(Timer, "idle", "trigger_receive")
       \/ writeQuota <= 0 /\ Step(Timer, "idle", "trigger_send")
    /\ UNCHANGED <<streamVars, ret>>

----------------------------------------------------------------------------

SendStep(t) ==
    \/ PutIntoPendingQueue(t) \/ SendCheckToken(t) \/ SendCheckQuota(t)
    \/ SendCheckConnected(t) \/ SendAcquire(t) \/ SwapPendingQueue(t)
    \/ FetchFront(t) \/ CancelSending(t) \/ StartSending(t) \/ InsertIntoPendingQueue(t)
    \/ SendRelease(t) \/ SendRecheck(t) \/ WriteRelease(t) \/ TriggerSend(t)

ReceiveStep(t) ==
    \/ ReceiveCheckToken(t) \/ ReceiveCheckQuota(t) \/ ReadPendingSize(t)
    \/ ReceiveCheckPending(t) \/ ReceiveCheckConnected(t) \/ ReceiveAcquire(t)
    \/ StartReceiving(t) \/ ReceiveRelease(t) \/ ReadRelease(t) \/ Deliver(t)
    \/ TriggerReceive(t)

\* The steps of ByteStream that concern only the connection.
ConnectionStep(t) ==
    /\ AsyncConnect(t) \/ Accept(t) \/ Close(t) \/ OnClosed(t)
    /\ UNCHANGED <<streamVars, ret>>

\* A thread inside the stream.
ThreadStep(t) == SendStep(t) \/ ReceiveStep(t) \/ ConnectionStep(t) \/ Connected(t)

\* What the io_service and the callers start on an idle thread.
Handler(t) ==
    \/ OnWriteSome(t)
    \/ OnReadSome(t)
    \/ (OnConnect(t) \/ OnConnectTimeout(t)) /\ UNCHANGED <<streamVars, ret>>

Next ==
    \/ \E t \in Threads : ThreadStep(t)
    \/ \E t \in Workers : Handler(t)
    \/ \E t \in Workers, m \in Messages : AsyncSendMessage(t, m)
    \/ \E t \in Callers : CallClose(t) /\ UNCHANGED <<streamVars, ret>>
    \/ TimerMaintain

Spec == Init /\ [][Next]_vars

\* A thread inside the stream keeps running; the peer keeps reading, so each
\* write ends, and the io_service, which serves its handlers in turn, runs the
\* handler of a write although its threads are also kept busy by other work.
\* Nothing makes the peer send anything or answer a connect.
Fairness ==
    /\ \A t \in Threads : WF_vars(pc[t] # "idle" /\ ThreadStep(t))
    /\ SF_vars(\E t \in Workers : OnWriteSome(t))

FairSpec == Spec /\ Fairness

----------------------------------------------------------------------------
(* Properties *)

ControlTypeOK ==
    /\ status \in Statuses
    /\ pc \in [Threads -> Labels]
    /\ connecting \in {"none", "pending", "done"}
    /\ timer \in {"off", "armed", "fired"}
    /\ closedRuns \in Nat /\ revived \in Nat
    /\ ret \in [Threads -> ReturnLabels]

DataTypeOK ==
    /\ pending \in Seq(Messages) /\ swapped \in Seq(Messages)
    /\ sending \in Messages \cup {NoMessage}
    /\ parts \in 0 .. MaxParts
    /\ outcome \in [Messages -> {"new", "accepted", "sent", "failed"}]
    /\ sendToken \in {"FREE", "LOCK"} /\ receiveToken \in {"FREE", "LOCK"}
    /\ writeQuota \in {0, 1} /\ readQuota \in {0, 1}
    /\ writes \in Nat /\ reads \in Nat
    /\ received \in 0 .. MaxReceived
    /\ arg \in [Threads -> Messages \cup {NoMessage}]
    /\ sizeRead \in [Threads -> Nat]

TypeOK == ControlTypeOK /\ DataTypeOK

Holds(t, labels) == pc[t] \in labels

\* The send token has one owner: a thread inside try_start_send or the one
\* write in flight, so two messages are never mixed on the wire and the
\* unlocked accesses to _swapped_calls and _sending_message never collide.
SendTokenExclusive ==
    /\ writes <= 1
    /\ writes = 1 => sendToken = "LOCK"
    /\ \A t \in Threads : Holds(t, SendHolding) =>
          sendToken = "LOCK" /\ writes = 0 /\ \A u \in Threads \ {t} : ~Holds(u, SendHolding)

\* The same for the receive token and the receive buffer it protects.
ReceiveTokenExclusive ==
    /\ reads <= 1
    /\ reads = 1 => receiveToken = "LOCK"
    /\ \A t \in Threads : Holds(t, ReceiveHolding) =>
          receiveToken = "LOCK" /\ reads = 0 /\ \A u \in Threads \ {t} : ~Holds(u, ReceiveHolding)

Quiescent == \A t \in Threads : pc[t] = "idle"

\* A token is never left locked on a connected stream without an operation
\* in flight that will give it back: that stream would be dead both ways.
TokensReturned ==
    Quiescent /\ status = "CONNECTED" =>
        /\ sendToken = "LOCK" => writes > 0
        /\ receiveToken = "LOCK" => reads > 0

\* No lost wakeup of the sender: when every thread has left the stream, a
\* connected stream with quota and messages to send has a write in flight
\* (the argument of the comment in try_start_send, rpc_message_stream.h:552).
NoStrandedSend ==
    Quiescent /\ status = "CONNECTED" /\ writeQuota > 0 /\ writes = 0 =>
        pending = <<>> /\ swapped = <<>> /\ sending = NoMessage

\* No lost wakeup of the receiver: a connected stream with quota has a read in
\* flight, or it is a server that suspended reading on its full queue and has
\* a send in progress whose end resumes it (rpc_server_message_stream.h:337).
NoStrandedReceive ==
    Quiescent /\ status = "CONNECTED" /\ readQuota > 0 /\ reads = 0 =>
        Role = "server" /\ (writes > 0 \/ writeQuota <= 0)

\* A server that suspended reading because its send queue was full reads
\* again when the queue has drained, and a connected client always reads.
ReceivingResumes == status = "CONNECTED" /\ reads = 0 ~> reads > 0 \/ status # "CONNECTED"

\* The comment of async_send_message: on_sent or on_send_failed is called for
\* each message, here once the stream is closed and has nothing left to run.
CallbackPromise ==
    Quiescent /\ status = "CLOSED" /\ ~Opening /\ writes = 0 =>
        \A m \in Messages : outcome[m] # "accepted"

\* The messages accepted and not yet reported, in the order they are sent.
InHand == IF sending = NoMessage THEN <<>> ELSE <<sending>>

\* The stream is a FIFO queue that reports each message at most once.
Queue == INSTANCE SendQueue WITH queue <- InHand \o swapped \o pending
QueueSpec == Queue!Spec
=============================================================================
