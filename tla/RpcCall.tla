------------------------------ MODULE RpcCall ------------------------------
(***************************************************************************)
(* The calls of a client to one endpoint: RpcClientImpl::CallMethod, the   *)
(* stream map, RpcClientStream with its controller map, RpcControllerImpl  *)
(* and RpcTimeoutManager.  A response, the timeout, the end of the         *)
(* connection and a failed send race to end a call.                        *)
(*                                                                         *)
(* The user's thread of call c is c itself; Workers run the handlers of    *)
(* the streams; Timer runs timer_run.  A locked section and an access to   *)
(* shared state are one action.  The queue and the connection of a stream  *)
(* are reduced to what ByteStream and MessageStream establish.             *)
(***************************************************************************)
EXTENDS Naturals, FiniteSets

CONSTANTS
    Calls,       \* RpcControllerImpl objects, each used for one call
    NoCall,      \* a thread works on no call
    Streams,     \* bound: RpcClientStream objects that may be created
    NoStream,    \* the stream map has no entry for the endpoint
    Workers,     \* threads of the work thread group
    Timer        \* the maintenance thread that runs timer_run

ASSUME CallAssumption ==
    /\ Workers \cap Calls = {}
    /\ Timer \notin Calls \cup Workers
    /\ NoStream \notin Streams
    /\ NoCall \notin Calls

Threads == Calls \cup Workers \cup {Timer}

\* Only whether a call timed out is told apart from the other error codes.
Results == {"success", "failed", "timeout"}

VARIABLES
    streamMap,    \* the entry of _stream_map for the endpoint
    status,       \* of each stream: "new", "open" (not closed yet) or "closed"
    controllers,  \* _controller_map of each stream
    queued,       \* the requests in the queue of each stream
    wire,         \* of each call: "no", or "written" and not answered yet
    done,         \* _is_done
    result,       \* _error_code
    timeoutId,    \* whether _timeout_id # 0
    notified,     \* history: how often the callback of the user was called
    addList,      \* _add_list
    eraseSet,     \* _erase_set
    events,       \* _events
    tmpAdd,       \* the add list timer_run has swapped out
    pc,           \* the next step of each thread
    at,           \* the stream it works on
    on,           \* the call it works on
    code,         \* the error code it passes to Done()
    todo,         \* the calls it still has to complete
    ret           \* the step to which Done() returns

streamVars == <<streamMap, status, controllers, queued>>
callVars == <<wire, done, result, timeoutId, notified>>
timeoutVars == <<addList, eraseSet, events, tmpAdd>>
threadVars == <<pc, at, on, code, todo, ret>>
vars == <<streamVars, callVars, timeoutVars, threadVars>>

Init ==
    /\ streamMap = NoStream
    /\ status = [s \in Streams |-> "new"]
    /\ controllers = [s \in Streams |-> {}]
    /\ queued = [s \in Streams |-> {}]
    /\ wire = [c \in Calls |-> "no"]
    /\ done = [c \in Calls |-> FALSE]
    /\ result = [c \in Calls |-> "success"]
    /\ timeoutId = [c \in Calls |-> FALSE]
    /\ notified = [c \in Calls |-> 0]
    /\ addList = {} /\ eraseSet = {} /\ events = {}
    /\ tmpAdd = {}
    /\ pc = [t \in Threads |-> IF t \in Calls THEN "call" ELSE "idle"]
    /\ at = [t \in Threads |-> NoStream]
    /\ on = [t \in Threads |-> IF t \in Calls THEN t ELSE NoCall]
    /\ code = [t \in Threads |-> "success"]
    /\ todo = [t \in Threads |-> {}]
    /\ ret = [t \in Threads |-> "idle"]

----------------------------------------------------------------------------
(* RpcControllerImpl::Done, called by thread t *)

At(t, step) == pc[t] = step

Goto(t, step) == pc' = [pc EXCEPT ![t] = step]

\* Call Done(c, r) and continue at back.
CallDone(t, c, r, back) ==
    /\ Goto(t, "done")
    /\ on' = [on EXCEPT ![t] = c]
    /\ code' = [code EXCEPT ![t] = r]
    /\ ret' = [ret EXCEPT ![t] = back]

Return(t) ==
    /\ Goto(t, ret[t])
    /\ ret' = [ret EXCEPT ![t] = "idle"]
    /\ code' = [code EXCEPT ![t] = "success"]
    /\ on' = [on EXCEPT ![t] = IF t \in Calls \/ ret[t] = "erase_request" THEN @ ELSE NoCall]

\* Mutant: _is_done is not looked at.
Done_Again(t) ==
    /\ At(t, "done")
    /\ done' = [done EXCEPT ![on[t]] = TRUE]
    /\ result' = [result EXCEPT ![on[t]] = code[t]]
    /\ Goto(t, "callbacks")
    /\ UNCHANGED <<streamVars, wire, timeoutId, notified, timeoutVars, at, on, code, todo, ret>>

\* Only the first to set _is_done goes on, with SetFailed().
Done(t) ==
    /\ At(t, "done")
    /\ \/ /\ ~done[on[t]]
          /\ done' = [done EXCEPT ![on[t]] = TRUE]
          /\ result' = [result EXCEPT ![on[t]] = code[t]]
          /\ Goto(t, "callbacks")
          /\ UNCHANGED <<on, code, ret>>
       \/ /\ done[on[t]]
          /\ Return(t)
          /\ UNCHANGED <<done, result>>
    /\ UNCHANGED <<streamVars, wire, timeoutId, notified, timeoutVars, at, todo>>

\* The callbacks, in reverse order of their registration: that of RpcClientImpl
\* erases the timeout and parses the response, that of the channel wakes the
\* user in WaitDone() or posts the user's closure.
DoneCallbacks(t) ==
    /\ At(t, "callbacks")
    /\ eraseSet' = IF timeoutId[on[t]] THEN eraseSet \cup {on[t]} ELSE eraseSet
    /\ \/ UNCHANGED result
       \/ result[on[t]] = "success" /\ result' = [result EXCEPT ![on[t]] = "failed"]
    /\ notified' = [notified EXCEPT ![on[t]] = @ + 1]
    /\ Return(t)
    /\ UNCHANGED <<streamVars, wire, done, timeoutId, addList, events, tmpAdd, at, todo>>

----------------------------------------------------------------------------
(* RpcClientImpl::CallMethod, on the user's thread *)

\* Stream objects that have not been used yet, and the next one: which of them
\* it is makes no difference.
NewStreams == {s \in Streams : status[s] = "new"}
NewStream == CHOOSE s \in NewStreams : TRUE

\* FindOrCreateStream: the stream of the endpoint, a new one if it is closed.
FindOrCreateStream(c) ==
    /\ At(c, "call")
    /\ Goto(c, "add")
    /\ \/ /\ streamMap # NoStream /\ status[streamMap] = "open"
          /\ UNCHANGED <<streamMap, status>>
       \/ /\ streamMap # NoStream => status[streamMap] = "closed"
          /\ NewStreams # {}
          /\ streamMap' = NewStream
          /\ status' = [status EXCEPT ![NewStream] = "open"]
    /\ at' = [at EXCEPT ![c] = streamMap']
    /\ UNCHANGED <<controllers, queued, callVars, timeoutVars, on, code, todo, ret>>

\* A full send buffer or a request that cannot be serialized ends the call.
\* Else RpcTimeoutManager::add, which never fails here: the expiration is not
\* special and lies after the start of the client.
AddTimeout(c) ==
    /\ At(c, "add")
    /\ \/ /\ timeoutId' = [timeoutId EXCEPT ![c] = TRUE]
          /\ addList' = addList \cup {c}
          /\ Goto(c, "call_method")
          /\ UNCHANGED <<on, code, ret>>
       \/ CallDone(c, c, "failed", "wait") /\ UNCHANGED <<timeoutId, addList>>
    /\ UNCHANGED <<streamVars, wire, done, result, notified, eraseSet, events, tmpAdd,
                   at, todo>>

\* RpcClientStream::call_method: the check of is_closed().
CheckClosed(c) ==
    /\ At(c, "call_method")
    /\ \/ status[at[c]] = "open" /\ Goto(c, "insert") /\ UNCHANGED <<on, code, ret>>
       \/ status[at[c]] = "closed" /\ CallDone(c, c, "failed", "wait")
    /\ UNCHANGED <<streamVars, callVars, timeoutVars, at, todo>>

\* call_method: add to the controller map.
InsertController(c) ==
    /\ At(c, "insert")
    /\ controllers' = [controllers EXCEPT ![at[c]] = @ \cup {c}]
    /\ Goto(c, "send")
    /\ UNCHANGED <<streamMap, status, queued, callVars, timeoutVars, at, on, code, todo, ret>>

\* async_send_message: the check of is_closed().
CheckSend(c) ==
    /\ At(c, "send")
    /\ \/ status[at[c]] = "open" /\ Goto(c, "put") /\ UNCHANGED <<on, code, ret>>
       \/ /\ status[at[c]] = "closed" /\ Goto(c, "send_failed")
          /\ code' = [code EXCEPT ![c] = "failed"] /\ ret' = [ret EXCEPT ![c] = "wait"]
          /\ UNCHANGED on
    /\ UNCHANGED <<streamVars, callVars, timeoutVars, at, todo>>

\* put_into_pending_queue.
PutIntoQueue(c) ==
    /\ At(c, "put")
    /\ queued' = [queued EXCEPT ![at[c]] = @ \cup {c}]
    /\ Goto(c, "wait")
    /\ UNCHANGED <<streamMap, status, controllers, callVars, timeoutVars, at, on, code, todo, ret>>

\* on_send_failed: erase from the controller map, then Done().
OnSendFailed(t) ==
    /\ At(t, "send_failed")
    /\ controllers' = [controllers EXCEPT ![at[on[t]]] = @ \ {on[t]}]
    /\ Goto(t, "done")
    /\ UNCHANGED <<streamMap, status, queued, callVars, timeoutVars, at, on, code, todo, ret>>

----------------------------------------------------------------------------
(* The handlers of a stream, on the threads of the work thread group *)

\* on_sending: a call that is done is not sent; else its request is written.
OnSending(t, s, c) ==
    /\ At(t, "idle")
    /\ c \in queued[s]
    /\ queued' = [queued EXCEPT ![s] = @ \ {c}]
    /\ \/ /\ ~done[c]
          /\ wire' = [wire EXCEPT ![c] = "written"]
          /\ UNCHANGED <<pc, on, code>>
       \/ /\ done[c]
          /\ Goto(t, "send_failed")
          /\ on' = [on EXCEPT ![t] = c]
          /\ code' = [code EXCEPT ![t] = "failed"]
          /\ UNCHANGED wire
    /\ UNCHANGED <<streamMap, status, controllers, done, result, timeoutId, notified,
                   timeoutVars, at, todo, ret>>

\* on_write_some with an error: the call fails, and then the stream is closed.
OnWriteError(t, s, c) ==
    /\ At(t, "idle") /\ status[s] = "open"
    /\ wire[c] = "written" /\ at[c] = s
    /\ wire' = [wire EXCEPT ![c] = "no"]
    /\ Goto(t, "send_failed")
    /\ at' = [at EXCEPT ![t] = s]
    /\ on' = [on EXCEPT ![t] = c]
    /\ code' = [code EXCEPT ![t] = "failed"]
    /\ ret' = [ret EXCEPT ![t] = "close"]
    /\ UNCHANGED <<streamVars, done, result, timeoutId, notified, timeoutVars, todo>>

OnReceived(t, s, c) ==
    /\ At(t, "idle")
    /\ wire[c] = "written" /\ at[c] = s
    /\ wire' = [wire EXCEPT ![c] = "no"]
    /\ \/ /\ c \in controllers[s]
          /\ controllers' = [controllers EXCEPT ![s] = @ \ {c}]
          /\ Goto(t, "received")
          /\ on' = [on EXCEPT ![t] = c]
       \/ c \notin controllers[s] /\ UNCHANGED <<controllers, pc, on>>
    /\ UNCHANGED <<streamMap, status, queued, done, result, timeoutId, notified, timeoutVars,
                   at, code, todo, ret>>

\* on_received: ignore the response of a call that is done, else end the call
\* as the response says.
CheckDone(t) ==
    /\ At(t, "received")
    /\ \/ /\ done[on[t]]
          /\ Goto(t, "idle")
          /\ on' = [on EXCEPT ![t] = NoCall]
          /\ UNCHANGED <<code, ret>>
       \/ ~done[on[t]] /\ \E r \in {"success", "failed"} : CallDone(t, on[t], r, "idle")
    /\ UNCHANGED <<streamVars, callVars, timeoutVars, at, todo>>

\* close(): the connect fails, an error, or nothing was read or written for
\* long while the controller map was empty.
Close(t, s) ==
    /\ At(t, "idle") /\ status[s] = "open"
    /\ status' = [status EXCEPT ![s] = "closed"]
    /\ at' = [at EXCEPT ![t] = s]
    /\ Goto(t, "on_closed")
    /\ UNCHANGED <<streamMap, controllers, queued, callVars, timeoutVars, on, code, todo, ret>>

\* close() after a write error: only the first call of close() goes on.
CloseBroken(t) ==
    /\ At(t, "close")
    /\ \/ status[at[t]] = "open" /\ Goto(t, "on_closed") /\ UNCHANGED at
       \/ status[at[t]] = "closed" /\ Goto(t, "idle") /\ at' = [at EXCEPT ![t] = NoStream]
    /\ status' = [status EXCEPT ![at[t]] = "closed"]
    /\ UNCHANGED <<streamMap, controllers, queued, callVars, timeoutVars, on, code, todo, ret>>

\* on_closed: swap the controller map out.
SwapControllers(t) ==
    /\ At(t, "on_closed")
    /\ todo' = [todo EXCEPT ![t] = controllers[at[t]]]
    /\ controllers' = [controllers EXCEPT ![at[t]] = {}]
    /\ Goto(t, "end_calls")
    /\ UNCHANGED <<streamMap, status, queued, callVars, timeoutVars, at, on, code, ret>>

\* on_closed: end the calls that were in the map, one after the other.
EndCall(t, c) ==
    /\ At(t, "end_calls") /\ c \in todo[t]
    /\ todo' = [todo EXCEPT ![t] = @ \ {c}]
    /\ CallDone(t, c, "failed", "end_calls")
    /\ UNCHANGED <<streamVars, callVars, timeoutVars, at>>

\* Mutant: the entry is erased although it may be that of a new stream.
OnClosed_Erase(t) ==
    /\ At(t, "end_calls") /\ todo[t] = {}
    /\ streamMap' = NoStream
    /\ Goto(t, "idle")
    /\ at' = [at EXCEPT ![t] = NoStream]
    /\ UNCHANGED <<status, controllers, queued, callVars, timeoutVars, on, code, todo, ret>>

\* RpcClientImpl::OnClosed.
OnClosed(t) ==
    /\ At(t, "end_calls") /\ todo[t] = {}
    /\ \/ /\ streamMap # NoStream => status[streamMap] = "closed"
          /\ streamMap' = NoStream
       \/ streamMap # NoStream /\ status[streamMap] = "open" /\ UNCHANGED streamMap
    /\ Goto(t, "idle")
    /\ at' = [at EXCEPT ![t] = NoStream]
    /\ UNCHANGED <<status, controllers, queued, callVars, timeoutVars, on, code, todo, ret>>

----------------------------------------------------------------------------
(* RpcTimeoutManager::timer_run *)

\* Swap the add list out.
SwapAddList ==
    /\ At(Timer, "idle")
    /\ tmpAdd' = addList /\ addList' = {}
    /\ Goto(Timer, "merge")
    /\ UNCHANGED <<streamVars, callVars, eraseSet, events, at, on, code, todo, ret>>

\* Mutant: an event that has expired when it is added is not reported.
Merge_Drop(expired) ==
    /\ At(Timer, "merge")
    /\ expired \subseteq (tmpAdd \cup events) \ eraseSet
    /\ todo' = [todo EXCEPT ![Timer] = events \cap expired]
    /\ events' = ((tmpAdd \cup events) \ eraseSet) \ expired
    /\ tmpAdd' = {} /\ eraseSet' = {}
    /\ Goto(Timer, "notify_timeout")
    /\ UNCHANGED <<streamVars, callVars, addList, at, on, code, ret>>

\* Swap the erase set out and merge both lists into the table: an event that
\* is added and erased is ignored, an erased one leaves the table.  Those that
\* have expired leave it too and are notified.
Merge(expired) ==
    /\ At(Timer, "merge")
    /\ expired \subseteq (tmpAdd \cup events) \ eraseSet
    /\ todo' = [todo EXCEPT ![Timer] = expired]
    /\ events' = ((tmpAdd \cup events) \ eraseSet) \ expired
    /\ tmpAdd' = {} /\ eraseSet' = {}
    /\ Goto(Timer, "notify_timeout")
    /\ UNCHANGED <<streamVars, callVars, addList, at, on, code, ret>>

\* notify_timeout: reset the timeout id and call Done().
NotifyTimeout(c) ==
    /\ At(Timer, "notify_timeout") /\ c \in todo[Timer]
    /\ todo' = [todo EXCEPT ![Timer] = @ \ {c}]
    /\ timeoutId' = [timeoutId EXCEPT ![c] = FALSE]
    /\ CallDone(Timer, c, "timeout", "erase_request")
    /\ UNCHANGED <<streamVars, wire, done, result, notified, timeoutVars, at>>

\* Mutant: the call stays in the controller map.
EraseRequest_Keep ==
    /\ At(Timer, "erase_request")
    /\ on' = [on EXCEPT ![Timer] = NoCall]
    /\ Goto(Timer, "notify_timeout")
    /\ UNCHANGED <<streamVars, callVars, timeoutVars, at, code, todo, ret>>

\* notify_timeout: erase_request of the stream the call was given.
EraseRequest ==
    /\ At(Timer, "erase_request")
    /\ controllers' = [controllers EXCEPT ![at[on[Timer]]] = @ \ {on[Timer]}]
    /\ on' = [on EXCEPT ![Timer] = NoCall]
    /\ Goto(Timer, "notify_timeout")
    /\ UNCHANGED <<streamMap, status, queued, callVars, timeoutVars, at, code, todo, ret>>

EndTimerRun ==
    /\ At(Timer, "notify_timeout") /\ todo[Timer] = {}
    /\ Goto(Timer, "idle")
    /\ UNCHANGED <<streamVars, callVars, timeoutVars, at, on, code, todo, ret>>

TimerRun ==
    \/ SwapAddList
    \/ \E expired \in SUBSET Calls : Merge(expired)
    \/ \E c \in Calls : NotifyTimeout(c)
    \/ EraseRequest \/ EndTimerRun

----------------------------------------------------------------------------

ContinueCall(c) ==
    AddTimeout(c) \/ CheckClosed(c) \/ InsertController(c) \/ CheckSend(c) \/ PutIntoQueue(c)

CallMethod(c) == FindOrCreateStream(c) \/ ContinueCall(c)

DoneStep(t) == Done(t) \/ DoneCallbacks(t)

StreamStep(t) ==
    \/ OnSendFailed(t) \/ CheckDone(t) \/ CloseBroken(t) \/ SwapControllers(t) \/ OnClosed(t)
    \/ \E c \in Calls : EndCall(t, c)

Handler(t, s) ==
    \/ Close(t, s)
    \/ \E c \in Calls : OnSending(t, s, c) \/ OnWriteError(t, s, c) \/ OnReceived(t, s, c)

Next ==
    \/ \E c \in Calls : CallMethod(c)
    \/ \E t \in Threads : DoneStep(t) \/ StreamStep(t)
    \/ \E t \in Workers, s \in Streams : Handler(t, s)
    \/ TimerRun

Spec == Init /\ [][Next]_vars

\* Every thread inside the library goes on, time passes and the timer, which
\* re-arms itself, runs.  Nothing makes the peer answer or a request leave.
Fairness ==
    /\ \A c \in Calls : WF_vars(ContinueCall(c))
    /\ \A c \in Calls : SF_vars(\E expired \in SUBSET Calls : c \in expired /\ Merge(expired))
    /\ \A t \in Threads : WF_vars(DoneStep(t) \/ StreamStep(t))
    /\ WF_vars(TimerRun)

FairSpec == Spec /\ Fairness

----------------------------------------------------------------------------
(* Properties *)

Steps ==
    {"idle", "call", "add", "call_method", "insert", "send", "put", "wait",
     "send_failed", "done", "callbacks", "received", "close", "on_closed", "end_calls",
     "merge", "notify_timeout", "erase_request"}

NeedsCall == {"send_failed", "done", "callbacks", "received", "erase_request"}

\* A call whose client has stopped has no stream when it ends.
NeedsStream == {"add", "call_method", "insert", "send", "put", "send_failed"}

Returns == {"idle", "wait", "close", "end_calls", "erase_request"}

SharedTypeOK ==
    /\ streamMap \in Streams \cup {NoStream}
    /\ status \in [Streams -> {"new", "open", "closed"}]
    /\ controllers \in [Streams -> SUBSET Calls]
    /\ queued \in [Streams -> SUBSET Calls]
    /\ wire \in [Calls -> {"no", "written"}]
    /\ done \in [Calls -> BOOLEAN]
    /\ result \in [Calls -> Results]
    /\ timeoutId \in [Calls -> BOOLEAN]
    /\ notified \in [Calls -> Nat]
    /\ addList \subseteq Calls /\ eraseSet \subseteq Calls /\ events \subseteq Calls
    /\ tmpAdd \subseteq Calls

\* The types, and what a thread that is about to use a call or a stream relies
\* on: it has one.
CallTypeOK ==
    /\ SharedTypeOK
    /\ pc \in [Threads -> Steps]
    /\ at \in [Threads -> Streams \cup {NoStream}]
    /\ on \in [Threads -> Calls \cup {NoCall}]
    /\ code \in [Threads -> Results]
    /\ todo \in [Threads -> SUBSET Calls]
    /\ ret \in [Threads -> Returns]
    /\ \A t \in Threads : pc[t] \in NeedsCall => on[t] \in Calls
    /\ \A t \in Threads : pc[t] \in {"close", "on_closed", "end_calls"} => at[t] \in Streams
    /\ \A c \in Calls : on[c] = c
    /\ \A c \in Calls : pc[c] \in NeedsStream => at[c] \in Streams

\* The stream map and the streams: while a stream is usable it is the one in
\* the map, so no connection is duplicated or leaked, whatever the order in
\* which an old one is replaced and reported closed (rpc_client_impl.cc:404).
OneUsableStream == \A s \in Streams : status[s] = "open" => streamMap = s

\* A call that has been given to the timeout manager and is not done is still
\* watched by it, wherever timer_run stands between its lists.
CallsWatched ==
    \A c \in Calls :
        timeoutId[c] /\ ~done[c] => c \in addList \cup tmpAdd \cup events \cup todo[Timer]

Resting == \A t \in Threads : pc[t] \in {"idle", "call", "wait"}

\* When the threads rest, the controller map of an open stream holds exactly
\* the calls that wait for their response, and those still in the queue: keep
\* alive counts it to decide whether a connection is idle, and a response
\* finds its call only there.
ControllersExact ==
    Resting => \A s \in Streams : status[s] = "open" =>
        controllers[s] =
            {c \in Calls : at[c] = s /\ ~done[c]} \cup (controllers[s] \cap queued[s])

\* A call ends once and its result does not change after it was reported.
reported == [c \in Calls |->
    IF notified[c] > 0 THEN result[c] ELSE IF pc[c] = "call" THEN "new" ELSE "called"]
Promise == INSTANCE RpcPromise WITH state <- reported
PromiseKept == Promise!PromiseSpec

\* Every call that was started ends, whatever happens to its connection and
\* its response: again and again none is left without its result, and a result
\* is final.
EveryCallEnds == []<>(\A c \in Calls : pc[c] # "call" => notified[c] > 0)
=============================================================================
