--------------------------- MODULE RpcCallProofs ---------------------------
(***************************************************************************)
(* Proofs about RpcCall, and about ClientStop, which extends it, for any   *)
(* set of calls, streams and threads.                                      *)
(***************************************************************************)
EXTENDS ClientStop, TLAPS

----------------------------------------------------------------------------
(* Types, and which steps each kind of thread can be at *)

DoneSteps == {"done", "callbacks"}

CallSteps ==
    {"call", "add", "call_method", "insert", "send", "put", "wait", "send_failed"} \cup DoneSteps

WorkerSteps ==
    {"idle", "received", "send_failed", "close", "on_closed", "end_calls"} \cup DoneSteps

TimerSteps == {"idle", "merge", "notify_timeout", "erase_request"} \cup DoneSteps

\* User threads, workers and the timer thread keep to their own steps, and a
\* call of Done() returns to where the thread that called it goes on.
UserOK(t) ==
    /\ pc[t] \in CallSteps
    /\ pc[t] \in DoneSteps \cup {"send_failed"} => ret[t] = "wait"
    /\ on[t] = t
    /\ pc[t] \in NeedsStream => at[t] \in Streams

WorkerOK(t) ==
    /\ pc[t] \in WorkerSteps
    /\ pc[t] \in DoneSteps \cup {"send_failed"} =>
          /\ ret[t] \in {"idle", "close", "end_calls"}
          /\ ret[t] \in {"close", "end_calls"} => at[t] \in Streams
    /\ pc[t] \notin DoneSteps \cup {"send_failed"} => ret[t] = "idle"

TimerOK(t) ==
    /\ pc[t] \in TimerSteps
    /\ pc[t] \in DoneSteps => ret[t] = "erase_request"

ThreadOK(t) ==
    /\ at[t] \in Streams \cup {NoStream} /\ on[t] \in Calls \cup {NoCall}
    /\ code[t] \in Results /\ todo[t] \subseteq Calls /\ ret[t] \in Returns
    /\ pc[t] \in NeedsCall => on[t] \in Calls
    /\ pc[t] \in {"close", "on_closed", "end_calls"} => at[t] \in Streams
    /\ t \in Calls => UserOK(t)
    /\ t \in Workers => WorkerOK(t)
    /\ t = Timer => TimerOK(t)

FunctionsOK ==
    /\ pc = [t \in Threads |-> pc[t]] /\ at = [t \in Threads |-> at[t]]
    /\ on = [t \in Threads |-> on[t]] /\ code = [t \in Threads |-> code[t]]
    /\ todo = [t \in Threads |-> todo[t]] /\ ret = [t \in Threads |-> ret[t]]

ThreadsOK == FunctionsOK /\ \A t \in Threads : ThreadOK(t)

TypeInv == SharedTypeOK /\ ThreadsOK

\* The invariant is about what the type invariant says, and more.
LEMMA TypeInvTypes == TypeInv => CallTypeOK
<1> USE DEF TypeInv, ThreadsOK, FunctionsOK, ThreadOK
<1>1. ASSUME TypeInv, NEW t \in Threads
      PROVE  pc[t] \in Steps
  BY <1>1 DEF Threads, UserOK, WorkerOK, TimerOK, CallSteps, WorkerSteps, TimerSteps,
     DoneSteps, Steps
<1>2. ASSUME TypeInv, NEW c \in Calls
      PROVE  on[c] = c /\ (pc[c] \in NeedsStream => at[c] \in Streams)
  BY <1>2 DEF Threads, UserOK
<1> QED
  BY <1>1, <1>2 DEF CallTypeOK

\* A step of thread t leaves the local state of the others alone.
Only(t) ==
    /\ pc' = [pc EXCEPT ![t] = pc'[t]] /\ at' = [at EXCEPT ![t] = at'[t]]
    /\ on' = [on EXCEPT ![t] = on'[t]] /\ code' = [code EXCEPT ![t] = code'[t]]
    /\ todo' = [todo EXCEPT ![t] = todo'[t]] /\ ret' = [ret EXCEPT ![t] = ret'[t]]

LEMMA LocalStep ==
    ASSUME ThreadsOK, NEW t \in Threads, Only(t), ThreadOK(t)'
    PROVE  ThreadsOK'
<1>1. FunctionsOK'
  BY DEF ThreadsOK, FunctionsOK, Only
<1>2. ASSUME NEW u \in Threads, u # t
      PROVE  ThreadOK(u)'
  BY <1>2 DEF ThreadsOK, FunctionsOK, Only, ThreadOK, UserOK, WorkerOK, TimerOK
<1> QED
  BY <1>1, <1>2 DEF ThreadsOK

LEMMA InitType == Init => TypeInv
  BY CallAssumption DEF Init, TypeInv, SharedTypeOK, ThreadsOK, FunctionsOK, ThreadOK, UserOK,
     WorkerOK, TimerOK, Threads, Results, Returns, CallSteps, WorkerSteps, TimerSteps, DoneSteps,
     NeedsCall, NeedsStream

----------------------------------------------------------------------------
(* The shared state *)

\* No step stores a value of another type.
LEMMA SharedStep == TypeInv /\ [Next]_vars => SharedTypeOK'
<1> SUFFICES ASSUME TypeInv, [Next]_vars
             PROVE  SharedTypeOK'
  OBVIOUS
<1> CallTypeOK
  BY TypeInvTypes
<1> USE DEF CallTypeOK, SharedTypeOK, Goto, At, streamVars, callVars, timeoutVars, Results
<1>1. ASSUME NEW c \in Calls, FindOrCreateStream(c)
      PROVE  SharedTypeOK'
  <2>1. NewStreams # {} => NewStream \in Streams
    BY DEF NewStreams, NewStream
  <2> QED
    BY <1>1, <2>1 DEF FindOrCreateStream
<1>2. ASSUME NEW c \in Calls, AddTimeout(c)
      PROVE  SharedTypeOK'
  BY <1>2, ZenonT(30) DEF AddTimeout
<1>3. ASSUME NEW c \in Calls, CheckClosed(c) \/ CheckSend(c)
      PROVE  SharedTypeOK'
  BY <1>3 DEF CheckClosed, CheckSend
<1>4. ASSUME NEW c \in Calls, InsertController(c) \/ PutIntoQueue(c)
      PROVE  SharedTypeOK'
  BY <1>4 DEF InsertController, PutIntoQueue
<1>5. ASSUME NEW t \in Threads, Done(t) \/ DoneCallbacks(t)
      PROVE  SharedTypeOK'
  <2>1. on[t] \in Calls /\ code[t] \in Results
    BY <1>5 DEF Done, DoneCallbacks, NeedsCall
  <2>2. CASE Done(t)
    BY <2>1, <2>2 DEF Done
  <2>3. CASE DoneCallbacks(t)
    <3>1. eraseSet' \subseteq Calls /\ notified' \in [Calls -> Nat]
      BY <2>1, <2>3 DEF DoneCallbacks
    <3>2. result' \in [Calls -> Results]
      BY <2>1, <2>3 DEF DoneCallbacks
    <3> QED
      BY <2>3, <3>1, <3>2 DEF DoneCallbacks
  <2> QED
    BY <1>5, <2>2, <2>3
<1>6. ASSUME NEW t \in Threads, OnSendFailed(t) \/ CheckDone(t) \/ CloseBroken(t)
      PROVE  SharedTypeOK'
  BY <1>6 DEF OnSendFailed, CheckDone, CloseBroken
<1>7. ASSUME NEW t \in Threads, SwapControllers(t) \/ OnClosed(t)
      PROVE  SharedTypeOK'
  BY <1>7 DEF SwapControllers, OnClosed
<1>8. ASSUME NEW t \in Threads, NEW c \in Calls, EndCall(t, c)
      PROVE  SharedTypeOK'
  BY <1>8 DEF EndCall
<1>9. ASSUME NEW t \in Workers, NEW s \in Streams, Handler(t, s)
      PROVE  SharedTypeOK'
  <2>1. CASE Close(t, s)
    BY <2>1 DEF Close
  <2>2. ASSUME NEW c \in Calls, OnSending(t, s, c) \/ OnWriteError(t, s, c)
        PROVE  SharedTypeOK'
    BY <2>2, SMTT(30) DEF OnSending, OnWriteError
  <2>3. ASSUME NEW c \in Calls, OnReceived(t, s, c)
        PROVE  SharedTypeOK'
    BY <2>3 DEF OnReceived
  <2> QED
    BY <1>9, <2>1, <2>2, <2>3 DEF Handler
<1>10. ASSUME TimerRun
       PROVE  SharedTypeOK'
  <2>1. CASE SwapAddList \/ EraseRequest \/ EndTimerRun
    BY <2>1 DEF SwapAddList, EraseRequest, EndTimerRun
  <2>2. ASSUME NEW expired \in SUBSET Calls, Merge(expired)
        PROVE  SharedTypeOK'
    BY <2>2 DEF Merge
  <2>3. ASSUME NEW c \in Calls, NotifyTimeout(c)
        PROVE  SharedTypeOK'
    BY <2>3 DEF NotifyTimeout
  <2> QED
    BY <1>10, <2>1, <2>2, <2>3 DEF TimerRun
<1>11. CASE UNCHANGED vars
  BY <1>11 DEF vars
<1> QED
  BY <1>1, <1>2, <1>3, <1>4, <1>5, <1>6, <1>7, <1>8, <1>9, <1>10, <1>11
     DEF Next, CallMethod, ContinueCall, DoneStep, StreamStep

----------------------------------------------------------------------------
(* The threads *)

\* Every step is one of one thread, and leaves that thread at a step of its kind.
LEMMA ThreadsStep == TypeInv /\ [Next]_vars => ThreadsOK'
<1> SUFFICES ASSUME TypeInv, [Next]_vars
             PROVE  ThreadsOK'
  OBVIOUS
<1> CallTypeOK /\ ThreadsOK
  BY TypeInvTypes DEF TypeInv
<1> USE CallAssumption
    DEF ThreadsOK, FunctionsOK, Only, ThreadOK, At, Goto, CallDone, Returns, Results, DoneSteps,
        NeedsCall, NeedsStream
<1>1. ASSUME NEW c \in Calls, CallMethod(c)
      PROVE  ThreadsOK'
  <2> c \in Threads /\ UserOK(c) /\ c \notin Workers /\ c # Timer
    BY DEF Threads
  <2>1. CASE FindOrCreateStream(c)
    <3>1. NewStreams # {} => NewStream \in Streams
      BY DEF NewStreams, NewStream
    <3>2. streamMap' \in Streams
      BY <2>1, <3>1 DEF FindOrCreateStream, CallTypeOK, SharedTypeOK
    <3>3. Only(c)
      BY <2>1 DEF FindOrCreateStream
    <3>4. ThreadOK(c)'
      BY <2>1, <3>2 DEF FindOrCreateStream, UserOK, CallSteps
    <3> QED
      BY <3>3, <3>4, LocalStep
  <2>2. CASE AddTimeout(c) \/ CheckClosed(c) \/ InsertController(c)
    <3>1. Only(c)
      BY <2>2 DEF AddTimeout, CheckClosed, InsertController
    <3>2. ThreadOK(c)'
      BY <2>2 DEF AddTimeout, CheckClosed, InsertController, UserOK, CallSteps
    <3> QED
      BY <3>1, <3>2, LocalStep
  <2>3. CASE CheckSend(c) \/ PutIntoQueue(c)
    <3>1. Only(c)
      BY <2>3 DEF CheckSend, PutIntoQueue
    <3>2. ThreadOK(c)'
      BY <2>3 DEF CheckSend, PutIntoQueue, UserOK, CallSteps
    <3> QED
      BY <3>1, <3>2, LocalStep
  <2> QED
    BY <1>1, <2>1, <2>2, <2>3 DEF CallMethod, ContinueCall
<1>2. ASSUME NEW t \in Threads, Done(t) \/ DoneCallbacks(t)
      PROVE  ThreadsOK'
  <2>1. Only(t)
    BY <1>2 DEF Done, DoneCallbacks, Return
  <2>2. CASE t \in Calls
    <3>1. ThreadOK(t)'
      BY <1>2, <2>2 DEF Done, DoneCallbacks, Return, UserOK, CallSteps
    <3> QED
      BY <2>1, <3>1, LocalStep
  <2>3. CASE t \in Workers
    <3>1. ThreadOK(t)'
      BY <1>2, <2>3 DEF Done, DoneCallbacks, Return, WorkerOK, WorkerSteps
    <3> QED
      BY <2>1, <3>1, LocalStep
  <2>4. CASE t = Timer
    <3>1. ThreadOK(t)'
      BY <1>2, <2>4 DEF Done, DoneCallbacks, Return, TimerOK, TimerSteps
    <3> QED
      BY <2>1, <3>1, LocalStep
  <2> QED
    BY <2>2, <2>3, <2>4 DEF Threads
<1>3. ASSUME NEW t \in Workers, StreamStep(t) \/ \E s \in Streams : Handler(t, s)
      PROVE  ThreadsOK'
  <2> t \in Threads /\ WorkerOK(t) /\ t \notin Calls /\ t # Timer
    BY DEF Threads
  <2>1. CASE OnSendFailed(t) \/ CheckDone(t)
    <3>1. Only(t)
      BY <2>1 DEF OnSendFailed, CheckDone
    <3>2. ThreadOK(t)'
      BY <2>1 DEF OnSendFailed, CheckDone, WorkerOK, WorkerSteps
    <3> QED
      BY <3>1, <3>2, LocalStep
  <2>2. CASE CloseBroken(t) \/ OnClosed(t)
    <3>1. Only(t)
      BY <2>2 DEF CloseBroken, OnClosed
    <3>2. ThreadOK(t)'
      BY <2>2 DEF CloseBroken, OnClosed, WorkerOK, WorkerSteps
    <3> QED
      BY <3>1, <3>2, LocalStep
  <2>3. CASE SwapControllers(t)
    <3>1. Only(t)
      BY <2>3 DEF SwapControllers
    <3>2. controllers[at[t]] \subseteq Calls
      BY <2>3 DEF SwapControllers, CallTypeOK, SharedTypeOK
    <3>3. ThreadOK(t)'
      BY <2>3, <3>2 DEF SwapControllers, WorkerOK, WorkerSteps
    <3> QED
      BY <3>1, <3>3, LocalStep
  <2>4. ASSUME NEW c \in Calls, EndCall(t, c)
        PROVE  ThreadsOK'
    <3>1. Only(t)
      BY <2>4 DEF EndCall
    <3>2. ThreadOK(t)'
      BY <2>4 DEF EndCall, WorkerOK, WorkerSteps
    <3> QED
      BY <3>1, <3>2, LocalStep
  <2>5. ASSUME NEW s \in Streams, Close(t, s)
        PROVE  ThreadsOK'
    <3>1. Only(t)
      BY <2>5 DEF Close
    <3>2. ThreadOK(t)'
      BY <2>5 DEF Close, WorkerOK, WorkerSteps
    <3> QED
      BY <3>1, <3>2, LocalStep
  <2>6. ASSUME NEW s \in Streams, NEW c \in Calls, OnSending(t, s, c)
        PROVE  ThreadsOK'
    <3>1. Only(t)
      BY <2>6, ZenonT(30) DEF OnSending
    <3>2. ThreadOK(t)'
      BY <2>6 DEF OnSending, WorkerOK, WorkerSteps
    <3> QED
      BY <3>1, <3>2, LocalStep
  <2>7. ASSUME NEW s \in Streams, NEW c \in Calls, OnWriteError(t, s, c)
        PROVE  ThreadsOK'
    <3>1. Only(t)
      BY <2>7 DEF OnWriteError
    <3>2. ThreadOK(t)'
      BY <2>7 DEF OnWriteError, WorkerOK, WorkerSteps
    <3> QED
      BY <3>1, <3>2, LocalStep
  <2>8. ASSUME NEW s \in Streams, NEW c \in Calls, OnReceived(t, s, c)
        PROVE  ThreadsOK'
    <3>1. Only(t)
      BY <2>8 DEF OnReceived
    <3>2. ThreadOK(t)'
      BY <2>8 DEF OnReceived, WorkerOK, WorkerSteps
    <3> QED
      BY <3>1, <3>2, LocalStep
  <2> QED
    BY <1>3, <2>1, <2>2, <2>3, <2>4, <2>5, <2>6, <2>7, <2>8 DEF StreamStep, Handler
<1>4. ASSUME NEW c \in Calls, StreamStep(c)
      PROVE  ThreadsOK'
  <2> c \in Threads /\ UserOK(c) /\ c \notin Workers /\ c # Timer
    BY DEF Threads
  <2>1. OnSendFailed(c)
    BY <1>4 DEF StreamStep, CheckDone, CloseBroken, SwapControllers, OnClosed, EndCall, UserOK,
       CallSteps
  <2>2. CASE OnSendFailed(c)
    <3>1. Only(c)
      BY <2>2 DEF OnSendFailed
    <3>2. ThreadOK(c)'
      BY <2>2 DEF OnSendFailed, UserOK, CallSteps
    <3> QED
      BY <3>1, <3>2, LocalStep
  <2> QED
    BY <2>1, <2>2
<1>5. ~StreamStep(Timer)
  <2> Timer \in Threads /\ TimerOK(Timer)
    BY DEF Threads
  <2> QED
    BY DEF StreamStep, OnSendFailed, CheckDone, CloseBroken, SwapControllers, OnClosed, EndCall,
       TimerOK, TimerSteps
<1>6. ASSUME TimerRun
      PROVE  ThreadsOK'
  <2> Timer \in Threads /\ TimerOK(Timer) /\ Timer \notin Calls /\ Timer \notin Workers
    BY DEF Threads
  <2>1. CASE SwapAddList \/ EraseRequest \/ EndTimerRun
    <3>1. Only(Timer)
      BY <2>1 DEF SwapAddList, EraseRequest, EndTimerRun
    <3>2. ThreadOK(Timer)'
      BY <2>1 DEF SwapAddList, EraseRequest, EndTimerRun, TimerOK, TimerSteps
    <3> QED
      BY <3>1, <3>2, LocalStep
  <2>2. ASSUME NEW expired \in SUBSET Calls, Merge(expired)
        PROVE  ThreadsOK'
    <3>1. Only(Timer)
      BY <2>2 DEF Merge
    <3>2. ThreadOK(Timer)'
      BY <2>2 DEF Merge, TimerOK, TimerSteps
    <3> QED
      BY <3>1, <3>2, LocalStep
  <2>3. ASSUME NEW c \in Calls, NotifyTimeout(c)
        PROVE  ThreadsOK'
    <3>1. Only(Timer)
      BY <2>3 DEF NotifyTimeout
    <3>2. ThreadOK(Timer)'
      BY <2>3 DEF NotifyTimeout, TimerOK, TimerSteps
    <3> QED
      BY <3>1, <3>2, LocalStep
  <2> QED
    BY <1>6, <2>1, <2>2, <2>3 DEF TimerRun
<1>7. CASE UNCHANGED vars
  BY <1>7 DEF vars, threadVars, UserOK, WorkerOK, TimerOK
<1> QED
  BY <1>1, <1>2, <1>3, <1>4, <1>5, <1>6, <1>7 DEF Next, DoneStep, Threads

LEMMA TypeStep == TypeInv /\ [Next]_vars => TypeInv'
  BY SharedStep, ThreadsStep DEF TypeInv

\* Every variable keeps its type, and a thread that is about to use a call or a
\* stream has one.
THEOREM CallTypeCorrect == Spec => []CallTypeOK
  BY InitType, TypeStep, TypeInvTypes, PTL DEF Spec

----------------------------------------------------------------------------
(* The stream map *)

\* The map never loses a usable stream and never has two: a new stream is put
\* in only over a closed one, and a closed one is all that OnClosed takes out.
LEMMA OneUsableStreamStep == TypeInv /\ OneUsableStream /\ [Next]_vars => OneUsableStream'
<1> SUFFICES ASSUME TypeInv, OneUsableStream, [Next]_vars
             PROVE  OneUsableStream'
  OBVIOUS
<1> SharedTypeOK
  BY DEF TypeInv
<1> USE DEF OneUsableStream
<1>1. ASSUME UNCHANGED <<streamMap, status>>
      PROVE  OneUsableStream'
  BY <1>1
<1>2. ASSUME NEW c \in Calls, FindOrCreateStream(c)
      PROVE  OneUsableStream'
  <2>1. CASE UNCHANGED <<streamMap, status>>
    BY <2>1
  <2>2. CASE /\ streamMap # NoStream => status[streamMap] = "closed"
             /\ streamMap' = NewStream
             /\ status' = [status EXCEPT ![NewStream] = "open"]
    <3>1. ASSUME NEW s \in Streams, status[s] = "open"
          PROVE  FALSE
      BY <2>2, <3>1, CallAssumption
    <3> QED
      BY <2>2, <3>1 DEF SharedTypeOK
  <2> QED
    BY <1>2, <2>1, <2>2 DEF FindOrCreateStream
<1>3. ASSUME NEW t \in Threads, CloseBroken(t)
      PROVE  OneUsableStream'
  BY <1>3 DEF CloseBroken, SharedTypeOK
<1>4. ASSUME NEW t \in Threads, OnClosed(t)
      PROVE  OneUsableStream'
  BY <1>4, CallAssumption DEF OnClosed
<1>5. ASSUME NEW t \in Workers, NEW s \in Streams, Close(t, s)
      PROVE  OneUsableStream'
  BY <1>5 DEF Close, SharedTypeOK
<1>6. ASSUME NEW c \in Calls, ContinueCall(c)
      PROVE  OneUsableStream'
  BY <1>1, <1>6 DEF ContinueCall, AddTimeout, CheckClosed, InsertController, CheckSend,
     PutIntoQueue, streamVars
<1>7. ASSUME NEW t \in Threads, DoneStep(t)
      PROVE  OneUsableStream'
  BY <1>1, <1>7 DEF DoneStep, Done, DoneCallbacks, streamVars
<1>8. ASSUME NEW t \in Threads,
             OnSendFailed(t) \/ CheckDone(t) \/ SwapControllers(t) \/ \E c \in Calls : EndCall(t, c)
      PROVE  OneUsableStream'
  BY <1>1, <1>8 DEF OnSendFailed, CheckDone, SwapControllers, EndCall, streamVars
<1>9. ASSUME NEW t \in Workers, NEW s \in Streams, NEW c \in Calls,
             OnSending(t, s, c) \/ OnWriteError(t, s, c) \/ OnReceived(t, s, c)
      PROVE  OneUsableStream'
  BY <1>1, <1>9 DEF OnSending, OnWriteError, OnReceived, streamVars
<1>10. ASSUME TimerRun
       PROVE  OneUsableStream'
  BY <1>1, <1>10 DEF TimerRun, SwapAddList, Merge, NotifyTimeout, EraseRequest, EndTimerRun,
     streamVars
<1>11. CASE UNCHANGED vars
  BY <1>1, <1>11 DEF vars, streamVars
<1> QED
  BY <1>2, <1>3, <1>4, <1>5, <1>6, <1>7, <1>8, <1>9, <1>10, <1>11
     DEF Next, CallMethod, StreamStep, Handler

\* At most one stream of the endpoint is usable, and it is the one in the map,
\* for any number of calls, connections that close and threads.
THEOREM StreamMapCorrect == Spec => []OneUsableStream
<1>1. Init => OneUsableStream
  BY DEF Init, OneUsableStream
<1> QED
  BY <1>1, InitType, TypeStep, OneUsableStreamStep, PTL DEF Spec

----------------------------------------------------------------------------
(* A call ends once *)

\* Whoever runs the callbacks of a call has won it in Done() and is the only
\* one; only a call that is done has run them or leaves the timeout manager.
DoneInv ==
    /\ \A c \in Calls : notified[c] > 0 => done[c]
    /\ \A t \in Threads : pc[t] = "callbacks" => done[on[t]] /\ notified[on[t]] = 0
    /\ \A t, u \in Threads :
          pc[t] = "callbacks" /\ pc[u] = "callbacks" /\ on[t] = on[u] => t = u
    /\ \A c \in eraseSet : done[c]

\* All that the steps other than Done() have in common.
DoneFrame ==
    /\ UNCHANGED <<done, result, notified>>
    /\ eraseSet' \subseteq eraseSet
    /\ \A t \in Threads : pc'[t] = "callbacks" => pc[t] = "callbacks" /\ on'[t] = on[t]

OtherStep ==
    \/ \E c \in Calls : CallMethod(c)
    \/ \E t \in Threads : StreamStep(t)
    \/ \E t \in Workers, s \in Streams : Handler(t, s)
    \/ TimerRun
    \/ UNCHANGED vars

LEMMA NextCases ==
    ASSUME [Next]_vars
    PROVE  OtherStep \/ \E t \in Threads : Done(t) \/ DoneCallbacks(t)
  BY DEF Next, DoneStep, OtherStep

LEMMA OtherStepFrame ==
    ASSUME TypeInv, OtherStep
    PROVE  DoneFrame
<1> pc \in [Threads -> Steps] /\ on \in [Threads -> Calls \cup {NoCall}]
  BY TypeInvTypes DEF CallTypeOK
<1> USE DEF DoneFrame, At, Goto, CallDone, Threads, callVars, timeoutVars
<1>1. ASSUME NEW c \in Calls, CallMethod(c)
      PROVE  DoneFrame
  <2>1. CASE FindOrCreateStream(c) \/ InsertController(c) \/ PutIntoQueue(c)
    BY <2>1 DEF FindOrCreateStream, InsertController, PutIntoQueue
  <2>2. CASE AddTimeout(c)
    BY <2>2 DEF AddTimeout
  <2>3. CASE CheckClosed(c) \/ CheckSend(c)
    BY <2>3 DEF CheckClosed, CheckSend
  <2> QED
    BY <1>1, <2>1, <2>2, <2>3 DEF CallMethod, ContinueCall
<1>2. ASSUME NEW t \in Threads, StreamStep(t)
      PROVE  DoneFrame
  <2>1. CASE OnSendFailed(t) \/ CheckDone(t) \/ CloseBroken(t)
    BY <2>1 DEF OnSendFailed, CheckDone, CloseBroken
  <2>2. CASE SwapControllers(t) \/ OnClosed(t)
    BY <2>2 DEF SwapControllers, OnClosed
  <2>3. ASSUME NEW c \in Calls, EndCall(t, c)
        PROVE  DoneFrame
    BY <2>3 DEF EndCall
  <2> QED
    BY <1>2, <2>1, <2>2, <2>3 DEF StreamStep
<1>3. ASSUME NEW t \in Workers, NEW s \in Streams, Handler(t, s)
      PROVE  DoneFrame
  <2>1. CASE Close(t, s)
    BY <2>1 DEF Close
  <2>2. ASSUME NEW c \in Calls, OnSending(t, s, c)
        PROVE  DoneFrame
    BY <2>2 DEF OnSending
  <2>3. ASSUME NEW c \in Calls, OnWriteError(t, s, c)
        PROVE  DoneFrame
    BY <2>3 DEF OnWriteError
  <2>4. ASSUME NEW c \in Calls, OnReceived(t, s, c)
        PROVE  DoneFrame
    BY <2>4 DEF OnReceived
  <2> QED
    BY <1>3, <2>1, <2>2, <2>3, <2>4 DEF Handler
<1>4. ASSUME TimerRun
      PROVE  DoneFrame
  <2>1. CASE SwapAddList \/ EraseRequest \/ EndTimerRun
    BY <2>1 DEF SwapAddList, EraseRequest, EndTimerRun
  <2>2. ASSUME NEW expired \in SUBSET Calls, Merge(expired)
        PROVE  DoneFrame
    BY <2>2 DEF Merge
  <2>3. ASSUME NEW c \in Calls, NotifyTimeout(c)
        PROVE  DoneFrame
    BY <2>3 DEF NotifyTimeout
  <2> QED
    BY <1>4, <2>1, <2>2, <2>3 DEF TimerRun
<1>5. CASE UNCHANGED vars
  BY <1>5 DEF vars, threadVars
<1> QED
  BY <1>1, <1>2, <1>3, <1>4, <1>5 DEF OtherStep

LEMMA DoneInvStep == TypeInv /\ DoneInv /\ [Next]_vars => DoneInv'
<1> SUFFICES ASSUME TypeInv, DoneInv, [Next]_vars
             PROVE  DoneInv'
  OBVIOUS
<1> CallTypeOK
  BY TypeInvTypes
<1>1. CASE OtherStep
  <2>1. DoneFrame
    BY <1>1, OtherStepFrame
  <2> QED
    BY <2>1 DEF DoneFrame, DoneInv
<1>2. ASSUME NEW t \in Threads, Done(t)
      PROVE  DoneInv'
  <2>1. on[t] \in Calls
    BY <1>2 DEF Done, At, CallTypeOK, NeedsCall
  <2>2. CASE done[on[t]]
    <3>1. UNCHANGED <<done, notified, eraseSet>>
      BY <1>2, <2>2 DEF Done, timeoutVars
    <3>2. \A u \in Threads : pc'[u] = "callbacks" => pc[u] = "callbacks" /\ on'[u] = on[u]
      BY <1>2, <2>2 DEF Done, Return, Goto, CallTypeOK, Returns
    <3> QED
      BY <3>1, <3>2 DEF DoneInv
  <2>3. CASE ~done[on[t]]
    <3>1. /\ done' = [done EXCEPT ![on[t]] = TRUE]
          /\ pc' = [pc EXCEPT ![t] = "callbacks"]
          /\ UNCHANGED <<on, notified, eraseSet>>
      BY <1>2, <2>3 DEF Done, Goto, timeoutVars
    <3> QED
      BY <2>1, <2>3, <3>1 DEF DoneInv, CallTypeOK, SharedTypeOK
  <2> QED
    BY <2>2, <2>3
<1>3. ASSUME NEW t \in Threads, DoneCallbacks(t)
      PROVE  DoneInv'
  <2>1. on[t] \in Calls /\ pc[t] = "callbacks" /\ done[on[t]]
    BY <1>3 DEF DoneCallbacks, At, CallTypeOK, NeedsCall, DoneInv
  <2>2. /\ UNCHANGED done
        /\ notified' = [notified EXCEPT ![on[t]] = @ + 1]
        /\ eraseSet' \subseteq eraseSet \cup {on[t]}
    BY <1>3 DEF DoneCallbacks
  <2>3. \A u \in Threads :
          pc'[u] = "callbacks" => u # t /\ pc[u] = "callbacks" /\ on'[u] = on[u]
    BY <1>3 DEF DoneCallbacks, Return, Goto, CallTypeOK, Returns
  <2>4. ASSUME NEW u \in Threads, pc'[u] = "callbacks"
        PROVE  done'[on'[u]] /\ notified'[on'[u]] = 0
    <3>1. on[u] # on[t]
      BY <2>1, <2>3, <2>4 DEF DoneInv
    <3> QED
      BY <2>1, <2>2, <2>3, <2>4, <3>1 DEF DoneInv, CallTypeOK, SharedTypeOK
  <2>5. \A c \in Calls : notified'[c] > 0 => done'[c]
    BY <2>1, <2>2 DEF DoneInv, CallTypeOK, SharedTypeOK
  <2> QED
    BY <2>1, <2>2, <2>3, <2>4, <2>5 DEF DoneInv
<1> QED
  BY <1>1, <1>2, <1>3, NextCases

----------------------------------------------------------------------------
(* Nothing is known of a call before its user has made it *)

Started == {c \in Calls : pc[c] # "call"}

StartedInv ==
    /\ \A s \in Streams : controllers[s] \cup queued[s] \subseteq Started
    /\ \A c \in Calls : wire[c] = "written" => c \in Started
    /\ addList \cup tmpAdd \cup events \subseteq Started
    /\ \A t \in Threads : todo[t] \subseteq Started
    /\ \A t \in Threads : pc[t] \in NeedsCall => on[t] \in Started
    /\ \A c \in Calls : notified[c] > 0 => c \in Started

\* No step leads back to the beginning of a call.
LEMMA StartedGrows == TypeInv /\ [Next]_vars => Started \subseteq Started'
<1> SUFFICES ASSUME TypeInv, [Next]_vars
             PROVE  \A c \in Calls : pc'[c] = "call" => pc[c] = "call"
  BY DEF Started
<1> CallTypeOK
  BY TypeInvTypes
<1> USE DEF CallTypeOK, At, Goto, CallDone, Return, Returns, Threads
<1>1. ASSUME NEW c \in Calls, CallMethod(c)
      PROVE  \A d \in Calls : pc'[d] = "call" => pc[d] = "call"
  BY <1>1 DEF CallMethod, ContinueCall, FindOrCreateStream, AddTimeout, CheckClosed,
     InsertController, CheckSend, PutIntoQueue
<1>2. ASSUME NEW t \in Threads, DoneStep(t)
      PROVE  \A d \in Calls : pc'[d] = "call" => pc[d] = "call"
  BY <1>2 DEF DoneStep, Done, DoneCallbacks
<1>3. ASSUME NEW t \in Threads, StreamStep(t)
      PROVE  \A d \in Calls : pc'[d] = "call" => pc[d] = "call"
  BY <1>3 DEF StreamStep, OnSendFailed, CheckDone, CloseBroken, SwapControllers, OnClosed, EndCall
<1>4. ASSUME NEW t \in Workers, NEW s \in Streams, Handler(t, s)
      PROVE  \A d \in Calls : pc'[d] = "call" => pc[d] = "call"
  BY <1>4 DEF Handler, Close, OnSending, OnWriteError, OnReceived
<1>5. ASSUME TimerRun
      PROVE  \A d \in Calls : pc'[d] = "call" => pc[d] = "call"
  BY <1>5 DEF TimerRun, SwapAddList, Merge, NotifyTimeout, EraseRequest, EndTimerRun
<1>6. CASE UNCHANGED vars
  BY <1>6 DEF vars, threadVars
<1> QED
  BY <1>1, <1>2, <1>3, <1>4, <1>5, <1>6 DEF Next

LEMMA StartedStep == TypeInv /\ StartedInv /\ [Next]_vars => StartedInv'
<1> SUFFICES ASSUME TypeInv, StartedInv, [Next]_vars
             PROVE  StartedInv'
  OBVIOUS
<1> CallTypeOK /\ SharedTypeOK
  BY TypeInvTypes DEF CallTypeOK
<1>0. Started \subseteq Started'
  BY StartedGrows
<1> USE DEF CallTypeOK, SharedTypeOK, At, Goto, CallDone, NeedsCall, streamVars, callVars,
        timeoutVars
<1>1. ASSUME NEW c \in Calls, CallMethod(c)
      PROVE  StartedInv'
  <2>1. c \in Started' /\ on[c] = c /\ c \in Threads
    BY <1>1 DEF Started, Threads, CallMethod, ContinueCall, FindOrCreateStream, AddTimeout,
       CheckClosed, InsertController, CheckSend, PutIntoQueue
  <2>2. CASE FindOrCreateStream(c) \/ CheckClosed(c) \/ CheckSend(c)
    BY <1>0, <2>1, <2>2 DEF StartedInv, FindOrCreateStream, CheckClosed, CheckSend
  <2>3. CASE AddTimeout(c)
    BY <1>0, <2>1, <2>3 DEF StartedInv, AddTimeout
  <2>4. CASE InsertController(c)
    BY <1>0, <2>1, <2>4 DEF StartedInv, InsertController
  <2>5. CASE PutIntoQueue(c)
    BY <1>0, <2>1, <2>5 DEF StartedInv, PutIntoQueue
  <2> QED
    BY <1>1, <2>2, <2>3, <2>4, <2>5 DEF CallMethod, ContinueCall
<1>2. ASSUME NEW t \in Threads, Done(t)
      PROVE  StartedInv'
  BY <1>0, <1>2 DEF StartedInv, Done, Return, Returns
<1>3. ASSUME NEW t \in Threads, DoneCallbacks(t)
      PROVE  StartedInv'
  BY <1>0, <1>3 DEF StartedInv, DoneCallbacks, Return, Returns
<1>4. ASSUME NEW t \in Threads, OnSendFailed(t) \/ CheckDone(t)
      PROVE  StartedInv'
  BY <1>0, <1>4 DEF StartedInv, OnSendFailed, CheckDone
<1>5. ASSUME NEW t \in Threads, CloseBroken(t) \/ OnClosed(t)
      PROVE  StartedInv'
  BY <1>0, <1>5 DEF StartedInv, CloseBroken, OnClosed
<1>6. ASSUME NEW t \in Threads, SwapControllers(t)
      PROVE  StartedInv'
  BY <1>0, <1>6 DEF StartedInv, SwapControllers
<1>7. ASSUME NEW t \in Threads, NEW c \in Calls, EndCall(t, c)
      PROVE  StartedInv'
  BY <1>0, <1>7 DEF StartedInv, EndCall
<1>8. ASSUME NEW t \in Workers, NEW s \in Streams, Close(t, s)
      PROVE  StartedInv'
  BY <1>0, <1>8 DEF StartedInv, Close
<1>9. ASSUME NEW t \in Workers, NEW s \in Streams, NEW c \in Calls, OnSending(t, s, c)
      PROVE  StartedInv'
  BY <1>0, <1>9 DEF StartedInv, OnSending
<1>10. ASSUME NEW t \in Workers, NEW s \in Streams, NEW c \in Calls, OnWriteError(t, s, c)
       PROVE  StartedInv'
  BY <1>0, <1>10 DEF StartedInv, OnWriteError
<1>11. ASSUME NEW t \in Workers, NEW s \in Streams, NEW c \in Calls, OnReceived(t, s, c)
       PROVE  StartedInv'
  BY <1>0, <1>11 DEF StartedInv, OnReceived
<1>12. ASSUME SwapAddList \/ EraseRequest \/ EndTimerRun
       PROVE  StartedInv'
  BY <1>0, <1>12 DEF StartedInv, SwapAddList, EraseRequest, EndTimerRun
<1>13. ASSUME NEW expired \in SUBSET Calls, Merge(expired)
       PROVE  StartedInv'
  BY <1>0, <1>13 DEF StartedInv, Merge
<1>14. ASSUME NEW c \in Calls, NotifyTimeout(c)
       PROVE  StartedInv'
  BY <1>0, <1>14 DEF StartedInv, NotifyTimeout, Threads
<1>15. CASE UNCHANGED vars
  BY <1>0, <1>15 DEF StartedInv, vars, threadVars
<1> QED
  BY <1>1, <1>2, <1>3, <1>4, <1>5, <1>6, <1>7, <1>8, <1>9, <1>10, <1>11, <1>12, <1>13, <1>14, <1>15
     DEF Next, DoneStep, StreamStep, Handler, TimerRun

----------------------------------------------------------------------------
(* The promise *)

\* A call is made by the step that looks up its stream, and by no other.
LEMMA CallIsMade ==
    ASSUME TypeInv, [Next]_vars, NEW d \in Calls, ~FindOrCreateStream(d)
    PROVE  pc'[d] = "call" <=> pc[d] = "call"
<1> CallTypeOK
  BY TypeInvTypes
<1> USE DEF CallTypeOK, At, Goto, CallDone, Return, Returns, Threads
<1>1. ASSUME NEW c \in Calls, CallMethod(c)
      PROVE  pc'[d] = "call" <=> pc[d] = "call"
  BY <1>1 DEF CallMethod, ContinueCall, FindOrCreateStream, AddTimeout, CheckClosed,
     InsertController, CheckSend, PutIntoQueue
<1>2. ASSUME NEW t \in Threads, DoneStep(t)
      PROVE  pc'[d] = "call" <=> pc[d] = "call"
  BY <1>2 DEF DoneStep, Done, DoneCallbacks
<1>3. ASSUME NEW t \in Threads, StreamStep(t)
      PROVE  pc'[d] = "call" <=> pc[d] = "call"
  BY <1>3 DEF StreamStep, OnSendFailed, CheckDone, CloseBroken, SwapControllers, OnClosed, EndCall
<1>4. ASSUME NEW t \in Workers, NEW s \in Streams, Handler(t, s)
      PROVE  pc'[d] = "call" <=> pc[d] = "call"
  BY <1>4 DEF Handler, Close, OnSending, OnWriteError, OnReceived
<1>5. ASSUME TimerRun
      PROVE  pc'[d] = "call" <=> pc[d] = "call"
  BY <1>5 DEF TimerRun, SwapAddList, Merge, NotifyTimeout, EraseRequest, EndTimerRun
<1>6. CASE UNCHANGED vars
  BY <1>6 DEF vars, threadVars
<1> QED
  BY <1>1, <1>2, <1>3, <1>4, <1>5, <1>6 DEF Next

PromiseInv == TypeInv /\ DoneInv /\ StartedInv

\* The first step of a call maps to Call, the callbacks to Report, and every
\* other step leaves what the user sees alone.
LEMMA PromiseStep == PromiseInv /\ [Next]_vars => [Promise!PromiseNext]_reported
<1> SUFFICES ASSUME PromiseInv, [Next]_vars
             PROVE  [Promise!PromiseNext]_reported
  OBVIOUS
<1> CallTypeOK /\ SharedTypeOK /\ TypeInv
  BY TypeInvTypes DEF CallTypeOK, PromiseInv
<1> USE DEF CallTypeOK, SharedTypeOK
<1>1. ASSUME NEW c \in Calls, FindOrCreateStream(c)
      PROVE  Promise!Call(c)
  <2>1. /\ pc[c] = "call" /\ pc' = [pc EXCEPT ![c] = "add"]
        /\ UNCHANGED <<notified, result>>
    BY <1>1 DEF FindOrCreateStream, At, Goto, callVars
  <2>2. notified[c] = 0
    BY <2>1 DEF PromiseInv, StartedInv, Started
  <2>3. \A d \in Calls \ {c} : pc'[d] = pc[d]
    BY <2>1 DEF Threads
  <2>4. pc'[c] = "add"
    BY <2>1 DEF Threads
  <2>5. reported[c] = "new" /\ reported'[c] = "called"
    BY <2>1, <2>2, <2>4 DEF reported
  <2>6. \A d \in Calls \ {c} : reported'[d] = reported[d]
    BY <2>1, <2>3 DEF reported
  <2>7. reported' = [reported EXCEPT ![c] = "called"]
    BY <2>5, <2>6, ZenonT(30) DEF reported
  <2> QED
    BY <2>5, <2>7 DEF Promise!Call
<1>2. ASSUME \A c \in Calls : ~FindOrCreateStream(c), OtherStep
      PROVE  UNCHANGED reported
  <2>1. UNCHANGED <<notified, result>>
    BY <1>2, OtherStepFrame DEF DoneFrame
  <2>2. \A c \in Calls : pc'[c] = "call" <=> pc[c] = "call"
    BY <1>2, CallIsMade
  <2> QED
    BY <2>1, <2>2 DEF reported
<1>3. ASSUME NEW t \in Threads, Done(t)
      PROVE  UNCHANGED reported
  <2>1. \A c \in Calls : pc'[c] = "call" <=> pc[c] = "call"
    <3>1. pc[t] = "done" /\ pc'[t] # "done"
      BY <1>3 DEF Done, At, Goto, Return, Returns
    <3>2. \A c \in Calls : ~FindOrCreateStream(c)
      BY <3>1 DEF FindOrCreateStream, At, Goto
    <3> QED
      BY <3>2, CallIsMade
  <2>2. UNCHANGED notified
    BY <1>3 DEF Done
  <2>3. ASSUME NEW c \in Calls, notified[c] > 0
        PROVE  result'[c] = result[c]
    <3>1. done[c]
      BY <2>3 DEF PromiseInv, DoneInv
    <3> QED
      BY <1>3, <3>1 DEF Done
  <2> QED
    BY <2>1, <2>2, <2>3 DEF reported
<1>4. ASSUME NEW t \in Threads, DoneCallbacks(t)
      PROVE  Promise!Report(on[t])
  <2>1. /\ on[t] \in Calls /\ notified[on[t]] = 0 /\ pc[on[t]] # "call"
    BY <1>4 DEF DoneCallbacks, At, NeedsCall, PromiseInv, DoneInv, StartedInv, Started
  <2>2. notified' = [notified EXCEPT ![on[t]] = @ + 1]
    BY <1>4 DEF DoneCallbacks
  <2>3. \A c \in Calls : pc'[c] = "call" <=> pc[c] = "call"
    BY <1>4, <2>1, <2>2, CallIsMade DEF FindOrCreateStream, callVars
  <2>4. \A c \in Calls \ {on[t]} : result'[c] = result[c]
    BY <1>4, <2>1 DEF DoneCallbacks
  <2>5. result'[on[t]] \in Results
    BY <1>4, <2>1 DEF DoneCallbacks, Results
  <2>6. reported[on[t]] = "called"
    BY <2>1 DEF reported
  <2>7. reported' = [reported EXCEPT ![on[t]] = result'[on[t]]]
    <3>1. \A c \in Calls \ {on[t]} : reported'[c] = reported[c]
      BY <2>1, <2>2, <2>3, <2>4 DEF reported
    <3>2. reported'[on[t]] = result'[on[t]]
      BY <2>1, <2>2 DEF reported
    <3> QED
      BY <3>1, <3>2 DEF reported
  <2> QED
    BY <2>1, <2>5, <2>6, <2>7 DEF Promise!Report
<1>5. ASSUME NEW t \in Threads, Done(t) \/ DoneCallbacks(t)
      PROVE  [Promise!PromiseNext]_reported
  <2>1. CASE Done(t)
    BY <1>3, <2>1
  <2>2. CASE DoneCallbacks(t)
    <3>1. on[t] \in Calls
      BY <2>2 DEF DoneCallbacks, At, NeedsCall
    <3> QED
      BY <1>4, <2>2, <3>1 DEF Promise!PromiseNext
  <2> QED
    BY <1>5, <2>1, <2>2
<1> QED
  BY <1>1, <1>2, <1>5, NextCases DEF Promise!PromiseNext

\* A call ends at most once and its result is final: the calls of a client
\* implement RpcPromise.
THEOREM CallPromise == Spec => PromiseKept
<1>1. Init => PromiseInv /\ Promise!PromiseInit
  <2> SUFFICES ASSUME Init
               PROVE  PromiseInv /\ Promise!PromiseInit
    OBVIOUS
  <2>1. TypeInv
    BY InitType
  <2>2. DoneInv /\ StartedInv
    BY CallAssumption DEF Init, DoneInv, StartedInv, Started, Threads, NeedsCall
  <2>3. Promise!PromiseInit
    BY DEF Init, Promise!PromiseInit, reported, Threads
  <2> QED
    BY <2>1, <2>2, <2>3 DEF PromiseInv
<1>2. PromiseInv /\ [Next]_vars => PromiseInv'
  BY TypeStep, DoneInvStep, StartedStep DEF PromiseInv
<1> QED
  BY <1>1, <1>2, PromiseStep, PTL DEF Spec, PromiseKept, Promise!PromiseSpec

----------------------------------------------------------------------------
(* The timeout manager *)

\* Between its runs timer_run holds nothing, so that what it swaps out or
\* overwrites is empty.
WatchInv ==
    /\ CallsWatched
    /\ pc[Timer] # "merge" => tmpAdd = {}
    /\ pc[Timer] \in {"idle", "merge"} => todo[Timer] = {}

\* A step outside the manager can end a call and add to the lists.
LEMMA WatchKept ==
    ASSUME TypeInv, WatchInv,
           UNCHANGED <<events, tmpAdd>>, addList \subseteq addList', todo'[Timer] = todo[Timer],
           \A c \in Calls : done[c] => done'[c],
           \A c \in Calls : timeoutId'[c] => timeoutId[c] \/ c \in addList',
           \/ pc'[Timer] = pc[Timer]
           \/ pc[Timer] \in DoneSteps /\ pc'[Timer] \in {"callbacks", "erase_request"}
    PROVE  WatchInv'
  BY DEF TypeInv, SharedTypeOK, WatchInv, CallsWatched, DoneSteps

LEMMA WatchStep == TypeInv /\ DoneInv /\ WatchInv /\ [Next]_vars => WatchInv'
<1> SUFFICES ASSUME TypeInv, DoneInv, WatchInv, [Next]_vars
             PROVE  WatchInv'
  OBVIOUS
<1> CallTypeOK /\ SharedTypeOK
  BY TypeInvTypes DEF CallTypeOK
<1>0. Timer \in Threads /\ Timer \notin Calls /\ Timer \notin Workers /\ TimerOK(Timer)
  BY CallAssumption DEF Threads, TypeInv, ThreadsOK, ThreadOK
<1> USE DEF CallTypeOK, SharedTypeOK, At, Goto, CallDone, callVars, timeoutVars
<1>1. ASSUME NEW c \in Calls, CallMethod(c)
      PROVE  WatchInv'
  <2> c \in Threads /\ c # Timer
    BY <1>0 DEF Threads
  <2>1. CASE AddTimeout(c)
    BY <1>0, <2>1, WatchKept DEF AddTimeout
  <2>2. CASE FindOrCreateStream(c) \/ CheckClosed(c) \/ InsertController(c)
    BY <1>0, <2>2, WatchKept DEF FindOrCreateStream, CheckClosed, InsertController
  <2>3. CASE CheckSend(c) \/ PutIntoQueue(c)
    BY <1>0, <2>3, WatchKept DEF CheckSend, PutIntoQueue
  <2> QED
    BY <1>1, <2>1, <2>2, <2>3 DEF CallMethod, ContinueCall
<1>2. ASSUME NEW t \in Threads, Done(t)
      PROVE  WatchInv'
  BY <1>0, <1>2, WatchKept DEF Done, Return, TimerOK, DoneSteps
<1>3. ASSUME NEW t \in Threads, DoneCallbacks(t)
      PROVE  WatchInv'
  BY <1>0, <1>3, WatchKept DEF DoneCallbacks, Return, TimerOK, DoneSteps
<1>4. ASSUME NEW t \in Threads, StreamStep(t)
      PROVE  WatchInv'
  <2>1. t # Timer
    BY <1>0, <1>4 DEF StreamStep, OnSendFailed, CheckDone, CloseBroken, SwapControllers, OnClosed,
       EndCall, TimerOK, TimerSteps, DoneSteps
  <2>2. CASE OnSendFailed(t) \/ CheckDone(t) \/ CloseBroken(t)
    BY <1>0, <2>1, <2>2, WatchKept DEF OnSendFailed, CheckDone, CloseBroken
  <2>3. CASE SwapControllers(t) \/ OnClosed(t)
    BY <1>0, <2>1, <2>3, WatchKept DEF SwapControllers, OnClosed
  <2>4. ASSUME NEW c \in Calls, EndCall(t, c)
        PROVE  WatchInv'
    BY <1>0, <2>1, <2>4, WatchKept DEF EndCall
  <2> QED
    BY <1>4, <2>2, <2>3, <2>4 DEF StreamStep
<1>5. ASSUME NEW t \in Workers, NEW s \in Streams, Handler(t, s)
      PROVE  WatchInv'
  <2>1. t # Timer
    BY <1>0
  <2>2. /\ UNCHANGED <<events, tmpAdd, addList, done, timeoutId, todo>>
        /\ pc'[Timer] = pc[Timer]
    BY <1>0, <1>5, <2>1 DEF Handler, Close, OnSending, OnWriteError, OnReceived
  <2> QED
    BY <2>2, WatchKept
<1>6. ASSUME SwapAddList
      PROVE  WatchInv'
  BY <1>0, <1>6 DEF SwapAddList, WatchInv, CallsWatched
<1>7. ASSUME NEW expired \in SUBSET Calls, Merge(expired)
      PROVE  WatchInv'
  <2>1. \A c \in Calls : timeoutId[c] /\ ~done[c] =>
            c \in addList \cup tmpAdd \cup events /\ c \notin eraseSet
    BY <1>7 DEF Merge, WatchInv, CallsWatched, DoneInv
  <2>2. todo'[Timer] = expired /\ pc'[Timer] = "notify_timeout"
    BY <1>0, <1>7 DEF Merge
  <2> QED
    BY <1>7, <2>1, <2>2 DEF Merge, WatchInv, CallsWatched
<1>8. ASSUME NEW c \in Calls, NotifyTimeout(c)
      PROVE  WatchInv'
  <2>1. /\ pc[Timer] = "notify_timeout" /\ pc'[Timer] = "done"
        /\ todo'[Timer] = todo[Timer] \ {c} /\ timeoutId' = [timeoutId EXCEPT ![c] = FALSE]
        /\ UNCHANGED <<done, addList, tmpAdd, events>>
    BY <1>0, <1>8 DEF NotifyTimeout
  <2> QED
    BY <2>1 DEF WatchInv, CallsWatched
<1>9. ASSUME EraseRequest \/ EndTimerRun
      PROVE  WatchInv'
  BY <1>0, <1>9 DEF EraseRequest, EndTimerRun, WatchInv, CallsWatched
<1>10. CASE UNCHANGED vars
  BY <1>10 DEF vars, threadVars, WatchInv, CallsWatched
<1> QED
  BY <1>1, <1>2, <1>3, <1>4, <1>5, <1>6, <1>7, <1>8, <1>9, <1>10 DEF Next, DoneStep, TimerRun

\* A call with a timeout that is not done is in one of the lists of the timeout
\* manager, whatever timer_run is doing.
THEOREM CallsAreWatched == Spec => []CallsWatched
<1>1. Init => TypeInv /\ DoneInv /\ WatchInv
  <2>1. Init => DoneInv /\ WatchInv
    BY CallAssumption DEF Init, DoneInv, WatchInv, CallsWatched, Threads
  <2> QED
    BY <2>1, InitType
<1>2. TypeInv /\ DoneInv /\ WatchInv /\ [Next]_vars => (TypeInv /\ DoneInv /\ WatchInv)'
  BY TypeStep, DoneInvStep, WatchStep
<1>3. WatchInv => CallsWatched
  BY DEF WatchInv
<1> QED
  BY <1>1, <1>2, <1>3, PTL DEF Spec
----------------------------------------------------------------------------
(* What holds a call *)

\* Calls that have been put in a controller map, or have ended before that.
Entered == {c \in Calls : pc[c] \in {"send", "put", "wait", "send_failed"} \cup DoneSteps}

\* Streams and workers know only such calls, each in the stream it was given;
\* a call that was not made is not done.
EnteredInv ==
    /\ \A s \in Streams : \A c \in controllers[s] \cup queued[s] : c \in Entered /\ at[c] = s
    /\ \A c \in Calls : wire[c] = "written" => c \in Entered
    /\ \A w \in Workers : todo[w] \subseteq Entered
    /\ \A w \in Workers : pc[w] \in NeedsCall => on[w] \in Entered
    /\ \A c \in Calls : pc[c] = "call" => ~done[c] /\ at[c] = NoStream

\* A call that has entered stays so and keeps its stream.
LEMMA EnteredGrows ==
    ASSUME TypeInv, [Next]_vars, NEW c \in Entered
    PROVE  c \in Entered' /\ at'[c] = at[c]
<1> CallTypeOK /\ c \in Threads /\ c \in Calls /\ c \notin Workers /\ c # Timer /\ UserOK(c)
  BY TypeInvTypes, CallAssumption DEF Entered, Threads, TypeInv, ThreadsOK, ThreadOK
<1> USE DEF CallTypeOK, At, Goto, CallDone, Return, Threads, Entered, DoneSteps
<1>1. ASSUME NEW d \in Calls, CallMethod(d)
      PROVE  c \in Entered' /\ at'[c] = at[c]
  BY <1>1 DEF CallMethod, ContinueCall, FindOrCreateStream, AddTimeout, CheckClosed,
     InsertController, CheckSend, PutIntoQueue
<1>2. ASSUME NEW t \in Threads, DoneStep(t)
      PROVE  c \in Entered' /\ at'[c] = at[c]
  BY <1>2 DEF DoneStep, Done, DoneCallbacks, UserOK
<1>3. ASSUME NEW t \in Threads, StreamStep(t)
      PROVE  c \in Entered' /\ at'[c] = at[c]
  BY <1>3 DEF StreamStep, OnSendFailed, CheckDone, CloseBroken, SwapControllers, OnClosed, EndCall,
     UserOK, CallSteps
<1>4. ASSUME NEW t \in Workers, NEW s \in Streams, Handler(t, s)
      PROVE  c \in Entered' /\ at'[c] = at[c]
  BY <1>4 DEF Handler, Close, OnSending, OnWriteError, OnReceived
<1>5. ASSUME TimerRun
      PROVE  c \in Entered' /\ at'[c] = at[c]
  BY <1>5 DEF TimerRun, SwapAddList, Merge, NotifyTimeout, EraseRequest, EndTimerRun
<1>6. CASE UNCHANGED vars
  BY <1>6 DEF vars, threadVars
<1> QED
  BY <1>1, <1>2, <1>3, <1>4, <1>5, <1>6 DEF Next

LEMMA EnteredStep == TypeInv /\ StartedInv /\ EnteredInv /\ [Next]_vars => EnteredInv'
<1> SUFFICES ASSUME TypeInv, StartedInv, EnteredInv, [Next]_vars
             PROVE  EnteredInv'
  OBVIOUS
<1> CallTypeOK /\ SharedTypeOK
  BY TypeInvTypes DEF CallTypeOK
<1>0. \A c \in Entered : c \in Entered' /\ at'[c] = at[c]
  BY EnteredGrows
<1> Calls \cap Workers = {} /\ Timer \notin Calls /\ Timer \notin Workers
  BY CallAssumption
<1>w. \A w \in Workers : WorkerOK(w)
  BY DEF TypeInv, ThreadsOK, ThreadOK, Threads
<1> USE DEF CallTypeOK, SharedTypeOK, At, Goto, CallDone, NeedsCall, streamVars, callVars,
        timeoutVars, Threads
<1>1. ASSUME NEW c \in Calls, CallMethod(c)
      PROVE  EnteredInv'
  <2>2. CASE FindOrCreateStream(c) \/ CheckClosed(c) \/ CheckSend(c)
    BY <1>0, <2>2 DEF EnteredInv, FindOrCreateStream, CheckClosed, CheckSend
  <2>3. CASE AddTimeout(c)
    <3>1. /\ UNCHANGED <<controllers, queued, wire, done, todo, at>>
          /\ \A d \in Calls : pc'[d] = "call" => pc[d] = "call"
          /\ \A w \in Workers : pc'[w] = pc[w] /\ on'[w] = on[w]
      BY <2>3 DEF AddTimeout
    <3> QED
      BY <1>0, <3>1 DEF EnteredInv
  <2>4. CASE InsertController(c)
    BY <1>0, <2>4 DEF EnteredInv, InsertController, Entered
  <2>5. CASE PutIntoQueue(c)
    BY <1>0, <2>5 DEF EnteredInv, PutIntoQueue, Entered
  <2> QED
    BY <1>1, <2>2, <2>3, <2>4, <2>5 DEF CallMethod, ContinueCall
<1>2. ASSUME NEW t \in Threads, Done(t)
      PROVE  EnteredInv'
  <2>1. CASE done[on[t]]
    <3>1. \A w \in Workers : pc'[w] \in NeedsCall => pc[w] \in NeedsCall /\ on'[w] = on[w]
      BY <1>2, <2>1, <1>w, SMTT(30) DEF Done, Return, Returns, DoneSteps
    <3>2. \A c \in Calls : pc'[c] = "call" => pc[c] = "call"
      BY <1>2, <2>1, SMTT(30) DEF Done, Return, Returns
    <3> QED
      BY <1>0, <1>2, <2>1, <3>1, <3>2 DEF EnteredInv, Done
  <2>2. CASE ~done[on[t]]
    <3>1. on[t] \in Calls /\ pc[on[t]] # "call"
      BY <1>2 DEF Done, StartedInv, Started
    <3>2. /\ pc' = [pc EXCEPT ![t] = "callbacks"] /\ done' = [done EXCEPT ![on[t]] = TRUE]
          /\ UNCHANGED <<controllers, queued, wire, todo, on, at>> /\ pc[t] = "done"
      BY <1>2, <2>2 DEF Done
    <3>3. \A c \in Calls : pc'[c] = "call" => ~done'[c] /\ at'[c] = NoStream
      BY <3>1, <3>2 DEF EnteredInv
    <3> QED
      BY <1>0, <3>2, <3>3 DEF EnteredInv
  <2> QED
    BY <2>1, <2>2
<1>3. ASSUME NEW t \in Threads, DoneCallbacks(t)
      PROVE  EnteredInv'
  BY <1>0, <1>3, SMTT(30) DEF EnteredInv, DoneCallbacks, Return, Returns
<1>4. ASSUME NEW t \in Threads, OnSendFailed(t) \/ CheckDone(t)
      PROVE  EnteredInv'
  <2>1. CASE OnSendFailed(t)
    BY <1>0, <2>1 DEF EnteredInv, OnSendFailed
  <2>2. CASE CheckDone(t)
    BY <1>0, <2>2, SMTT(30) DEF EnteredInv, CheckDone
  <2> QED
    BY <1>4, <2>1, <2>2
<1>5. ASSUME NEW t \in Threads, CloseBroken(t) \/ OnClosed(t)
      PROVE  EnteredInv'
  BY <1>0, <1>5 DEF EnteredInv, CloseBroken, OnClosed
<1>6. ASSUME NEW t \in Threads, SwapControllers(t)
      PROVE  EnteredInv'
  BY <1>0, <1>6 DEF EnteredInv, SwapControllers
<1>7. ASSUME NEW t \in Threads, NEW c \in Calls, EndCall(t, c)
      PROVE  EnteredInv'
  BY <1>0, <1>7 DEF EnteredInv, EndCall
<1>8. ASSUME NEW t \in Workers, NEW s \in Streams, Close(t, s)
      PROVE  EnteredInv'
  BY <1>0, <1>8 DEF EnteredInv, Close
<1>9. ASSUME NEW t \in Workers, NEW s \in Streams, NEW c \in Calls, OnSending(t, s, c)
      PROVE  EnteredInv'
  BY <1>0, <1>9 DEF EnteredInv, OnSending
<1>10. ASSUME NEW t \in Workers, NEW s \in Streams, NEW c \in Calls, OnWriteError(t, s, c)
       PROVE  EnteredInv'
  BY <1>0, <1>10 DEF EnteredInv, OnWriteError
<1>11. ASSUME NEW t \in Workers, NEW s \in Streams, NEW c \in Calls, OnReceived(t, s, c)
       PROVE  EnteredInv'
  <2>1. /\ \A r \in Streams : controllers'[r] \subseteq controllers[r]
        /\ UNCHANGED <<queued, todo, at, done>>
        /\ \A d \in Calls : wire'[d] = "written" => wire[d] = "written"
        /\ \A d \in Calls : pc'[d] = pc[d]
    BY <1>11, SMTT(30) DEF OnReceived
  <2>2. \A w \in Workers : pc'[w] \in NeedsCall => on'[w] \in Entered
    BY <1>11 DEF OnReceived, EnteredInv
  <2> QED
    BY <1>0, <2>1, <2>2 DEF EnteredInv
<1>12. ASSUME SwapAddList \/ EraseRequest \/ EndTimerRun
       PROVE  EnteredInv'
  BY <1>0, <1>12 DEF EnteredInv, SwapAddList, EraseRequest, EndTimerRun
<1>13. ASSUME NEW expired \in SUBSET Calls, Merge(expired)
       PROVE  EnteredInv'
  BY <1>0, <1>13 DEF EnteredInv, Merge
<1>14. ASSUME NEW c \in Calls, NotifyTimeout(c)
       PROVE  EnteredInv'
  BY <1>0, <1>14 DEF EnteredInv, NotifyTimeout
<1>15. CASE UNCHANGED vars
  BY <1>0, <1>15 DEF EnteredInv, vars, threadVars
<1> QED
  BY <1>1, <1>2, <1>3, <1>4, <1>5, <1>6, <1>7, <1>8, <1>9, <1>10, <1>11, <1>12, <1>13, <1>14, <1>15
     DEF Next, DoneStep, StreamStep, Handler, TimerRun

\* A thread has calls to complete only between the steps of their loop.
TodoInv ==
    \A t \in Threads : todo[t] # {} =>
        \/ pc[t] \in {"end_calls", "notify_timeout", "erase_request"}
        \/ pc[t] \in DoneSteps /\ ret[t] \in {"end_calls", "erase_request"}

LEMMA TodoStep == TypeInv /\ TodoInv /\ [Next]_vars => TodoInv'
<1> SUFFICES ASSUME TypeInv, TodoInv, [Next]_vars
             PROVE  TodoInv'
  OBVIOUS
<1> CallTypeOK /\ SharedTypeOK
  BY TypeInvTypes DEF CallTypeOK
<1>a. Calls \cap Workers = {} /\ Timer \notin Calls /\ Timer \notin Workers
  BY CallAssumption
<1>b. \A t \in Threads : ThreadOK(t)
  BY DEF TypeInv, ThreadsOK
<1> USE DEF CallTypeOK, SharedTypeOK, At, Goto, CallDone, streamVars, callVars, timeoutVars,
        Threads, DoneSteps, Returns, Steps
<1>1. ASSUME NEW c \in Calls, FindOrCreateStream(c)
      PROVE  TodoInv'
  BY <1>1, <1>a, <1>b DEF TodoInv, FindOrCreateStream
<1>2. ASSUME NEW c \in Calls, AddTimeout(c)
      PROVE  TodoInv'
  <2>1. todo' = todo /\ c \in Threads /\ todo[c] = {}
    BY <1>2 DEF TodoInv, AddTimeout
  <2>2. ASSUME NEW u \in Threads \ {c}
        PROVE  pc'[u] = pc[u] /\ ret'[u] = ret[u]
    BY <1>2, <2>2, <1>b DEF AddTimeout
  <2> QED
    BY <2>1, <2>2 DEF TodoInv
<1>3. ASSUME NEW c \in Calls, CheckClosed(c)
      PROVE  TodoInv'
  BY <1>3, <1>a, <1>b, SMTT(30) DEF TodoInv, CheckClosed
<1>4. ASSUME NEW c \in Calls, CheckSend(c)
      PROVE  TodoInv'
  BY <1>4, <1>a, <1>b, SMTT(30) DEF TodoInv, CheckSend
<1>5. ASSUME NEW c \in Calls, InsertController(c)
      PROVE  TodoInv'
  BY <1>5, <1>a, <1>b DEF TodoInv, InsertController
<1>6. ASSUME NEW c \in Calls, PutIntoQueue(c)
      PROVE  TodoInv'
  BY <1>6, <1>a, <1>b DEF TodoInv, PutIntoQueue
<1>7. ASSUME NEW t \in Threads, Done(t)
      PROVE  TodoInv'
  BY <1>7, <1>a, <1>b DEF TodoInv, Done, Return
<1>8. ASSUME NEW t \in Threads, DoneCallbacks(t)
      PROVE  TodoInv'
  BY <1>8, <1>a, <1>b DEF TodoInv, DoneCallbacks, Return
<1>9. ASSUME NEW t \in Threads, OnSendFailed(t)
      PROVE  TodoInv'
  BY <1>9, <1>a, <1>b DEF TodoInv, OnSendFailed
<1>10. ASSUME NEW t \in Threads, CheckDone(t)
      PROVE  TodoInv'
  BY <1>10, <1>a, <1>b, SMTT(30) DEF TodoInv, CheckDone
<1>11. ASSUME NEW t \in Threads, CloseBroken(t)
      PROVE  TodoInv'
  BY <1>11, <1>a, <1>b DEF TodoInv, CloseBroken
<1>12. ASSUME NEW t \in Threads, OnClosed(t)
      PROVE  TodoInv'
  BY <1>12, <1>a, <1>b DEF TodoInv, OnClosed
<1>13. ASSUME NEW t \in Threads, SwapControllers(t)
      PROVE  TodoInv'
  BY <1>13, <1>a, <1>b DEF TodoInv, SwapControllers
<1>14. ASSUME NEW t \in Threads, NEW c \in Calls, EndCall(t, c)
      PROVE  TodoInv'
  BY <1>14, <1>a, <1>b DEF TodoInv, EndCall
<1>15. ASSUME NEW t \in Workers, NEW s \in Streams, Close(t, s)
      PROVE  TodoInv'
  BY <1>15, <1>a, <1>b DEF TodoInv, Close
<1>16. ASSUME NEW t \in Workers, NEW s \in Streams, NEW c \in Calls, OnSending(t, s, c)
      PROVE  TodoInv'
  BY <1>16, <1>a, <1>b DEF TodoInv, OnSending
<1>17. ASSUME NEW t \in Workers, NEW s \in Streams, NEW c \in Calls, OnWriteError(t, s, c)
      PROVE  TodoInv'
  BY <1>17, <1>a, <1>b DEF TodoInv, OnWriteError
<1>18. ASSUME NEW t \in Workers, NEW s \in Streams, NEW c \in Calls, OnReceived(t, s, c)
      PROVE  TodoInv'
  BY <1>18, <1>a, <1>b DEF TodoInv, OnReceived
<1>19. ASSUME SwapAddList \/ EraseRequest \/ EndTimerRun
      PROVE  TodoInv'
  BY <1>19, <1>a, <1>b, SMTT(30) DEF TodoInv, SwapAddList, EraseRequest, EndTimerRun
<1>20. ASSUME NEW expired \in SUBSET Calls, Merge(expired)
      PROVE  TodoInv'
  BY <1>20, <1>a, <1>b DEF TodoInv, Merge
<1>21. ASSUME NEW c \in Calls, NotifyTimeout(c)
      PROVE  TodoInv'
  BY <1>21, <1>a, <1>b DEF TodoInv, NotifyTimeout
<1>22. ASSUME UNCHANGED vars
      PROVE  TodoInv'
  BY <1>22, <1>a, <1>b DEF TodoInv, vars, threadVars
<1> QED
  BY <1>1, <1>2, <1>3, <1>4, <1>5, <1>6, <1>7, <1>8, <1>9, <1>10, <1>11, <1>12, <1>13, <1>14,
     <1>15, <1>16, <1>17, <1>18, <1>19, <1>20, <1>21, <1>22
     DEF Next, CallMethod, ContinueCall, DoneStep, StreamStep, Handler, TimerRun

\* A stream that was used is not new again, and a closed one not opened.
LEMMA StatusKept ==
    ASSUME TypeInv, [Next]_vars, NEW s \in Streams
    PROVE  /\ status[s] = "closed" => status'[s] = "closed"
           /\ status[s] # "new" => status'[s] # "new"
<1> SharedTypeOK
  BY DEF TypeInv
<1> USE DEF SharedTypeOK, streamVars
<1>1. ASSUME NEW c \in Calls, FindOrCreateStream(c)
      PROVE  status[s] # "new" => status'[s] = status[s]
  BY <1>1 DEF FindOrCreateStream, NewStreams, NewStream
<1>2. ASSUME NEW t \in Threads, CloseBroken(t)
      PROVE  status'[s] \in {status[s], "closed"}
  BY <1>2 DEF CloseBroken
<1>3. ASSUME NEW t \in Workers, NEW r \in Streams, Close(t, r)
      PROVE  status'[s] \in {status[s], "closed"}
  BY <1>3 DEF Close
<1>4. ASSUME NEW c \in Calls, ContinueCall(c)
      PROVE  UNCHANGED status
  BY <1>4 DEF ContinueCall, AddTimeout, CheckClosed, InsertController, CheckSend, PutIntoQueue
<1>5. ASSUME NEW t \in Threads, DoneStep(t)
      PROVE  UNCHANGED status
  BY <1>5 DEF DoneStep, Done, DoneCallbacks
<1>6. ASSUME NEW t \in Threads, OnSendFailed(t) \/ CheckDone(t) \/ SwapControllers(t)
                                \/ OnClosed(t) \/ \E c \in Calls : EndCall(t, c)
      PROVE  UNCHANGED status
  BY <1>6 DEF OnSendFailed, CheckDone, SwapControllers, OnClosed, EndCall
<1>7. ASSUME NEW t \in Workers, NEW r \in Streams, NEW c \in Calls,
             OnSending(t, r, c) \/ OnWriteError(t, r, c) \/ OnReceived(t, r, c)
      PROVE  UNCHANGED status
  BY <1>7 DEF OnSending, OnWriteError, OnReceived
<1>8. ASSUME TimerRun
      PROVE  UNCHANGED status
  BY <1>8 DEF TimerRun, SwapAddList, Merge, NotifyTimeout, EraseRequest, EndTimerRun
<1>9. CASE UNCHANGED vars
  BY <1>9 DEF vars
<1> QED
  BY <1>1, <1>2, <1>3, <1>4, <1>5, <1>6, <1>7, <1>8, <1>9 DEF Next, CallMethod, StreamStep, Handler

\* A stream that is being closed, or whose calls are being ended, is closed; a
\* stream in use is not new.
StreamOK(t) ==
    /\ at[t] \in Streams => status[at[t]] # "new"
    /\ t \in Workers /\ pc[t] \in {"on_closed", "end_calls"} => status[at[t]] = "closed"
    /\ t \in Workers /\ pc[t] \in {"send_failed"} \cup DoneSteps /\ ret[t] = "end_calls" =>
          status[at[t]] = "closed"
    /\ t \in Workers => \A c \in todo[t] : at[c] \in Streams /\ status[at[c]] = "closed"

ClosedInv == \A t \in Threads : StreamOK(t)

\* A step of thread t keeps what is known of the others.
LEMMA ClosedKept ==
    ASSUME TypeInv, EnteredInv, ClosedInv, [Next]_vars, NEW t \in Threads, Only(t), StreamOK(t)'
    PROVE  ClosedInv'
<1> SUFFICES ASSUME NEW u \in Threads, u # t
             PROVE  StreamOK(u)'
  BY DEF ClosedInv
<1> CallTypeOK /\ StreamOK(u)
  BY TypeInvTypes DEF ClosedInv
<1>1. /\ pc'[u] = pc[u] /\ at'[u] = at[u] /\ ret'[u] = ret[u] /\ todo'[u] = todo[u]
  BY DEF Only, CallTypeOK
<1>2. \A s \in Streams : /\ status[s] = "closed" => status'[s] = "closed"
                         /\ status[s] # "new" => status'[s] # "new"
  BY StatusKept
<1>3. u \in Workers => \A c \in todo[u] : at'[c] = at[c]
  BY EnteredGrows DEF EnteredInv
<1>4. u \in Workers /\ pc[u] \in {"on_closed", "end_calls"} => at[u] \in Streams
  BY DEF CallTypeOK
<1>5. u \in Workers /\ pc[u] \in {"send_failed"} \cup DoneSteps /\ ret[u] = "end_calls" =>
          at[u] \in Streams
  BY DEF TypeInv, ThreadsOK, ThreadOK, WorkerOK
<1> QED
  BY <1>1, <1>2, <1>3, <1>4, <1>5 DEF StreamOK

LEMMA ClosedStep == TypeInv /\ EnteredInv /\ TodoInv /\ ClosedInv /\ [Next]_vars => ClosedInv'
<1> SUFFICES ASSUME TypeInv, EnteredInv, TodoInv, ClosedInv, [Next]_vars
             PROVE  ClosedInv'
  OBVIOUS
<1> CallTypeOK /\ SharedTypeOK
  BY TypeInvTypes DEF CallTypeOK
<1>a. /\ Calls \cap Workers = {} /\ Timer \notin Calls
      /\ Timer \notin Workers /\ NoStream \notin Streams
  BY CallAssumption
<1>b. \A t \in Threads : ThreadOK(t)
  BY DEF TypeInv, ThreadsOK
<1>c. \A c \in Entered : c \in Entered' /\ at'[c] = at[c]
  BY EnteredGrows
<1>d. \A s \in Streams : /\ status[s] = "closed" => status'[s] = "closed"
                         /\ status[s] # "new" => status'[s] # "new"
  BY StatusKept
<1>e. \A w \in Workers : \A c \in todo[w] : c \in Calls /\ at'[c] = at[c]
  BY <1>a, <1>c DEF EnteredInv, CallTypeOK, SharedTypeOK, Threads
<1>f. \A s \in Streams : \A c \in controllers[s] : c \in Calls /\ at[c] = s /\ at'[c] = at[c]
  BY <1>a, <1>c DEF EnteredInv, CallTypeOK, SharedTypeOK, Threads
<1> USE DEF CallTypeOK, SharedTypeOK, At, Goto, CallDone, streamVars, callVars, timeoutVars,
        Threads, DoneSteps, Returns, Steps, ThreadOK, UserOK, WorkerOK, TimerOK
<1>1. ASSUME NEW c \in Calls, FindOrCreateStream(c)
      PROVE  ClosedInv'
  <2>0. NewStreams # {} => NewStream \in Streams
    BY DEF NewStreams, NewStream
  <2>1. Only(c)
    BY <1>1 DEF FindOrCreateStream, Only
  <2>2. StreamOK(c)'
    BY <1>1, <1>a, <1>b, <1>d, <1>e, <1>f, <2>0 DEF FindOrCreateStream, StreamOK, ClosedInv
  <2> QED
    BY <1>a, <2>1, <2>2, ClosedKept
<1>2. ASSUME NEW c \in Calls, AddTimeout(c)
      PROVE  ClosedInv'
  <2>1. Only(c)
    BY <1>2 DEF AddTimeout, Only
  <2>2. StreamOK(c)'
    BY <1>2, <1>a, <1>b, <1>d, <1>e, <1>f DEF AddTimeout, StreamOK, ClosedInv
  <2> QED
    BY <1>a, <2>1, <2>2, ClosedKept
<1>3. ASSUME NEW c \in Calls, CheckClosed(c)
      PROVE  ClosedInv'
  <2>1. Only(c)
    BY <1>3 DEF CheckClosed, Only
  <2>2. StreamOK(c)'
    BY <1>3, <1>a, <1>b, <1>d, <1>e, <1>f DEF CheckClosed, StreamOK, ClosedInv
  <2> QED
    BY <1>a, <2>1, <2>2, ClosedKept
<1>4. ASSUME NEW c \in Calls, CheckSend(c)
      PROVE  ClosedInv'
  <2>1. Only(c)
    BY <1>4 DEF CheckSend, Only
  <2>2. StreamOK(c)'
    BY <1>4, <1>a, <1>b, <1>d, <1>e, <1>f DEF CheckSend, StreamOK, ClosedInv
  <2> QED
    BY <1>a, <2>1, <2>2, ClosedKept
<1>5. ASSUME NEW c \in Calls, InsertController(c)
      PROVE  ClosedInv'
  <2>1. Only(c)
    BY <1>5 DEF InsertController, Only
  <2>2. StreamOK(c)'
    BY <1>5, <1>a, <1>b, <1>d, <1>e, <1>f DEF InsertController, StreamOK, ClosedInv
  <2> QED
    BY <1>a, <2>1, <2>2, ClosedKept
<1>6. ASSUME NEW c \in Calls, PutIntoQueue(c)
      PROVE  ClosedInv'
  <2>1. Only(c)
    BY <1>6 DEF PutIntoQueue, Only
  <2>2. StreamOK(c)'
    BY <1>6, <1>a, <1>b, <1>d, <1>e, <1>f DEF PutIntoQueue, StreamOK, ClosedInv
  <2> QED
    BY <1>a, <2>1, <2>2, ClosedKept
<1>7. ASSUME NEW t \in Threads, Done(t)
      PROVE  ClosedInv'
  <2>1. Only(t)
    BY <1>7 DEF Done, Return, Only
  <2>2. StreamOK(t)'
    BY <1>7, <1>a, <1>b, <1>d, <1>e, <1>f DEF Done, Return, StreamOK, ClosedInv
  <2> QED
    BY <1>a, <2>1, <2>2, ClosedKept
<1>8. ASSUME NEW t \in Threads, DoneCallbacks(t)
      PROVE  ClosedInv'
  <2>1. Only(t)
    BY <1>8 DEF DoneCallbacks, Return, Only
  <2>2. StreamOK(t)'
    BY <1>8, <1>a, <1>b, <1>d, <1>e, <1>f DEF DoneCallbacks, Return, StreamOK, ClosedInv
  <2> QED
    BY <1>a, <2>1, <2>2, ClosedKept
<1>9. ASSUME NEW t \in Threads, OnSendFailed(t)
      PROVE  ClosedInv'
  <2>1. Only(t)
    BY <1>9 DEF OnSendFailed, Only
  <2>2. StreamOK(t)'
    BY <1>9, <1>a, <1>b, <1>d, <1>e, <1>f DEF OnSendFailed, StreamOK, ClosedInv
  <2> QED
    BY <1>a, <2>1, <2>2, ClosedKept
<1>10. ASSUME NEW t \in Threads, CheckDone(t)
      PROVE  ClosedInv'
  <2>1. Only(t)
    BY <1>10 DEF CheckDone, Only
  <2>2. StreamOK(t)'
    BY <1>10, <1>a, <1>b, <1>d, <1>e, <1>f DEF CheckDone, StreamOK, ClosedInv
  <2> QED
    BY <1>a, <2>1, <2>2, ClosedKept
<1>11. ASSUME NEW t \in Threads, CloseBroken(t)
      PROVE  ClosedInv'
  <2>1. Only(t)
    BY <1>11 DEF CloseBroken, Only
  <2>2. StreamOK(t)'
    BY <1>11, <1>a, <1>b, <1>d, <1>e, <1>f DEF CloseBroken, StreamOK, ClosedInv
  <2> QED
    BY <1>a, <2>1, <2>2, ClosedKept
<1>12. ASSUME NEW t \in Threads, OnClosed(t)
      PROVE  ClosedInv'
  <2>1. Only(t)
    BY <1>12 DEF OnClosed, Only
  <2>2. StreamOK(t)'
    BY <1>12, <1>a, <1>b, <1>d, <1>e, <1>f DEF OnClosed, StreamOK, ClosedInv
  <2> QED
    BY <1>a, <2>1, <2>2, ClosedKept
<1>13. ASSUME NEW t \in Threads, SwapControllers(t)
      PROVE  ClosedInv'
  <2>1. Only(t)
    BY <1>13 DEF SwapControllers, Only
  <2>2. StreamOK(t)'
    BY <1>13, <1>a, <1>b, <1>d, <1>e, <1>f DEF SwapControllers, StreamOK, ClosedInv
  <2> QED
    BY <1>a, <2>1, <2>2, ClosedKept
<1>14. ASSUME NEW t \in Threads, NEW c \in Calls, EndCall(t, c)
      PROVE  ClosedInv'
  <2>1. Only(t)
    BY <1>14 DEF EndCall, Only
  <2>2. StreamOK(t)'
    BY <1>14, <1>a, <1>b, <1>d, <1>e, <1>f DEF EndCall, StreamOK, ClosedInv
  <2> QED
    BY <1>a, <2>1, <2>2, ClosedKept
<1>15. ASSUME NEW t \in Workers, NEW s \in Streams, Close(t, s)
      PROVE  ClosedInv'
  <2>1. Only(t)
    BY <1>15 DEF Close, Only
  <2>2. StreamOK(t)'
    BY <1>15, <1>a, <1>b, <1>d, <1>e, <1>f DEF Close, StreamOK, ClosedInv
  <2> QED
    BY <1>a, <2>1, <2>2, ClosedKept
<1>16. ASSUME NEW t \in Workers, NEW s \in Streams, NEW c \in Calls, OnSending(t, s, c)
      PROVE  ClosedInv'
  <2>1. Only(t)
    BY <1>16 DEF OnSending, Only
  <2>2. StreamOK(t)'
    BY <1>16, <1>a, <1>b, <1>d, <1>e, <1>f DEF OnSending, StreamOK, ClosedInv
  <2> QED
    BY <1>a, <2>1, <2>2, ClosedKept
<1>17. ASSUME NEW t \in Workers, NEW s \in Streams, NEW c \in Calls, OnWriteError(t, s, c)
      PROVE  ClosedInv'
  <2>1. Only(t)
    BY <1>17 DEF OnWriteError, Only
  <2>2. StreamOK(t)'
    BY <1>17, <1>a, <1>b, <1>d, <1>e, <1>f DEF OnWriteError, StreamOK, ClosedInv
  <2> QED
    BY <1>a, <2>1, <2>2, ClosedKept
<1>18. ASSUME NEW t \in Workers, NEW s \in Streams, NEW c \in Calls, OnReceived(t, s, c)
      PROVE  ClosedInv'
  <2>1. Only(t)
    BY <1>18 DEF OnReceived, Only
  <2>2. StreamOK(t)'
    BY <1>18, <1>a, <1>b, <1>d, <1>e, <1>f DEF OnReceived, StreamOK, ClosedInv
  <2> QED
    BY <1>a, <2>1, <2>2, ClosedKept
<1>19. ASSUME SwapAddList \/ EraseRequest \/ EndTimerRun
      PROVE  ClosedInv'
  <2>1. Only(Timer)
    BY <1>19 DEF SwapAddList, EraseRequest, EndTimerRun, Only
  <2>2. StreamOK(Timer)'
    BY <1>19, <1>a, <1>b, <1>d, <1>e, <1>f DEF SwapAddList, EraseRequest, EndTimerRun, StreamOK,
       ClosedInv
  <2> QED
    BY <1>a, <2>1, <2>2, ClosedKept
<1>20. ASSUME NEW expired \in SUBSET Calls, Merge(expired)
      PROVE  ClosedInv'
  <2>1. Only(Timer)
    BY <1>20 DEF Merge, Only
  <2>2. StreamOK(Timer)'
    BY <1>20, <1>a, <1>b, <1>d, <1>e, <1>f DEF Merge, StreamOK, ClosedInv
  <2> QED
    BY <1>a, <2>1, <2>2, ClosedKept
<1>21. ASSUME NEW c \in Calls, NotifyTimeout(c)
      PROVE  ClosedInv'
  <2>1. Only(Timer)
    BY <1>21 DEF NotifyTimeout, Only
  <2>2. StreamOK(Timer)'
    BY <1>21, <1>a, <1>b, <1>d, <1>e, <1>f DEF NotifyTimeout, StreamOK, ClosedInv
  <2> QED
    BY <1>a, <2>1, <2>2, ClosedKept
<1>22. ASSUME UNCHANGED vars
      PROVE  ClosedInv'
  BY <1>22 DEF ClosedInv, StreamOK, vars, threadVars
<1> QED
  BY <1>1, <1>2, <1>3, <1>4, <1>5, <1>6, <1>7, <1>8, <1>9, <1>10, <1>11, <1>12, <1>13, <1>14,
     <1>15, <1>16, <1>17, <1>18, <1>19, <1>20, <1>21, <1>22
     DEF Next, CallMethod, ContinueCall, DoneStep, StreamStep, Handler, TimerRun

\* Only InsertController adds to the controller map of a usable stream.
LEMMA ControllersKept ==
    ASSUME TypeInv, EnteredInv, ClosedInv, [Next]_vars, NEW s \in Streams, status'[s] = "open",
           NEW c \in controllers'[s]
    PROVE  (c \in controllers[s] /\ status[s] = "open") \/ InsertController(c)
<1> CallTypeOK /\ SharedTypeOK
  BY TypeInvTypes DEF CallTypeOK
<1> USE DEF CallTypeOK, SharedTypeOK, streamVars
<1>1. ASSUME NEW d \in Calls, FindOrCreateStream(d)
      PROVE  c \in controllers[s] /\ status[s] = "open"
  <2>1. controllers' = controllers /\ c \in Calls /\ at[c] = s /\ c \in Threads
    BY <1>1 DEF FindOrCreateStream, EnteredInv, Threads
  <2>2. status[s] # "new"
    BY <2>1 DEF ClosedInv, StreamOK
  <2>3. status'[s] = status[s]
    BY <1>1, <2>2 DEF FindOrCreateStream, NewStreams, NewStream
  <2> QED
    BY <2>1, <2>3
<1>2. ASSUME NEW t \in Threads, CloseBroken(t)
      PROVE  c \in controllers[s] /\ status[s] = "open"
  BY <1>2 DEF CloseBroken
<1>3. ASSUME NEW t \in Workers, NEW r \in Streams, Close(t, r)
      PROVE  c \in controllers[s] /\ status[s] = "open"
  BY <1>3 DEF Close
<1>4. ASSUME NEW d \in Calls, ContinueCall(d)
      PROVE  (c \in controllers[s] /\ status[s] = "open") \/ InsertController(c)
  <2>1. CASE InsertController(d)
    <3>1. controllers' = [controllers EXCEPT ![at[d]] = @ \cup {d}] /\ UNCHANGED status
      BY <2>1 DEF InsertController
    <3>2. c \in controllers[s] \/ c = d
      BY <3>1
    <3> QED
      BY <2>1, <3>1, <3>2
  <2>2. CASE ~InsertController(d)
    BY <1>4, <2>2 DEF ContinueCall, AddTimeout, CheckClosed, CheckSend, PutIntoQueue
  <2> QED
    BY <2>1, <2>2
<1>5. ASSUME NEW t \in Threads, DoneStep(t)
      PROVE  c \in controllers[s] /\ status[s] = "open"
  BY <1>5 DEF DoneStep, Done, DoneCallbacks
<1>6. ASSUME NEW t \in Threads, OnSendFailed(t) \/ CheckDone(t) \/ SwapControllers(t)
                                \/ OnClosed(t) \/ \E d \in Calls : EndCall(t, d)
      PROVE  c \in controllers[s] /\ status[s] = "open"
  BY <1>6 DEF OnSendFailed, CheckDone, SwapControllers, OnClosed, EndCall
<1>7. ASSUME NEW t \in Workers, NEW r \in Streams, NEW d \in Calls,
             OnSending(t, r, d) \/ OnWriteError(t, r, d) \/ OnReceived(t, r, d)
      PROVE  c \in controllers[s] /\ status[s] = "open"
  BY <1>7 DEF OnSending, OnWriteError, OnReceived
<1>8. ASSUME TimerRun
      PROVE  c \in controllers[s] /\ status[s] = "open"
  BY <1>8 DEF TimerRun, SwapAddList, Merge, NotifyTimeout, EraseRequest, EndTimerRun
<1>9. CASE UNCHANGED vars
  BY <1>9 DEF vars
<1> QED
  BY <1>1, <1>2, <1>3, <1>4, <1>5, <1>6, <1>7, <1>8, <1>9 DEF Next, CallMethod, StreamStep, Handler

\* Who ends a call, but for the timer, has taken it from the controller map of
\* its stream, unless that is closed.
TakenOK(t) ==
    t \in Calls \cup Workers /\ pc[t] \in {"received"} \cup DoneSteps =>
        \A s \in Streams : status[s] = "open" => on[t] \notin controllers[s]

TakenInv == \A t \in Threads : TakenOK(t)

LEMMA TakenKept ==
    ASSUME TypeInv, EnteredInv, ClosedInv, TakenInv, [Next]_vars, NEW t \in Threads, Only(t),
           TakenOK(t)'
    PROVE  TakenInv'
<1> SUFFICES ASSUME NEW u \in Calls \cup Workers, u # t, pc'[u] \in {"received"} \cup DoneSteps,
                    NEW s \in Streams, status'[s] = "open", on'[u] \in controllers'[s]
             PROVE  FALSE
  BY DEF TakenInv, TakenOK
<1> CallTypeOK /\ u \in Threads
  BY TypeInvTypes DEF Threads
<1>1. pc'[u] = pc[u] /\ on'[u] = on[u]
  BY DEF Only, CallTypeOK
<1>2. ~InsertController(on[u])
  <2>1. on[u] \in Entered
    <3>1. CASE u \in Calls
      BY <1>1, <3>1 DEF TypeInv, ThreadsOK, ThreadOK, UserOK, CallSteps, Entered, DoneSteps
    <3>2. CASE u \in Workers
      BY <1>1, <3>2 DEF EnteredInv, NeedsCall, DoneSteps
    <3> QED
      BY <3>1, <3>2
  <2> QED
    BY <2>1 DEF InsertController, At, Entered, DoneSteps
<1>3. on[u] \in controllers[s] /\ status[s] = "open"
  BY <1>1, <1>2, ControllersKept
<1> QED
  BY <1>1, <1>3 DEF TakenInv, TakenOK

LEMMA TakenStep == TypeInv /\ EnteredInv /\ ClosedInv /\ TakenInv /\ [Next]_vars => TakenInv'
<1> SUFFICES ASSUME TypeInv, EnteredInv, ClosedInv, TakenInv, [Next]_vars
             PROVE  TakenInv'
  OBVIOUS
<1> CallTypeOK /\ SharedTypeOK
  BY TypeInvTypes DEF CallTypeOK
<1>a. Calls \cap Workers = {} /\ Timer \notin Calls /\ Timer \notin Workers
  BY CallAssumption
<1>b. \A t \in Threads : ThreadOK(t)
  BY DEF TypeInv, ThreadsOK
<1>c. \A s \in Streams : status'[s] = "open" =>
          \A c \in controllers'[s] :
              (c \in controllers[s] /\ status[s] = "open") \/ InsertController(c)
  BY ControllersKept
<1>d. \A s \in Streams : \A c \in controllers[s] : c \in Entered /\ at[c] = s
  BY DEF EnteredInv
<1> USE DEF CallTypeOK, SharedTypeOK, At, Goto, CallDone, streamVars, callVars, timeoutVars,
        Threads, DoneSteps, Returns, Steps, ThreadOK, UserOK, WorkerOK, TimerOK
<1>1. ASSUME NEW c \in Calls, FindOrCreateStream(c)
      PROVE  TakenInv'
  <2>1. Only(c)
    BY <1>1 DEF FindOrCreateStream, Only
  <2>2. TakenOK(c)'
    BY <1>1, <1>a, <1>b, <1>c, <1>d DEF FindOrCreateStream, TakenInv, TakenOK, InsertController,
       Entered
  <2> QED
    BY <1>a, <2>1, <2>2, TakenKept
<1>2. ASSUME NEW c \in Calls, AddTimeout(c)
      PROVE  TakenInv'
  <2>1. Only(c)
    BY <1>2 DEF AddTimeout, Only
  <2>2. c \notin Entered /\ UNCHANGED <<controllers, status>> /\ on'[c] = c
    BY <1>2, <1>a DEF AddTimeout, Entered
  <2>3. TakenOK(c)'
    BY <1>a, <1>d, <2>2 DEF TakenOK
  <2> QED
    BY <1>a, <2>1, <2>3, TakenKept
<1>3. ASSUME NEW c \in Calls, CheckClosed(c)
      PROVE  TakenInv'
  <2>1. Only(c)
    BY <1>3 DEF CheckClosed, Only
  <2>2. TakenOK(c)'
    BY <1>3, <1>a, <1>b, <1>c, <1>d DEF CheckClosed, TakenInv, TakenOK, InsertController, Entered
  <2> QED
    BY <1>a, <2>1, <2>2, TakenKept
<1>4. ASSUME NEW c \in Calls, CheckSend(c)
      PROVE  TakenInv'
  <2>1. Only(c)
    BY <1>4 DEF CheckSend, Only
  <2>2. TakenOK(c)'
    BY <1>4, <1>a, <1>b, <1>c, <1>d DEF CheckSend, TakenInv, TakenOK, InsertController, Entered
  <2> QED
    BY <1>a, <2>1, <2>2, TakenKept
<1>5. ASSUME NEW c \in Calls, InsertController(c)
      PROVE  TakenInv'
  <2>1. Only(c)
    BY <1>5 DEF InsertController, Only
  <2>2. TakenOK(c)'
    BY <1>5, <1>a, <1>b, <1>c, <1>d DEF InsertController, TakenInv, TakenOK, Entered
  <2> QED
    BY <1>a, <2>1, <2>2, TakenKept
<1>6. ASSUME NEW c \in Calls, PutIntoQueue(c)
      PROVE  TakenInv'
  <2>1. Only(c)
    BY <1>6 DEF PutIntoQueue, Only
  <2>2. TakenOK(c)'
    BY <1>6, <1>a, <1>b, <1>c, <1>d DEF PutIntoQueue, TakenInv, TakenOK, InsertController, Entered
  <2> QED
    BY <1>a, <2>1, <2>2, TakenKept
<1>7. ASSUME NEW t \in Threads, Done(t)
      PROVE  TakenInv'
  <2>1. Only(t)
    BY <1>7 DEF Done, Return, InsertController, Only
  <2>2. TakenOK(t)'
    BY <1>7, <1>a, <1>b, <1>c, <1>d DEF Done, Return, InsertController, TakenInv, TakenOK
  <2> QED
    BY <1>a, <2>1, <2>2, TakenKept
<1>8. ASSUME NEW t \in Threads, DoneCallbacks(t)
      PROVE  TakenInv'
  <2>1. Only(t)
    BY <1>8 DEF DoneCallbacks, Return, InsertController, Only
  <2>2. TakenOK(t)'
    BY <1>8, <1>a, <1>b, <1>c, <1>d DEF DoneCallbacks, Return, InsertController, TakenInv, TakenOK
  <2> QED
    BY <1>a, <2>1, <2>2, TakenKept
<1>9. ASSUME NEW t \in Threads, OnSendFailed(t)
      PROVE  TakenInv'
  <2>1. Only(t)
    BY <1>9 DEF OnSendFailed, InsertController, Only
  <2>2. TakenOK(t)'
    BY <1>9, <1>a, <1>b, <1>c, <1>d DEF OnSendFailed, InsertController, TakenInv, TakenOK
  <2> QED
    BY <1>a, <2>1, <2>2, TakenKept
<1>10. ASSUME NEW t \in Threads, CheckDone(t)
      PROVE  TakenInv'
  <2>1. Only(t)
    BY <1>10 DEF CheckDone, InsertController, Only
  <2>2. TakenOK(t)'
    BY <1>10, <1>a, <1>b, <1>c, <1>d DEF CheckDone, InsertController, TakenInv, TakenOK
  <2> QED
    BY <1>a, <2>1, <2>2, TakenKept
<1>11. ASSUME NEW t \in Threads, CloseBroken(t)
      PROVE  TakenInv'
  <2>1. Only(t)
    BY <1>11 DEF CloseBroken, InsertController, Only
  <2>2. TakenOK(t)'
    BY <1>11, <1>a, <1>b, <1>c, <1>d DEF CloseBroken, InsertController, TakenInv, TakenOK
  <2> QED
    BY <1>a, <2>1, <2>2, TakenKept
<1>12. ASSUME NEW t \in Threads, OnClosed(t)
      PROVE  TakenInv'
  <2>1. Only(t)
    BY <1>12 DEF OnClosed, InsertController, Only
  <2>2. TakenOK(t)'
    BY <1>12, <1>a, <1>b, <1>c, <1>d DEF OnClosed, InsertController, TakenInv, TakenOK
  <2> QED
    BY <1>a, <2>1, <2>2, TakenKept
<1>13. ASSUME NEW t \in Threads, SwapControllers(t)
      PROVE  TakenInv'
  <2>1. Only(t)
    BY <1>13 DEF SwapControllers, InsertController, Only
  <2>2. TakenOK(t)'
    BY <1>13, <1>a, <1>b, <1>c, <1>d DEF SwapControllers, InsertController, TakenInv, TakenOK
  <2> QED
    BY <1>a, <2>1, <2>2, TakenKept
<1>14. ASSUME NEW t \in Threads, NEW c \in Calls, EndCall(t, c)
      PROVE  TakenInv'
  <2>1. Only(t)
    BY <1>14 DEF EndCall, Only
  <2>2. /\ c \in todo[t] /\ UNCHANGED <<controllers, status>>
        /\ t \in Calls \cup Workers => t \in Workers /\ on'[t] = c
    BY <1>14, <1>a, <1>b DEF EndCall, CallSteps
  <2>3. TakenOK(t)'
    BY <1>d, <2>2 DEF TakenOK, ClosedInv, StreamOK
  <2> QED
    BY <2>1, <2>3, TakenKept
<1>15. ASSUME NEW t \in Workers, NEW s \in Streams, Close(t, s)
      PROVE  TakenInv'
  <2>1. Only(t)
    BY <1>15 DEF Close, InsertController, Only
  <2>2. TakenOK(t)'
    BY <1>15, <1>a, <1>b, <1>c, <1>d DEF Close, InsertController, TakenInv, TakenOK
  <2> QED
    BY <1>a, <2>1, <2>2, TakenKept
<1>16. ASSUME NEW t \in Workers, NEW s \in Streams, NEW c \in Calls, OnSending(t, s, c)
      PROVE  TakenInv'
  <2>1. Only(t)
    BY <1>16 DEF OnSending, InsertController, Only
  <2>2. TakenOK(t)'
    BY <1>16, <1>a, <1>b, <1>c, <1>d DEF OnSending, InsertController, TakenInv, TakenOK
  <2> QED
    BY <1>a, <2>1, <2>2, TakenKept
<1>17. ASSUME NEW t \in Workers, NEW s \in Streams, NEW c \in Calls, OnWriteError(t, s, c)
      PROVE  TakenInv'
  <2>1. Only(t)
    BY <1>17 DEF OnWriteError, InsertController, Only
  <2>2. TakenOK(t)'
    BY <1>17, <1>a, <1>b, <1>c, <1>d DEF OnWriteError, InsertController, TakenInv, TakenOK
  <2> QED
    BY <1>a, <2>1, <2>2, TakenKept
<1>18. ASSUME NEW t \in Workers, NEW s \in Streams, NEW c \in Calls, OnReceived(t, s, c)
      PROVE  TakenInv'
  <2>1. Only(t)
    BY <1>18 DEF OnReceived, InsertController, Only
  <2>2. TakenOK(t)'
    BY <1>18, <1>a, <1>b, <1>c, <1>d DEF OnReceived, InsertController, TakenInv, TakenOK
  <2> QED
    BY <1>a, <2>1, <2>2, TakenKept
<1>19. ASSUME SwapAddList \/ EraseRequest \/ EndTimerRun
      PROVE  TakenInv'
  <2>1. Only(Timer)
    BY <1>19 DEF SwapAddList, EraseRequest, EndTimerRun, Only
  <2>2. TakenOK(Timer)'
    BY <1>19, <1>a, <1>b, <1>c, <1>d DEF SwapAddList, EraseRequest, EndTimerRun, TakenInv, TakenOK
  <2> QED
    BY <1>a, <2>1, <2>2, TakenKept
<1>20. ASSUME NEW expired \in SUBSET Calls, Merge(expired)
      PROVE  TakenInv'
  <2>1. Only(Timer)
    BY <1>20 DEF Merge, Only
  <2>2. TakenOK(Timer)'
    BY <1>20, <1>a, <1>b, <1>c, <1>d DEF Merge, TakenInv, TakenOK
  <2> QED
    BY <1>a, <2>1, <2>2, TakenKept
<1>21. ASSUME NEW c \in Calls, NotifyTimeout(c)
      PROVE  TakenInv'
  <2>1. Only(Timer)
    BY <1>21 DEF NotifyTimeout, Only
  <2>2. TakenOK(Timer)'
    BY <1>21, <1>a, <1>b, <1>c, <1>d DEF NotifyTimeout, TakenInv, TakenOK
  <2> QED
    BY <1>a, <2>1, <2>2, TakenKept
<1>22. ASSUME UNCHANGED vars
      PROVE  TakenInv'
  BY <1>22 DEF TakenInv, TakenOK, vars, threadVars
<1> QED
  BY <1>1, <1>2, <1>3, <1>4, <1>5, <1>6, <1>7, <1>8, <1>9, <1>10, <1>11, <1>12, <1>13, <1>14,
     <1>15, <1>16, <1>17, <1>18, <1>19, <1>20, <1>21, <1>22
     DEF Next, CallMethod, ContinueCall, DoneStep, StreamStep, Handler, TimerRun

\* A call that has ended but is in the controller map is about to leave it: its
\* user is inserting or sending it, somebody takes it back, or the timer will
\* erase it.
TakesOut(t, c) ==
    \/ t = c /\ pc[t] \in {"send", "put"}
    \/ on[t] = c /\ pc[t] = "send_failed"
    \/ t = Timer /\ on[t] = c /\ pc[t] \in {"done", "callbacks", "erase_request"}

Leaving(s, c) == c \in queued[s] \/ \E t \in Threads : TakesOut(t, c)

LeavingInv ==
    \A s \in Streams : status[s] = "open" =>
        \A c \in controllers[s] : done[c] => Leaving(s, c)

\* A step of thread t is all that can change this.
LEMMA LeavingFrame ==
    ASSUME TypeInv, NEW t \in Threads, Only(t), NEW s \in Streams, NEW c \in Calls, Leaving(s, c),
           c \in queued[s] \/ TakesOut(t, c) => c \in queued'[s] \/ TakesOut(t, c)'
    PROVE  Leaving(s, c)'
<1> CallTypeOK
  BY TypeInvTypes
<1>1. ASSUME NEW u \in Threads, u # t, TakesOut(u, c)
      PROVE  TakesOut(u, c)'
  BY <1>1 DEF TakesOut, Only, CallTypeOK
<1> QED
  BY <1>1 DEF Leaving

\* It stays so until it has left.
LEMMA LeavingKept ==
    ASSUME TypeInv, [Next]_vars, NEW r \in Streams, NEW d \in Calls, at[d] = r, d \in Entered,
           done[d], Leaving(r, d), d \in controllers'[r]
    PROVE  Leaving(r, d)'
<1> CallTypeOK /\ SharedTypeOK
  BY TypeInvTypes DEF CallTypeOK
<1>a. Calls \cap Workers = {} /\ Timer \notin Calls /\ Timer \notin Workers
  BY CallAssumption
<1>b. \A t \in Threads : ThreadOK(t)
  BY DEF TypeInv, ThreadsOK
<1> USE DEF CallTypeOK, SharedTypeOK, At, Goto, CallDone, streamVars, callVars, timeoutVars,
        Threads, DoneSteps, Returns, Steps, ThreadOK, UserOK, WorkerOK, TimerOK
<1>1. ASSUME NEW c \in Calls, FindOrCreateStream(c)
      PROVE  Leaving(r, d)'
  <2>1. Only(c)
    BY <1>1 DEF FindOrCreateStream, Only
  <2>2. d \in queued[r] \/ TakesOut(c, d) => d \in queued'[r] \/ TakesOut(c, d)'
    BY <1>1, <1>a, <1>b DEF FindOrCreateStream, TakesOut, Entered
  <2> QED
    BY <1>a, <2>1, <2>2, LeavingFrame
<1>2. ASSUME NEW c \in Calls, AddTimeout(c)
      PROVE  Leaving(r, d)'
  <2>1. Only(c)
    BY <1>2 DEF AddTimeout, Only
  <2>2. d \in queued[r] \/ TakesOut(c, d) => d \in queued'[r] \/ TakesOut(c, d)'
    BY <1>2, <1>a, <1>b DEF AddTimeout, TakesOut, Entered
  <2> QED
    BY <1>a, <2>1, <2>2, LeavingFrame
<1>3. ASSUME NEW c \in Calls, CheckClosed(c)
      PROVE  Leaving(r, d)'
  <2>1. Only(c)
    BY <1>3 DEF CheckClosed, Only
  <2>2. d \in queued[r] \/ TakesOut(c, d) => d \in queued'[r] \/ TakesOut(c, d)'
    BY <1>3, <1>a, <1>b DEF CheckClosed, TakesOut, Entered
  <2> QED
    BY <1>a, <2>1, <2>2, LeavingFrame
<1>4. ASSUME NEW c \in Calls, CheckSend(c)
      PROVE  Leaving(r, d)'
  <2>1. Only(c)
    BY <1>4 DEF CheckSend, Only
  <2>2. d \in queued[r] \/ TakesOut(c, d) => d \in queued'[r] \/ TakesOut(c, d)'
    BY <1>4, <1>a, <1>b DEF CheckSend, TakesOut, Entered
  <2> QED
    BY <1>a, <2>1, <2>2, LeavingFrame
<1>5. ASSUME NEW c \in Calls, InsertController(c)
      PROVE  Leaving(r, d)'
  <2>1. Only(c)
    BY <1>5 DEF InsertController, Only
  <2>2. d \in queued[r] \/ TakesOut(c, d) => d \in queued'[r] \/ TakesOut(c, d)'
    BY <1>5, <1>a, <1>b DEF InsertController, TakesOut, Entered
  <2> QED
    BY <1>a, <2>1, <2>2, LeavingFrame
<1>6. ASSUME NEW c \in Calls, PutIntoQueue(c)
      PROVE  Leaving(r, d)'
  <2>1. Only(c)
    BY <1>6 DEF PutIntoQueue, Only
  <2>2. d \in queued[r] \/ TakesOut(c, d) => d \in queued'[r] \/ TakesOut(c, d)'
    BY <1>6, <1>a, <1>b DEF PutIntoQueue, TakesOut, Entered
  <2> QED
    BY <1>a, <2>1, <2>2, LeavingFrame
<1>7. ASSUME NEW t \in Threads, Done(t)
      PROVE  Leaving(r, d)'
  <2>1. Only(t)
    BY <1>7 DEF Done, Return, Only
  <2>2. d \in queued[r] \/ TakesOut(t, d) => d \in queued'[r] \/ TakesOut(t, d)'
    BY <1>7, <1>a, <1>b DEF Done, Return, TakesOut
  <2> QED
    BY <1>a, <2>1, <2>2, LeavingFrame
<1>8. ASSUME NEW t \in Threads, DoneCallbacks(t)
      PROVE  Leaving(r, d)'
  <2>1. Only(t)
    BY <1>8 DEF DoneCallbacks, Return, Only
  <2>2. d \in queued[r] \/ TakesOut(t, d) => d \in queued'[r] \/ TakesOut(t, d)'
    BY <1>8, <1>a, <1>b DEF DoneCallbacks, Return, TakesOut
  <2> QED
    BY <1>a, <2>1, <2>2, LeavingFrame
<1>9. ASSUME NEW t \in Threads, OnSendFailed(t)
      PROVE  Leaving(r, d)'
  <2>1. Only(t)
    BY <1>9 DEF OnSendFailed, Only
  <2>2. d \in queued[r] \/ TakesOut(t, d) => d \in queued'[r] \/ TakesOut(t, d)'
    BY <1>9, <1>a, <1>b DEF OnSendFailed, TakesOut
  <2> QED
    BY <1>a, <2>1, <2>2, LeavingFrame
<1>10. ASSUME NEW t \in Threads, CheckDone(t)
      PROVE  Leaving(r, d)'
  <2>1. Only(t)
    BY <1>10 DEF CheckDone, Only
  <2>2. d \in queued[r] \/ TakesOut(t, d) => d \in queued'[r] \/ TakesOut(t, d)'
    BY <1>10, <1>a, <1>b DEF CheckDone, TakesOut
  <2> QED
    BY <1>a, <2>1, <2>2, LeavingFrame
<1>11. ASSUME NEW t \in Threads, CloseBroken(t)
      PROVE  Leaving(r, d)'
  <2>1. Only(t)
    BY <1>11 DEF CloseBroken, Only
  <2>2. d \in queued[r] \/ TakesOut(t, d) => d \in queued'[r] \/ TakesOut(t, d)'
    BY <1>11, <1>a, <1>b DEF CloseBroken, TakesOut
  <2> QED
    BY <1>a, <2>1, <2>2, LeavingFrame
<1>12. ASSUME NEW t \in Threads, OnClosed(t)
      PROVE  Leaving(r, d)'
  <2>1. Only(t)
    BY <1>12 DEF OnClosed, Only
  <2>2. d \in queued[r] \/ TakesOut(t, d) => d \in queued'[r] \/ TakesOut(t, d)'
    BY <1>12, <1>a, <1>b DEF OnClosed, TakesOut
  <2> QED
    BY <1>a, <2>1, <2>2, LeavingFrame
<1>13. ASSUME NEW t \in Threads, SwapControllers(t)
      PROVE  Leaving(r, d)'
  <2>1. Only(t)
    BY <1>13 DEF SwapControllers, Only
  <2>2. d \in queued[r] \/ TakesOut(t, d) => d \in queued'[r] \/ TakesOut(t, d)'
    BY <1>13, <1>a, <1>b DEF SwapControllers, TakesOut
  <2> QED
    BY <1>a, <2>1, <2>2, LeavingFrame
<1>14. ASSUME NEW t \in Threads, NEW c \in Calls, EndCall(t, c)
      PROVE  Leaving(r, d)'
  <2>1. Only(t)
    BY <1>14 DEF EndCall, Only
  <2>2. d \in queued[r] \/ TakesOut(t, d) => d \in queued'[r] \/ TakesOut(t, d)'
    BY <1>14, <1>a, <1>b DEF EndCall, TakesOut
  <2> QED
    BY <1>a, <2>1, <2>2, LeavingFrame
<1>15. ASSUME NEW t \in Workers, NEW s \in Streams, Close(t, s)
      PROVE  Leaving(r, d)'
  <2>1. Only(t)
    BY <1>15 DEF Close, Only
  <2>2. d \in queued[r] \/ TakesOut(t, d) => d \in queued'[r] \/ TakesOut(t, d)'
    BY <1>15, <1>a, <1>b DEF Close, TakesOut
  <2> QED
    BY <1>a, <2>1, <2>2, LeavingFrame
<1>16. ASSUME NEW t \in Workers, NEW s \in Streams, NEW c \in Calls, OnSending(t, s, c)
      PROVE  Leaving(r, d)'
  <2>1. Only(t)
    BY <1>16 DEF OnSending, Only
  <2>2. d \in queued[r] \/ TakesOut(t, d) => d \in queued'[r] \/ TakesOut(t, d)'
    BY <1>16, <1>a, <1>b DEF OnSending, TakesOut
  <2> QED
    BY <1>a, <2>1, <2>2, LeavingFrame
<1>17. ASSUME NEW t \in Workers, NEW s \in Streams, NEW c \in Calls, OnWriteError(t, s, c)
      PROVE  Leaving(r, d)'
  <2>1. Only(t)
    BY <1>17 DEF OnWriteError, Only
  <2>2. d \in queued[r] \/ TakesOut(t, d) => d \in queued'[r] \/ TakesOut(t, d)'
    BY <1>17, <1>a, <1>b DEF OnWriteError, TakesOut
  <2> QED
    BY <1>a, <2>1, <2>2, LeavingFrame
<1>18. ASSUME NEW t \in Workers, NEW s \in Streams, NEW c \in Calls, OnReceived(t, s, c)
      PROVE  Leaving(r, d)'
  <2>1. Only(t)
    BY <1>18 DEF OnReceived, Only
  <2>2. d \in queued[r] \/ TakesOut(t, d) => d \in queued'[r] \/ TakesOut(t, d)'
    BY <1>18, <1>a, <1>b DEF OnReceived, TakesOut
  <2> QED
    BY <1>a, <2>1, <2>2, LeavingFrame
<1>19. ASSUME SwapAddList \/ EraseRequest \/ EndTimerRun
      PROVE  Leaving(r, d)'
  <2>1. Only(Timer)
    BY <1>19 DEF SwapAddList, EraseRequest, EndTimerRun, Only
  <2>2. d \in queued[r] \/ TakesOut(Timer, d) => d \in queued'[r] \/ TakesOut(Timer, d)'
    BY <1>19, <1>a, <1>b DEF SwapAddList, EraseRequest, EndTimerRun, TakesOut
  <2> QED
    BY <1>a, <2>1, <2>2, LeavingFrame
<1>20. ASSUME NEW expired \in SUBSET Calls, Merge(expired)
      PROVE  Leaving(r, d)'
  <2>1. Only(Timer)
    BY <1>20 DEF Merge, Only
  <2>2. d \in queued[r] \/ TakesOut(Timer, d) => d \in queued'[r] \/ TakesOut(Timer, d)'
    BY <1>20, <1>a, <1>b DEF Merge, TakesOut
  <2> QED
    BY <1>a, <2>1, <2>2, LeavingFrame
<1>21. ASSUME NEW c \in Calls, NotifyTimeout(c)
      PROVE  Leaving(r, d)'
  <2>1. Only(Timer)
    BY <1>21 DEF NotifyTimeout, Only
  <2>2. d \in queued[r] \/ TakesOut(Timer, d) => d \in queued'[r] \/ TakesOut(Timer, d)'
    BY <1>21, <1>a, <1>b DEF NotifyTimeout, TakesOut
  <2> QED
    BY <1>a, <2>1, <2>2, LeavingFrame
<1>22. ASSUME UNCHANGED vars
      PROVE  Leaving(r, d)'
  BY <1>22 DEF Leaving, TakesOut, vars, threadVars
<1> QED
  BY <1>1, <1>2, <1>3, <1>4, <1>5, <1>6, <1>7, <1>8, <1>9, <1>10, <1>11, <1>12, <1>13, <1>14,
     <1>15, <1>16, <1>17, <1>18, <1>19, <1>20, <1>21, <1>22
     DEF Next, CallMethod, ContinueCall, DoneStep, StreamStep, Handler, TimerRun

LEMMA LeavingStep ==
    TypeInv /\ EnteredInv /\ ClosedInv /\ TakenInv /\ LeavingInv /\ [Next]_vars => LeavingInv'
<1> SUFFICES ASSUME TypeInv, EnteredInv, ClosedInv, TakenInv, LeavingInv, [Next]_vars,
                    NEW s \in Streams, status'[s] = "open", NEW c \in controllers'[s], done'[c]
             PROVE  Leaving(s, c)'
  BY DEF LeavingInv
<1> CallTypeOK /\ SharedTypeOK
  BY TypeInvTypes DEF CallTypeOK
<1>1. CASE InsertController(c)
  <2>1. c \in Calls
    BY TypeStep DEF TypeInv, SharedTypeOK
  <2>2. pc'[c] = "send"
    BY <1>1, <2>1 DEF InsertController, Goto, CallTypeOK, Threads
  <2> QED
    BY <2>1, <2>2 DEF Leaving, TakesOut, Threads
<1>2. CASE c \in controllers[s] /\ status[s] = "open"
  <2>1. c \in Entered /\ at[c] = s /\ c \in Calls
    BY <1>2 DEF EnteredInv, SharedTypeOK
  <2>2. CASE done[c]
    BY <1>2, <2>1, <2>2, LeavingKept DEF LeavingInv
  <2>3. CASE ~done[c]
    <3>1. PICK t \in Threads : Done(t)
      <4>1. ~DoneFrame
        BY <2>3 DEF DoneFrame
      <4>2. \A t \in Threads : ~DoneCallbacks(t)
        BY <2>3 DEF DoneCallbacks
      <4> QED
        BY <4>1, <4>2, NextCases, OtherStepFrame
    <3>2. on[t] = c /\ pc[t] = "done" /\ pc' = [pc EXCEPT ![t] = "callbacks"] /\ on' = on
      BY <2>1, <2>3, <3>1 DEF Done, At, Goto, SharedTypeOK
    <3>3. t = Timer
      BY <1>2, <3>2 DEF TakenInv, TakenOK, Threads, DoneSteps
    <3> QED
      BY <3>2, <3>3 DEF Leaving, TakesOut, CallTypeOK
  <2> QED
    BY <2>2, <2>3
<1> QED
  BY <1>1, <1>2, ControllersKept

\* A call that is not done is held by a thread that will end it: its user, who
\* is still making it; one that has the call, or takes it from the controller
\* map of a stream that is closed. A call that is done is held by the thread
\* that runs its callbacks.
HeldBy(t, c) ==
    \/ on[t] = c /\ pc[t] = "callbacks"
    \/ /\ ~done[c]
       /\ \/ t = c /\ pc[t] \in {"add", "call_method", "insert"}
          \/ on[t] = c /\ pc[t] \in {"send_failed", "received", "done"}
          \/ c \in todo[t]
          \/ /\ at[c] \in Streams /\ c \in controllers[at[c]]
             /\ \/ t = c /\ pc[t] = "send"
                \/ t \in Workers /\ pc[t] = "on_closed" /\ at[t] = at[c]

\* Else it is in the controller map of a usable stream.
InUse(c) ==
    ~done[c] /\ at[c] \in Streams /\ c \in controllers[at[c]] /\ status[at[c]] = "open"

Held(c) == InUse(c) \/ \E t \in Threads : HeldBy(t, c)

HeldInv ==
    /\ \A c \in Calls : pc[c] # "call" /\ notified[c] = 0 => Held(c)
    /\ pc[Timer] = "erase_request" => done[on[Timer]]

\* A step of thread t is all that can change this.
LEMMA HeldFrame ==
    ASSUME TypeInv, NEW t \in Threads, Only(t), NEW c \in Calls, Held(c),
           \/ InUse(c)' \/ HeldBy(t, c)'
           \/ /\ done'[c] = done[c] /\ at'[c] = at[c]
              /\ ~done[c] /\ at[c] \in Streams /\ c \in controllers[at[c]] =>
                    c \in controllers'[at[c]]
              /\ ~InUse(c) /\ ~HeldBy(t, c)
    PROVE  Held(c)'
<1> CallTypeOK
  BY TypeInvTypes
<1>1. CASE InUse(c)' \/ HeldBy(t, c)'
  BY <1>1 DEF Held
<1>2. CASE ~(InUse(c)' \/ HeldBy(t, c)')
  <2>1. PICK u \in Threads \ {t} : HeldBy(u, c)
    BY <1>2 DEF Held
  <2>2. HeldBy(u, c)'
    BY <1>2, <2>1 DEF HeldBy, Only, CallTypeOK
  <2> QED
    BY <2>2 DEF Held
<1> QED
  BY <1>1, <1>2

LEMMA HeldKept ==
    ASSUME TypeInv, DoneInv, EnteredInv, TodoInv, HeldInv, [Next]_vars, NEW d \in Calls,
           pc[d] # "call", notified'[d] = 0, Held(d)
    PROVE  Held(d)'
<1> CallTypeOK /\ SharedTypeOK
  BY TypeInvTypes DEF CallTypeOK
<1>a. Calls \cap Workers = {} /\ Timer \notin Calls /\ Timer \notin Workers
  BY CallAssumption
<1>b. \A t \in Threads : ThreadOK(t)
  BY DEF TypeInv, ThreadsOK
<1> USE DEF CallTypeOK, SharedTypeOK, At, Goto, CallDone, streamVars, callVars, timeoutVars,
        Threads, DoneSteps, Returns, Steps, ThreadOK, UserOK, WorkerOK, TimerOK, NeedsStream
<1>1. ASSUME NEW c \in Calls, FindOrCreateStream(c)
      PROVE  Held(d)'
  <2>1. Only(c)
    BY <1>1 DEF FindOrCreateStream, Only
  <2>2. \/ InUse(d)' \/ HeldBy(c, d)'
        \/ /\ done'[d] = done[d] /\ at'[d] = at[d]
           /\ ~done[d] /\ at[d] \in Streams /\ d \in controllers[at[d]] =>
                 d \in controllers'[at[d]]
           /\ ~InUse(d) /\ ~HeldBy(c, d)
    BY <1>1, <1>a, <1>b DEF FindOrCreateStream, InUse, HeldBy
  <2> QED
    BY <1>a, <2>1, <2>2, HeldFrame
<1>2. ASSUME NEW c \in Calls, AddTimeout(c)
      PROVE  Held(d)'
  <2>1. Only(c)
    BY <1>2 DEF AddTimeout, Only
  <2>2. \/ InUse(d)' \/ HeldBy(c, d)'
        \/ /\ done'[d] = done[d] /\ at'[d] = at[d]
           /\ ~done[d] /\ at[d] \in Streams /\ d \in controllers[at[d]] =>
                 d \in controllers'[at[d]]
           /\ ~InUse(d) /\ ~HeldBy(c, d)
    BY <1>2, <1>a, <1>b DEF AddTimeout, InUse, HeldBy
  <2> QED
    BY <1>a, <2>1, <2>2, HeldFrame
<1>3. ASSUME NEW c \in Calls, CheckClosed(c)
      PROVE  Held(d)'
  <2>1. Only(c)
    BY <1>3 DEF CheckClosed, Only
  <2>2. \/ InUse(d)' \/ HeldBy(c, d)'
        \/ /\ done'[d] = done[d] /\ at'[d] = at[d]
           /\ ~done[d] /\ at[d] \in Streams /\ d \in controllers[at[d]] =>
                 d \in controllers'[at[d]]
           /\ ~InUse(d) /\ ~HeldBy(c, d)
    BY <1>3, <1>a, <1>b DEF CheckClosed, InUse, HeldBy
  <2> QED
    BY <1>a, <2>1, <2>2, HeldFrame
<1>4. ASSUME NEW c \in Calls, CheckSend(c)
      PROVE  Held(d)'
  <2>1. Only(c)
    BY <1>4 DEF CheckSend, Only
  <2>2. \/ InUse(d)' \/ HeldBy(c, d)'
        \/ /\ done'[d] = done[d] /\ at'[d] = at[d]
           /\ ~done[d] /\ at[d] \in Streams /\ d \in controllers[at[d]] =>
                 d \in controllers'[at[d]]
           /\ ~InUse(d) /\ ~HeldBy(c, d)
    BY <1>4, <1>a, <1>b DEF CheckSend, InUse, HeldBy
  <2> QED
    BY <1>a, <2>1, <2>2, HeldFrame
<1>5. ASSUME NEW c \in Calls, InsertController(c)
      PROVE  Held(d)'
  <2>1. Only(c)
    BY <1>5 DEF InsertController, Only
  <2>2. \/ InUse(d)' \/ HeldBy(c, d)'
        \/ /\ done'[d] = done[d] /\ at'[d] = at[d]
           /\ ~done[d] /\ at[d] \in Streams /\ d \in controllers[at[d]] =>
                 d \in controllers'[at[d]]
           /\ ~InUse(d) /\ ~HeldBy(c, d)
    BY <1>5, <1>a, <1>b DEF InsertController, InUse, HeldBy
  <2> QED
    BY <1>a, <2>1, <2>2, HeldFrame
<1>6. ASSUME NEW c \in Calls, PutIntoQueue(c)
      PROVE  Held(d)'
  <2>1. Only(c)
    BY <1>6 DEF PutIntoQueue, Only
  <2>2. \/ InUse(d)' \/ HeldBy(c, d)'
        \/ /\ done'[d] = done[d] /\ at'[d] = at[d]
           /\ ~done[d] /\ at[d] \in Streams /\ d \in controllers[at[d]] =>
                 d \in controllers'[at[d]]
           /\ ~InUse(d) /\ ~HeldBy(c, d)
    BY <1>6, <1>a, <1>b DEF PutIntoQueue, InUse, HeldBy
  <2> QED
    BY <1>a, <2>1, <2>2, HeldFrame
<1>7. ASSUME NEW t \in Threads, Done(t)
      PROVE  Held(d)'
  <2>1. Only(t)
    BY <1>7 DEF Done, Return, Only
  <2>2. \/ InUse(d)' \/ HeldBy(t, d)'
        \/ /\ done'[d] = done[d] /\ at'[d] = at[d]
           /\ ~done[d] /\ at[d] \in Streams /\ d \in controllers[at[d]] =>
                 d \in controllers'[at[d]]
           /\ ~InUse(d) /\ ~HeldBy(t, d)
    BY <1>7, <1>a, <1>b DEF Done, Return, InUse, HeldBy
  <2> QED
    BY <1>a, <2>1, <2>2, HeldFrame
<1>8. ASSUME NEW t \in Threads, DoneCallbacks(t)
      PROVE  Held(d)'
  <2>1. Only(t)
    BY <1>8 DEF DoneCallbacks, Return, Only
  <2>2. \/ InUse(d)' \/ HeldBy(t, d)'
        \/ /\ done'[d] = done[d] /\ at'[d] = at[d]
           /\ ~done[d] /\ at[d] \in Streams /\ d \in controllers[at[d]] =>
                 d \in controllers'[at[d]]
           /\ ~InUse(d) /\ ~HeldBy(t, d)
    BY <1>8, <1>a, <1>b DEF DoneCallbacks, Return, InUse, HeldBy
  <2> QED
    BY <1>a, <2>1, <2>2, HeldFrame
<1>9. ASSUME NEW t \in Threads, OnSendFailed(t)
      PROVE  Held(d)'
  <2>1. Only(t)
    BY <1>9 DEF OnSendFailed, Only
  <2>2. \/ InUse(d)' \/ HeldBy(t, d)'
        \/ /\ done'[d] = done[d] /\ at'[d] = at[d]
           /\ ~done[d] /\ at[d] \in Streams /\ d \in controllers[at[d]] =>
                 d \in controllers'[at[d]]
           /\ ~InUse(d) /\ ~HeldBy(t, d)
    BY <1>9, <1>a, <1>b DEF OnSendFailed, InUse, HeldBy
  <2> QED
    BY <1>a, <2>1, <2>2, HeldFrame
<1>10. ASSUME NEW t \in Threads, CheckDone(t)
      PROVE  Held(d)'
  <2>1. Only(t)
    BY <1>10 DEF CheckDone, Only
  <2>2. \/ InUse(d)' \/ HeldBy(t, d)'
        \/ /\ done'[d] = done[d] /\ at'[d] = at[d]
           /\ ~done[d] /\ at[d] \in Streams /\ d \in controllers[at[d]] =>
                 d \in controllers'[at[d]]
           /\ ~InUse(d) /\ ~HeldBy(t, d)
    BY <1>10, <1>a, <1>b DEF CheckDone, InUse, HeldBy, TodoInv
  <2> QED
    BY <1>a, <2>1, <2>2, HeldFrame
<1>11. ASSUME NEW t \in Threads, CloseBroken(t)
      PROVE  Held(d)'
  <2>0. t \in Workers
    BY <1>11, <1>b DEF CloseBroken, CallSteps, TimerSteps
  <2>1. Only(t)
    BY <1>11 DEF CloseBroken, Only
  <2>2. \/ InUse(d)' \/ HeldBy(t, d)'
        \/ /\ done'[d] = done[d] /\ at'[d] = at[d]
           /\ ~done[d] /\ at[d] \in Streams /\ d \in controllers[at[d]] =>
                 d \in controllers'[at[d]]
           /\ ~InUse(d) /\ ~HeldBy(t, d)
    BY <1>11, <1>a, <1>b, <2>0 DEF CloseBroken, InUse, HeldBy
  <2> QED
    BY <1>a, <2>1, <2>2, HeldFrame
<1>12. ASSUME NEW t \in Threads, OnClosed(t)
      PROVE  Held(d)'
  <2>0. t \in Workers
    BY <1>12, <1>b DEF OnClosed, CallSteps, TimerSteps
  <2>1. Only(t)
    BY <1>12 DEF OnClosed, Only
  <2>2. \/ InUse(d)' \/ HeldBy(t, d)'
        \/ /\ done'[d] = done[d] /\ at'[d] = at[d]
           /\ ~done[d] /\ at[d] \in Streams /\ d \in controllers[at[d]] =>
                 d \in controllers'[at[d]]
           /\ ~InUse(d) /\ ~HeldBy(t, d)
    BY <1>12, <1>a, <1>b, <2>0 DEF OnClosed, InUse, HeldBy, TodoInv
  <2> QED
    BY <1>a, <2>1, <2>2, HeldFrame
<1>13. ASSUME NEW t \in Threads, SwapControllers(t)
      PROVE  Held(d)'
  <2>1. Only(t)
    BY <1>13 DEF SwapControllers, Only
  <2>2. \/ InUse(d)' \/ HeldBy(t, d)'
        \/ /\ done'[d] = done[d] /\ at'[d] = at[d]
           /\ ~done[d] /\ at[d] \in Streams /\ d \in controllers[at[d]] =>
                 d \in controllers'[at[d]]
           /\ ~InUse(d) /\ ~HeldBy(t, d)
    BY <1>13, <1>a, <1>b DEF SwapControllers, InUse, HeldBy, TodoInv
  <2> QED
    BY <1>a, <2>1, <2>2, HeldFrame
<1>14. ASSUME NEW t \in Threads, NEW c \in Calls, EndCall(t, c)
      PROVE  Held(d)'
  <2>1. Only(t)
    BY <1>14 DEF EndCall, Only
  <2>2. \/ InUse(d)' \/ HeldBy(t, d)'
        \/ /\ done'[d] = done[d] /\ at'[d] = at[d]
           /\ ~done[d] /\ at[d] \in Streams /\ d \in controllers[at[d]] =>
                 d \in controllers'[at[d]]
           /\ ~InUse(d) /\ ~HeldBy(t, d)
    BY <1>14, <1>a, <1>b DEF EndCall, InUse, HeldBy
  <2> QED
    BY <1>a, <2>1, <2>2, HeldFrame
<1>15. ASSUME NEW t \in Workers, NEW s \in Streams, Close(t, s)
      PROVE  Held(d)'
  <2>1. Only(t)
    BY <1>15 DEF Close, Only
  <2>2. \/ InUse(d)' \/ HeldBy(t, d)'
        \/ /\ done'[d] = done[d] /\ at'[d] = at[d]
           /\ ~done[d] /\ at[d] \in Streams /\ d \in controllers[at[d]] =>
                 d \in controllers'[at[d]]
           /\ ~InUse(d) /\ ~HeldBy(t, d)
    BY <1>15, <1>a, <1>b DEF Close, InUse, HeldBy, TodoInv
  <2> QED
    BY <1>a, <2>1, <2>2, HeldFrame
<1>16. ASSUME NEW t \in Workers, NEW s \in Streams, NEW c \in Calls, OnSending(t, s, c)
      PROVE  Held(d)'
  <2>1. Only(t)
    BY <1>16 DEF OnSending, Only
  <2>2. \/ InUse(d)' \/ HeldBy(t, d)'
        \/ /\ done'[d] = done[d] /\ at'[d] = at[d]
           /\ ~done[d] /\ at[d] \in Streams /\ d \in controllers[at[d]] =>
                 d \in controllers'[at[d]]
           /\ ~InUse(d) /\ ~HeldBy(t, d)
    BY <1>16, <1>a, <1>b DEF OnSending, InUse, HeldBy, TodoInv
  <2> QED
    BY <1>a, <2>1, <2>2, HeldFrame
<1>17. ASSUME NEW t \in Workers, NEW s \in Streams, NEW c \in Calls, OnWriteError(t, s, c)
      PROVE  Held(d)'
  <2>1. Only(t)
    BY <1>17 DEF OnWriteError, Only
  <2>2. \/ InUse(d)' \/ HeldBy(t, d)'
        \/ /\ done'[d] = done[d] /\ at'[d] = at[d]
           /\ ~done[d] /\ at[d] \in Streams /\ d \in controllers[at[d]] =>
                 d \in controllers'[at[d]]
           /\ ~InUse(d) /\ ~HeldBy(t, d)
    BY <1>17, <1>a, <1>b DEF OnWriteError, InUse, HeldBy, TodoInv
  <2> QED
    BY <1>a, <2>1, <2>2, HeldFrame
<1>18. ASSUME NEW t \in Workers, NEW s \in Streams, NEW c \in Calls, OnReceived(t, s, c)
      PROVE  Held(d)'
  <2>1. Only(t)
    BY <1>18 DEF OnReceived, Only
  <2>2. CASE InUse(d)
    <3>1. InUse(d)' \/ HeldBy(t, d)'
      BY <1>18, <1>a, <1>b, <2>2 DEF OnReceived, InUse, HeldBy
    <3> QED
      BY <2>1, <3>1, HeldFrame
  <2>3. CASE ~InUse(d)
    <3>1. HeldBy(t, d) => HeldBy(t, d)'
      BY <1>18, <1>a, <1>b, <2>3 DEF OnReceived, InUse, HeldBy, TodoInv
    <3>2. /\ done'[d] = done[d] /\ at'[d] = at[d]
          /\ ~done[d] /\ at[d] \in Streams /\ d \in controllers[at[d]] =>
                d \in controllers'[at[d]] \/ HeldBy(t, d)'
      BY <1>18, <1>a, <1>b, SMTT(30) DEF OnReceived, HeldBy
    <3> QED
      BY <2>1, <2>3, <3>1, <3>2, HeldFrame
  <2> QED
    BY <2>2, <2>3
<1>19. ASSUME SwapAddList \/ EraseRequest \/ EndTimerRun
      PROVE  Held(d)'
  <2>1. Only(Timer)
    BY <1>19 DEF SwapAddList, EraseRequest, EndTimerRun, Only
  <2>2. \/ InUse(d)' \/ HeldBy(Timer, d)'
        \/ /\ done'[d] = done[d] /\ at'[d] = at[d]
           /\ ~done[d] /\ at[d] \in Streams /\ d \in controllers[at[d]] =>
                 d \in controllers'[at[d]]
           /\ ~InUse(d) /\ ~HeldBy(Timer, d)
    BY <1>19, <1>a, <1>b, SMTT(30)
       DEF SwapAddList, EraseRequest, EndTimerRun, InUse, HeldBy, HeldInv
  <2> QED
    BY <1>a, <2>1, <2>2, HeldFrame
<1>20. ASSUME NEW expired \in SUBSET Calls, Merge(expired)
      PROVE  Held(d)'
  <2>1. Only(Timer)
    BY <1>20 DEF Merge, Only
  <2>2. \/ InUse(d)' \/ HeldBy(Timer, d)'
        \/ /\ done'[d] = done[d] /\ at'[d] = at[d]
           /\ ~done[d] /\ at[d] \in Streams /\ d \in controllers[at[d]] =>
                 d \in controllers'[at[d]]
           /\ ~InUse(d) /\ ~HeldBy(Timer, d)
    BY <1>20, <1>a, <1>b DEF Merge, InUse, HeldBy, TodoInv
  <2> QED
    BY <1>a, <2>1, <2>2, HeldFrame
<1>21. ASSUME NEW c \in Calls, NotifyTimeout(c)
      PROVE  Held(d)'
  <2>1. Only(Timer)
    BY <1>21 DEF NotifyTimeout, Only
  <2>2. \/ InUse(d)' \/ HeldBy(Timer, d)'
        \/ /\ done'[d] = done[d] /\ at'[d] = at[d]
           /\ ~done[d] /\ at[d] \in Streams /\ d \in controllers[at[d]] =>
                 d \in controllers'[at[d]]
           /\ ~InUse(d) /\ ~HeldBy(Timer, d)
    BY <1>21, <1>a, <1>b DEF NotifyTimeout, InUse, HeldBy, TodoInv
  <2> QED
    BY <1>a, <2>1, <2>2, HeldFrame
<1>22. ASSUME UNCHANGED vars
      PROVE  Held(d)'
  BY <1>22 DEF Held, HeldBy, InUse, vars, threadVars
<1> QED
  BY <1>1, <1>2, <1>3, <1>4, <1>5, <1>6, <1>7, <1>8, <1>9, <1>10, <1>11, <1>12, <1>13, <1>14,
     <1>15, <1>16, <1>17, <1>18, <1>19, <1>20, <1>21, <1>22
     DEF Next, CallMethod, ContinueCall, DoneStep, StreamStep, Handler, TimerRun

\* Only the call of Done() leads the timer to erase_request().
LEMMA EraseStep ==
    ASSUME TypeInv, OtherStep, pc'[Timer] = "erase_request"
    PROVE  pc[Timer] = "erase_request" /\ on'[Timer] = on[Timer]
<1> CallTypeOK
  BY TypeInvTypes
<1>a. Timer \in Threads /\ Timer \notin Calls /\ Timer \notin Workers /\ TimerOK(Timer)
  BY CallAssumption DEF Threads, TypeInv, ThreadsOK, ThreadOK
<1> USE DEF CallTypeOK, At, Goto, CallDone
<1>1. ASSUME NEW c \in Calls, CallMethod(c)
      PROVE  pc'[Timer] = pc[Timer] /\ on'[Timer] = on[Timer]
  BY <1>1, <1>a DEF CallMethod, ContinueCall, FindOrCreateStream, AddTimeout, CheckClosed,
     InsertController, CheckSend, PutIntoQueue
<1>2. ASSUME NEW t \in Threads, StreamStep(t)
      PROVE  pc'[Timer] = pc[Timer] /\ on'[Timer] = on[Timer]
  <2>1. t # Timer
    BY <1>2, <1>a DEF StreamStep, OnSendFailed, CheckDone, CloseBroken, SwapControllers, OnClosed,
       EndCall, TimerOK, TimerSteps, DoneSteps
  <2> QED
    BY <1>2, <1>a, <2>1 DEF StreamStep, OnSendFailed, CheckDone, CloseBroken, SwapControllers,
       OnClosed, EndCall
<1>3. ASSUME NEW t \in Workers, NEW s \in Streams, Handler(t, s)
      PROVE  pc'[Timer] = pc[Timer] /\ on'[Timer] = on[Timer]
  BY <1>3, <1>a DEF Handler, Close, OnSending, OnWriteError, OnReceived
<1>4. ASSUME TimerRun
      PROVE  pc'[Timer] # "erase_request"
  BY <1>4, <1>a DEF TimerRun, SwapAddList, Merge, NotifyTimeout, EraseRequest, EndTimerRun
<1>5. CASE UNCHANGED vars
  BY <1>5 DEF vars, threadVars
<1> QED
  BY <1>1, <1>2, <1>3, <1>4, <1>5 DEF OtherStep

LEMMA HeldStep ==
    TypeInv /\ DoneInv /\ EnteredInv /\ TodoInv /\ HeldInv /\ [Next]_vars => HeldInv'
<1> SUFFICES ASSUME TypeInv, DoneInv, EnteredInv, TodoInv, HeldInv, [Next]_vars
             PROVE  HeldInv'
  OBVIOUS
<1> CallTypeOK /\ SharedTypeOK
  BY TypeInvTypes DEF CallTypeOK
<1>1. ASSUME NEW c \in Calls, pc'[c] # "call", notified'[c] = 0
      PROVE  Held(c)'
  <2>1. CASE pc[c] = "call"
    <3>1. FindOrCreateStream(c)
      BY <1>1, <2>1, CallIsMade
    <3>2. pc'[c] = "add" /\ done'[c] = done[c] /\ ~done[c]
      BY <2>1, <3>1 DEF FindOrCreateStream, Goto, callVars, EnteredInv, CallTypeOK, Threads
    <3> QED
      BY <3>2 DEF Held, HeldBy, Threads
  <2>2. CASE pc[c] # "call"
    <3>1. notified[c] = 0
      <4>1. CASE OtherStep
        BY <1>1, <4>1, OtherStepFrame DEF DoneFrame
      <4>2. ASSUME NEW t \in Threads, Done(t) \/ DoneCallbacks(t)
            PROVE  notified[c] = 0
        BY <1>1, <4>2 DEF Done, DoneCallbacks, SharedTypeOK
      <4> QED
        BY <4>1, <4>2, NextCases
    <3> QED
      BY <1>1, <2>2, <3>1, HeldKept DEF HeldInv
  <2> QED
    BY <2>1, <2>2
<1>2. ASSUME pc'[Timer] = "erase_request"
      PROVE  done'[on'[Timer]]
  <2>1. CASE OtherStep
    BY <1>2, <2>1, EraseStep, OtherStepFrame DEF DoneFrame, HeldInv
  <2>2. ASSUME NEW t \in Threads, Done(t)
        PROVE  done'[on'[Timer]]
    <3>1. Timer \in Threads /\ on[t] \in Calls
      BY <2>2 DEF Threads, Done, At, CallTypeOK, NeedsCall
    <3>2. CASE t = Timer
      BY <1>2, <2>2, <3>1, <3>2 DEF Done, Return, Goto, CallTypeOK
    <3>3. CASE t # Timer
      BY <1>2, <2>2, <3>1, <3>3 DEF Done, Return, Goto, CallTypeOK, SharedTypeOK, HeldInv, NeedsCall
    <3> QED
      BY <3>2, <3>3
  <2>3. ASSUME NEW t \in Threads, DoneCallbacks(t)
        PROVE  done'[on'[Timer]]
    BY <1>2, <2>3 DEF DoneCallbacks, Return, At, Goto, CallTypeOK, HeldInv, DoneInv, Threads
  <2> QED
    BY <2>1, <2>2, <2>3, NextCases
<1> QED
  BY <1>1, <1>2 DEF HeldInv

----------------------------------------------------------------------------
(* The inductive invariant of the calls *)

CallInv ==
    /\ TypeInv /\ DoneInv /\ StartedInv /\ EnteredInv /\ TodoInv /\ ClosedInv
    /\ TakenInv /\ LeavingInv /\ HeldInv

LEMMA CallInvInit == Init => CallInv
<1> SUFFICES ASSUME Init
             PROVE  CallInv
  OBVIOUS
<1>1. TypeInv
  BY InitType
<1>2. DoneInv /\ StartedInv
  BY CallAssumption DEF Init, DoneInv, StartedInv, Started, Threads, NeedsCall
<1>3. EnteredInv /\ TodoInv
  BY CallAssumption DEF Init, EnteredInv, TodoInv, Threads, NeedsCall
<1>4. ClosedInv /\ TakenInv /\ LeavingInv
  BY CallAssumption DEF Init, ClosedInv, StreamOK, TakenInv, TakenOK, LeavingInv, Threads, DoneSteps
<1>5. HeldInv
  BY CallAssumption DEF Init, HeldInv, Threads
<1> QED
  BY <1>1, <1>2, <1>3, <1>4, <1>5 DEF CallInv

LEMMA CallInvStep == CallInv /\ [Next]_vars => CallInv'
  BY TypeStep, DoneInvStep, StartedStep, EnteredStep, TodoStep, ClosedStep, TakenStep, LeavingStep,
     HeldStep DEF CallInv

\* While the threads rest, the controller map of a usable stream is what keep
\* alive and the responses take it for, for any number of calls and streams.
THEOREM ControllersCorrect == Spec => []ControllersExact
<1>1. CallInv => ControllersExact
  <2> SUFFICES ASSUME CallInv, Resting, NEW s \in Streams, status[s] = "open"
               PROVE  controllers[s] = {c \in Calls : at[c] = s /\ ~done[c]}
                                          \cup (controllers[s] \cap queued[s])
    BY DEF ControllersExact
  <2> CallTypeOK /\ SharedTypeOK /\ TypeInv
    BY TypeInvTypes DEF CallTypeOK, CallInv
  <2>1. ASSUME NEW c \in controllers[s]
        PROVE  c \in Calls /\ at[c] = s /\ (done[c] => c \in queued[s])
    <3>1. c \in Calls /\ at[c] = s
      BY DEF CallInv, EnteredInv, SharedTypeOK
    <3>2. \A t \in Threads : ~TakesOut(t, c)
      BY DEF Resting, TakesOut
    <3> QED
      BY <3>1, <3>2 DEF CallInv, LeavingInv, Leaving
  <2>2. ASSUME NEW c \in Calls, at[c] = s, ~done[c]
        PROVE  c \in controllers[s]
    <3>1. pc[c] # "call"
      BY <2>2, CallAssumption DEF CallInv, EnteredInv
    <3>2. notified[c] = 0
      BY <2>2 DEF CallInv, DoneInv, SharedTypeOK
    <3>3. Held(c)
      BY <3>1, <3>2 DEF CallInv, HeldInv
    <3>4. \A t \in Threads : ~HeldBy(t, c)
      BY DEF Resting, HeldBy, CallInv, TodoInv, DoneSteps
    <3> QED
      BY <2>2, <3>3, <3>4 DEF Held, InUse
  <2> QED
    BY <2>1, <2>2
<1> QED
  BY <1>1, CallInvInit, CallInvStep, PTL DEF Spec

----------------------------------------------------------------------------
(* Stop() of the client *)

\* The steps that only empty the lists of the timeout manager or the map.
QuietStep ==
    /\ UNCHANGED <<status, controllers, queued, callVars, threadVars>>
    /\ \/ streamMap' = streamMap
       \/ streamMap' = NoStream /\ \A s \in Streams : status[s] # "open"
    /\ addList' \subseteq addList /\ eraseSet' \subseteq eraseSet
    /\ events' \subseteq events /\ tmpAdd' = tmpAdd

\* The steps that the calls of a client that is not stopped do not have.
StopStep ==
    \/ \E c \in Calls : NotRunning(c)
    \/ \E t \in Threads : OnClosedStopped(t)
    \/ QuietStep

\* The threads that are known to be at rest, and when no connection is left.
StopInv ==
    /\ ~Running => \A c \in Calls : pc[c] \in {"call", "wait"} \cup DoneSteps
    /\ phase \in {"running", "clear_events", "stop_streams"} => pc[Stopper] = "idle"
    /\ phase \in {"join_work", "join_maintain", "stopped", "aborted"} =>
          \A s \in Streams : status[s] # "open"
    /\ phase \in {"join_maintain", "stopped"} =>
          \A w \in Workers \ {Keeper} : pc[w] = "idle"
    /\ phase = "stopped" => pc[Keeper] = "idle" /\ pc[Timer] = "idle" /\ Timer \notin passed

\* StopStreams() closes a stream as a worker does; all else that Stop() does
\* to the calls is one of these steps.
LEMMA StopCases ==
    ASSUME TypeInv, StopInv, [StopNext]_allVars
    PROVE  [Next]_vars \/ StopStep
<1> USE DEF Next
<1>1. ASSUME NEW c \in Calls, CallMethod(c) \/ NotRunning(c)
      PROVE  [Next]_vars \/ StopStep
  BY <1>1 DEF StopStep
<1>2. ASSUME NEW t \in Threads, ThreadStep(t)
      PROVE  [Next]_vars \/ StopStep
  <2>1. DoneStepNow(t) => [Next]_vars
    BY DEF DoneStepNow, Abort
  <2>2. StreamStepNow(t) => [Next]_vars \/ StopStep
    BY DEF StreamStepNow, StopStep, OnClosedLate, StreamStep
  <2> QED
    BY <1>2, <2>1, <2>2 DEF ThreadStep
<1>3. ASSUME NEW t \in Workers, NEW s \in Streams, HandlerNow(t, s)
      PROVE  [Next]_vars
  BY <1>3 DEF HandlerNow, Handler
<1>4. ASSUME TimerRunNow
      PROVE  [Next]_vars
  BY <1>4 DEF TimerRunNow, TimerRun
<1>5. CASE BeginStop \/ ClearEvents
  BY <1>5 DEF BeginStop, ClearEvents, StopStep, QuietStep, streamVars
<1>6. CASE StopStreams
  <2>1. Stopper \in Workers /\ pc[Stopper] = "idle"
    BY <1>6, StopAssumption DEF StopInv, StopStreams, StopGoto
  <2>2. CASE streamMap # NoStream /\ status[streamMap] = "open" /\ streamMap \in Streams
    BY <1>6, <2>1, <2>2 DEF StopStreams, Close, Handler, At, threadVars, timeoutVars
  <2>3. CASE UNCHANGED <<status, at, pc>>
    BY <1>6, <2>3 DEF StopStreams, vars, streamVars, threadVars
  <2> QED
    BY <1>6, <2>2, <2>3 DEF StopStreams, TypeInv, SharedTypeOK
<1>7. CASE JoinWork
  BY <1>7 DEF JoinWork, StopGoto, StopInv, StopStep, QuietStep, streamVars, timeoutVars
<1>8. CASE JoinMaintain \/ UNCHANGED allVars
  BY <1>8 DEF JoinMaintain, allVars
<1> QED
  BY <1>1, <1>2, <1>3, <1>4, <1>5, <1>6, <1>7, <1>8 DEF StopNext, StopGoesOn

\* Neither of them changes what holds a call, but that one may be refused.
LEMMA QuietKept == CallInv /\ QuietStep => CallInv'
<1> SUFFICES ASSUME CallInv, QuietStep
             PROVE  CallInv'
  OBVIOUS
<1> USE DEF CallInv, QuietStep, callVars, threadVars
<1>1. TypeInv'
  BY DEF TypeInv, SharedTypeOK, ThreadsOK, FunctionsOK, ThreadOK, UserOK, WorkerOK, TimerOK
<1>2. DoneInv' /\ StartedInv'
  BY DEF DoneInv, StartedInv, Started
<1>3. EnteredInv' /\ TodoInv' /\ ClosedInv'
  BY DEF EnteredInv, Entered, TodoInv, ClosedInv, StreamOK
<1>4. TakenInv' /\ LeavingInv'
  BY DEF TakenInv, TakenOK, LeavingInv, Leaving, TakesOut
<1>5. HeldInv'
  BY DEF HeldInv, Held, HeldBy, InUse
<1> QED
  BY <1>1, <1>2, <1>3, <1>4, <1>5

\* Both steps change one thread only, one that holds no call.
LEMMA ThreadKept ==
    ASSUME CallInv, NEW t \in Threads, Only(t), ThreadOK(t)', StreamOK(t)', TakenOK(t)',
           UNCHANGED <<streamVars, callVars, timeoutVars, todo>>,
           \A c \in Calls : at'[c] = at[c],
           pc[t] \in {"call", "end_calls"}, todo[t] = {},
           pc'[t] = "idle" \/ (t \in Calls /\ pc'[t] = "done" /\ on'[t] = t)
    PROVE  CallInv'
<1> CallTypeOK /\ SharedTypeOK
  BY TypeInvTypes DEF CallTypeOK, CallInv
<1>a. Calls \cap Workers = {} /\ Timer \notin Calls /\ Timer \notin Workers
  BY CallAssumption
<1>b. \A u \in Threads \ {t} :
        pc'[u] = pc[u] /\ at'[u] = at[u] /\ on'[u] = on[u] /\ ret'[u] = ret[u]
  BY DEF Only, CallTypeOK
<1>c. Started \subseteq Started' /\ Entered \subseteq Entered'
  BY <1>b DEF Started, Entered, Threads, DoneSteps
<1> USE DEF CallInv, streamVars, callVars, timeoutVars
<1>1. TypeInv'
  BY LocalStep DEF TypeInv, SharedTypeOK
<1>2. DoneInv'
  BY <1>b DEF DoneInv
<1>3. StartedInv'
  <2>1. pc'[t] \in NeedsCall => on'[t] \in Started'
    BY DEF NeedsCall, Started
  <2> QED
    BY <1>b, <1>c, <2>1 DEF StartedInv
<1>4. EnteredInv'
  <2>1. \A w \in Workers : pc'[w] \in NeedsCall => on'[w] \in Entered'
    <3>1. t \in Workers => pc'[t] \notin NeedsCall
      BY <1>a DEF NeedsCall
    <3> QED
      BY <1>b, <1>c, <3>1 DEF EnteredInv, Threads
  <2>2. \A c \in Calls : pc'[c] = "call" => ~done'[c] /\ at'[c] = NoStream
    <3>1. \A c \in Calls : pc'[c] = "call" => pc[c] = "call"
      BY <1>b DEF Threads
    <3> QED
      BY <3>1 DEF EnteredInv
  <2>3. \A s \in Streams : \A c \in controllers'[s] \cup queued'[s] : c \in Entered' /\ at'[c] = s
    BY <1>c DEF EnteredInv, SharedTypeOK
  <2> QED
    BY <1>c, <2>1, <2>2, <2>3 DEF EnteredInv
<1>5. TodoInv'
  BY <1>b DEF TodoInv
<1>6. ClosedInv'
  <2>1. ASSUME NEW u \in Threads \ {t}
        PROVE  StreamOK(u)'
    <3>1. u \in Workers => \A c \in todo[u] : at'[c] = at[c]
      BY DEF CallTypeOK
    <3> QED
      BY <1>b, <3>1 DEF ClosedInv, StreamOK
  <2> QED
    BY <2>1 DEF ClosedInv
<1>7. TakenInv'
  BY <1>b DEF TakenInv, TakenOK
<1>8. LeavingInv'
  <2>1. ASSUME NEW s \in Streams, NEW c \in controllers[s], Leaving(s, c)
        PROVE  Leaving(s, c)'
    <3>1. ~TakesOut(t, c)
      BY DEF TakesOut
    <3>2. ASSUME NEW u \in Threads \ {t}, TakesOut(u, c)
          PROVE  TakesOut(u, c)'
      BY <1>b, <3>2 DEF TakesOut
    <3> QED
      BY <2>1, <3>1, <3>2 DEF Leaving
  <2> QED
    BY <2>1 DEF LeavingInv
<1>9. HeldInv'
  <2>1. ASSUME NEW c \in Calls, Held(c)
        PROVE  Held(c)'
    <3>1. ~HeldBy(t, c)
      BY DEF HeldBy
    <3>2. ASSUME NEW u \in Threads \ {t}, HeldBy(u, c)
          PROVE  HeldBy(u, c)'
      BY <1>b, <3>2 DEF HeldBy
    <3>3. InUse(c) => InUse(c)'
      BY DEF InUse
    <3> QED
      BY <2>1, <3>1, <3>2, <3>3 DEF Held
  <2>2. ASSUME NEW c \in Calls, pc[c] = "call", pc'[c] # "call"
        PROVE  Held(c)'
    <3>1. c = t /\ c \in Threads
      BY <1>b, <2>2 DEF Threads
    <3>2. pc'[t] = "done" /\ on'[t] = c /\ ~done'[c]
      <4>1. pc'[t] # "idle"
        BY <3>1, <1>1 DEF TypeInv, ThreadsOK, ThreadOK, UserOK, CallSteps, DoneSteps
      <4> QED
        BY <2>2, <3>1, <4>1 DEF EnteredInv
    <3> QED
      BY <3>1, <3>2 DEF Held, HeldBy
  <2>3. pc'[Timer] = "erase_request" => pc[Timer] = "erase_request" /\ on'[Timer] = on[Timer]
    BY <1>b DEF Threads
  <2> QED
    BY <2>1, <2>2, <2>3 DEF HeldInv
<1> QED
  BY <1>1, <1>2, <1>3, <1>4, <1>5, <1>6, <1>7, <1>8, <1>9

LEMMA StopStepKept == CallInv /\ StopStep => CallInv'
<1> SUFFICES ASSUME CallInv, StopStep
             PROVE  CallInv'
  OBVIOUS
<1> CallTypeOK /\ TypeInv /\ CallInv
  BY TypeInvTypes DEF CallInv
<1>a. /\ Calls \cap Workers = {} /\ Timer \notin Calls
      /\ Timer \notin Workers /\ NoStream \notin Streams
  BY CallAssumption
<1>b. \A t \in Threads : ThreadOK(t)
  BY DEF TypeInv, ThreadsOK
<1> USE DEF CallTypeOK, At, Goto, Threads, DoneSteps, NeedsCall, Returns
<1>1. ASSUME NEW c \in Calls, NotRunning(c)
      PROVE  CallInv'
  <2>1. /\ pc[c] = "call" /\ pc' = [pc EXCEPT ![c] = "done"] /\ on' = [on EXCEPT ![c] = c]
        /\ code' = [code EXCEPT ![c] = "failed"] /\ ret' = [ret EXCEPT ![c] = "wait"]
        /\ UNCHANGED <<streamVars, callVars, timeoutVars, at, todo>>
    BY <1>1 DEF NotRunning, CallDone
  <2>2. Only(c)
    BY <2>1 DEF Only
  <2>3. ThreadOK(c)'
    BY <1>a, <1>b, <2>1 DEF ThreadOK, UserOK, CallSteps, NeedsStream, Results
  <2>4. StreamOK(c)'
    BY <1>a, <2>1 DEF CallInv, ClosedInv, StreamOK, streamVars
  <2>5. TakenOK(c)'
    <3>1. c \notin Entered
      BY <2>1 DEF Entered
    <3> QED
      BY <2>1, <3>1 DEF CallInv, EnteredInv, TakenOK, streamVars
  <2>6. todo[c] = {}
    BY <2>1 DEF CallInv, TodoInv
  <2>7. \A d \in Calls : at'[d] = at[d]
    BY <2>1
  <2>8. pc'[c] = "done" /\ on'[c] = c
    BY <2>1
  <2>9. UNCHANGED <<streamVars, callVars, timeoutVars, todo>>
    BY <2>1
  <2> QED
    BY <2>1, <2>2, <2>3, <2>4, <2>5, <2>6, <2>7, <2>8, <2>9, ThreadKept
<1>2. ASSUME NEW w \in Threads, OnClosedStopped(w)
      PROVE  CallInv'
  <2>1. /\ pc[w] = "end_calls" /\ todo[w] = {} /\ pc' = [pc EXCEPT ![w] = "idle"]
        /\ at' = [at EXCEPT ![w] = NoStream]
        /\ UNCHANGED <<streamVars, callVars, timeoutVars, on, code, todo, ret>>
    BY <1>2 DEF OnClosedStopped, AtOnClosed
  <2>2. Only(w)
    BY <2>1 DEF Only
  <2>3. w \in Workers
    BY <1>a, <1>b, <2>1 DEF ThreadOK, UserOK, CallSteps, TimerOK, TimerSteps
  <2>4. ThreadOK(w)'
    BY <1>a, <1>b, <2>1, <2>3 DEF ThreadOK, WorkerOK, WorkerSteps, Results
  <2>5. StreamOK(w)'
    BY <1>a, <2>1 DEF StreamOK
  <2>6. TakenOK(w)'
    BY <2>1 DEF TakenOK
  <2>7. \A d \in Calls : at'[d] = at[d]
    BY <1>a, <2>1, <2>3
  <2>8. pc[w] \in {"call", "end_calls"} /\ todo[w] = {} /\ pc'[w] = "idle"
    BY <2>1
  <2>9. UNCHANGED <<streamVars, callVars, timeoutVars, todo>>
    BY <2>1
  <2> QED
    BY <2>2, <2>4, <2>5, <2>6, <2>7, <2>8, <2>9, ThreadKept
<1> QED
  BY <1>1, <1>2, QuietKept DEF StopStep

\* A thread other than t stays where it is.
Rest(t) == \A u \in Threads : u # t => pc'[u] = pc[u]

LEMMA RestOfCall ==
    ASSUME CallTypeOK, NEW c \in Calls, CallMethod(c) \/ NotRunning(c)
    PROVE  Rest(c)
BY DEF Rest, CallTypeOK, CallMethod, ContinueCall, FindOrCreateStream, AddTimeout, CheckClosed,
   InsertController, CheckSend, PutIntoQueue, NotRunning, CallDone, Goto

LEMMA RestOfThread ==
    ASSUME CallTypeOK, NEW t \in Threads, ThreadStep(t)
    PROVE  Rest(t) /\ pc[t] \notin {"idle", "call", "wait"}
<1> USE DEF Rest, CallTypeOK, Goto, At
<1>1. CASE DoneStep(t)
  BY <1>1 DEF DoneStep, Done, DoneCallbacks, Return
<1>2. CASE StreamStep(t)
  BY <1>2 DEF StreamStep, OnSendFailed, CheckDone, CloseBroken, SwapControllers, OnClosed, EndCall,
     CallDone
<1>3. CASE Abort(t)
  BY <1>3 DEF Abort, NoManager, vars, threadVars
<1>4. CASE OnClosedStopped(t) \/ OnClosedLate(t)
  BY <1>4 DEF OnClosedStopped, OnClosedLate, OnClosed, AtOnClosed
<1> QED
  BY <1>1, <1>2, <1>3, <1>4 DEF ThreadStep, DoneStepNow, StreamStepNow

LEMMA RestOfHandler ==
    ASSUME CallTypeOK, NEW t \in Workers, NEW s \in Streams, HandlerNow(t, s)
    PROVE  Rest(t)
BY DEF HandlerNow, Handler, Close, OnSending, OnWriteError, OnReceived, Rest, CallTypeOK, Goto

LEMMA RestOfTimer == CallTypeOK /\ TimerRunNow => Rest(Timer)
BY DEF TimerRunNow, TimerRun, SwapAddList, Merge, NotifyTimeout, EraseRequest, EndTimerRun,
   CallDone,
   Rest, CallTypeOK, Goto

\* A call that has returned to its user, or waits, takes no step but its last.
LEMMA UserStep ==
    ASSUME TypeInv, NEW c \in Calls, pc[c] \in {"call", "wait"} \cup DoneSteps, ThreadStep(c)
    PROVE  pc'[c] \in {"wait"} \cup DoneSteps
<1> CallTypeOK /\ UserOK(c) /\ c \in Threads
  BY TypeInvTypes DEF TypeInv, ThreadsOK, ThreadOK, Threads
<1> USE DEF CallTypeOK, Goto, At, DoneSteps
<1>1. CASE DoneStep(c)
  BY <1>1 DEF DoneStep, Done, DoneCallbacks, Return, UserOK
<1>2. ~StreamStep(c) /\ ~OnClosedStopped(c) /\ ~OnClosedLate(c)
  BY DEF StreamStep, OnSendFailed, CheckDone, CloseBroken, SwapControllers, OnClosed, EndCall,
     OnClosedStopped, OnClosedLate, AtOnClosed
<1>3. CASE Abort(c)
  BY <1>3 DEF Abort, NoManager
<1> QED
  BY <1>1, <1>2, <1>3 DEF ThreadStep, DoneStepNow, StreamStepNow

\* Nobody but a user in CallMethod() opens a stream.
LEMMA NoneOpened ==
    ASSUME SharedTypeOK,
           \/ \E t \in Threads : ThreadStep(t)
           \/ \E t \in Workers, s \in Streams : HandlerNow(t, s)
           \/ TimerRunNow
    PROVE  \A r \in Streams : status'[r] = "open" => status[r] = "open"
<1> USE DEF SharedTypeOK, streamVars
<1>1. ASSUME NEW t \in Threads, DoneStepNow(t)
      PROVE  UNCHANGED status
  BY <1>1 DEF DoneStepNow, DoneStep, Done, DoneCallbacks, Abort, vars
<1>2. ASSUME NEW t \in Threads, StreamStep(t)
      PROVE  \A r \in Streams : status'[r] = "open" => status[r] = "open"
  <2>1. CASE CloseBroken(t)
    BY <2>1 DEF CloseBroken
  <2>2. CASE ~CloseBroken(t)
    BY <1>2, <2>2 DEF StreamStep, OnSendFailed, CheckDone, SwapControllers, OnClosed, EndCall
  <2> QED
    BY <2>1, <2>2
<1>3. ASSUME NEW t \in Threads, OnClosedStopped(t) \/ OnClosedLate(t)
      PROVE  UNCHANGED status
  BY <1>3 DEF OnClosedStopped, OnClosedLate, OnClosed
<1>4. ASSUME NEW t \in Workers, NEW s \in Streams, Close(t, s)
      PROVE  \A r \in Streams : status'[r] = "open" => status[r] = "open"
  BY <1>4 DEF Close
<1>5. ASSUME NEW t \in Workers, NEW s \in Streams, NEW c \in Calls,
             OnSending(t, s, c) \/ OnWriteError(t, s, c) \/ OnReceived(t, s, c)
      PROVE  UNCHANGED status
  BY <1>5 DEF OnSending, OnWriteError, OnReceived
<1>6. ASSUME TimerRunNow
      PROVE  UNCHANGED status
  BY <1>6 DEF TimerRunNow, TimerRun, SwapAddList, Merge, NotifyTimeout, EraseRequest, EndTimerRun
<1> QED
  BY <1>1, <1>2, <1>3, <1>4, <1>5, <1>6 DEF ThreadStep, StreamStepNow, HandlerNow, Handler

LEMMA StopInvStep == TypeInv /\ OneUsableStream /\ StopInv /\ [StopNext]_allVars => StopInv'
<1> SUFFICES ASSUME TypeInv, OneUsableStream, StopInv, [StopNext]_allVars
             PROVE  StopInv'
  OBVIOUS
<1> CallTypeOK /\ SharedTypeOK
  BY TypeInvTypes DEF CallTypeOK
<1>a. /\ Calls \cap Workers = {} /\ Timer \notin Calls /\ Timer \notin Workers
      /\ Stopper \in Workers /\ Keeper \in Workers /\ Stopper # Keeper
  BY CallAssumption, StopAssumption
<1>1. ASSUME NEW c \in Calls, At(c, "call") => Running, CallMethod(c), UNCHANGED stopVars
      PROVE  StopInv'
  <2>1. Running
    BY <1>1 DEF StopInv, DoneSteps, CallMethod, ContinueCall, FindOrCreateStream, AddTimeout,
       CheckClosed, InsertController, CheckSend, PutIntoQueue, At
  <2>2. Rest(c)
    BY <1>1, RestOfCall
  <2> QED
    BY <1>1, <1>a, <2>1, <2>2 DEF StopInv, Running, stopVars, Rest, Threads
<1>2. ASSUME NEW c \in Calls, NotRunning(c)
      PROVE  StopInv'
  <2>1. Rest(c) /\ pc'[c] = "done" /\ UNCHANGED <<status, phase, passed>>
    BY <1>2, RestOfCall DEF NotRunning, CallDone, Goto, CallTypeOK, Threads, streamVars, stopVars
  <2> QED
    BY <1>2, <1>a, <2>1 DEF StopInv, Rest, Threads, DoneSteps, Running
<1>3. ASSUME NEW t \in Threads, ThreadStep(t)
      PROVE  StopInv'
  <2>1. Rest(t) /\ pc[t] \notin {"idle", "call", "wait"}
    BY <1>3, RestOfThread
  <2>2. \A s \in Streams : status'[s] = "open" => status[s] = "open"
    BY <1>3, NoneOpened
  <2>3. phase' = phase \/ (Joined /\ phase' = "aborted")
    BY <1>3 DEF ThreadStep, DoneStepNow, StreamStepNow, Abort, NoManager, OnClosedStopped,
       OnClosedLate, stopVars
  <2>4. passed' \subseteq passed
    BY <1>3 DEF ThreadStep, DoneStepNow, StreamStepNow, Abort, OnClosedStopped, OnClosedLate,
       stopVars
  <2>5. ASSUME ~Running, NEW c \in Calls
        PROVE  pc'[c] \in {"call", "wait"} \cup DoneSteps
    BY <1>3, <2>1, <2>5, UserStep DEF StopInv, Rest, Threads
  <2> QED
    BY <1>a, <2>1, <2>2, <2>3, <2>4, <2>5 DEF StopInv, Rest, Threads, Running, Joined
<1>4. ASSUME NEW t \in Workers, NEW s \in Streams, HandlerNow(t, s)
      PROVE  StopInv'
  <2>1. Rest(t) /\ t # Stopper /\ UNCHANGED <<phase, passed>>
    BY <1>4, <1>a, RestOfHandler DEF HandlerNow, stopVars
  <2>2. \A r \in Streams : status'[r] = "open" => status[r] = "open"
    BY <1>4, NoneOpened
  <2>3. Joined => t = Keeper /\ status[s] = "open"
    BY <1>4 DEF HandlerNow, Close
  <2>4. phase # "stopped"
    BY <2>3 DEF StopInv, Joined
  <2> QED
    BY <1>a, <2>1, <2>2, <2>3, <2>4 DEF StopInv, Rest, Threads, Running, Joined
<1>5. ASSUME TimerRunNow
      PROVE  StopInv'
  <2>1. Rest(Timer) /\ phase' = phase
    BY <1>5, RestOfTimer DEF TimerRunNow, stopVars
  <2>2. \A r \in Streams : status'[r] = "open" => status[r] = "open"
    BY <1>5, NoneOpened
  <2>3. phase # "stopped"
    BY <1>5 DEF TimerRunNow, TimerRun, SwapAddList, Merge, NotifyTimeout, EraseRequest, EndTimerRun,
       StopInv, At, Running
  <2> QED
    BY <1>a, <2>1, <2>2, <2>3 DEF StopInv, Rest, Threads, Running
<1>6. CASE BeginStop
  BY <1>6 DEF BeginStop, StopGoto, StopInv, Running, threadVars, streamVars
<1>7. CASE ClearEvents
  BY <1>7 DEF ClearEvents, StopGoto, StopInv, Running, threadVars, streamVars
<1>8. CASE StopStreams
  <2>1. \A s \in Streams : status'[s] # "open"
    BY <1>8, CallAssumption DEF StopStreams, OneUsableStream, SharedTypeOK
  <2>2. Rest(Stopper) /\ phase = "stop_streams" /\ phase' = "join_work"
    BY <1>8 DEF StopStreams, Rest, Goto, StopGoto, CallTypeOK
  <2> QED
    BY <1>a, <2>1, <2>2 DEF StopInv, Rest, Threads, Running
<1>9. CASE JoinWork
  BY <1>9 DEF JoinWork, StopGoto, StopInv, Running, threadVars, At
<1>10. CASE JoinMaintain
  BY <1>10 DEF JoinMaintain, StopGoto, StopInv, Running, At, vars, threadVars, streamVars
<1>11. CASE UNCHANGED allVars
  BY <1>11 DEF allVars, vars, stopVars, threadVars, streamVars, StopInv, Running
<1> QED
  BY <1>1, <1>2, <1>3, <1>4, <1>5, <1>6, <1>7, <1>8, <1>9, <1>10, <1>11 DEF StopNext, StopGoesOn

StopCallInv == CallInv /\ OneUsableStream /\ StopInv

LEMMA StopCallInvInit == StopInit => StopCallInv
<1>1. StopInit => CallInv /\ OneUsableStream
  BY CallInvInit DEF StopInit, Init, OneUsableStream
<1>2. StopInit => StopInv
  BY CallAssumption, StopAssumption DEF StopInit, Init, StopInv, Running, Threads
<1> QED
  BY <1>1, <1>2 DEF StopCallInv

LEMMA StopCallInvStep == StopCallInv /\ [StopNext]_allVars => StopCallInv'
<1> SUFFICES ASSUME StopCallInv, [StopNext]_allVars
             PROVE  StopCallInv'
  OBVIOUS
<1> TypeInv /\ CallInv /\ OneUsableStream /\ StopInv
  BY DEF StopCallInv, CallInv
<1>1. [Next]_vars \/ StopStep
  BY StopCases
<1>2. CallInv'
  BY <1>1, CallInvStep, StopStepKept
<1>3. StopInv'
  BY StopInvStep
<1>4. OneUsableStream'
  <2>1. CASE [Next]_vars
    BY <2>1, OneUsableStreamStep
  <2>2. CASE StopStep
    BY <2>2 DEF StopStep, NotRunning, OnClosedStopped, QuietStep, streamVars, OneUsableStream
  <2> QED
    BY <1>1, <2>1, <2>2
<1> QED
  BY <1>2, <1>3, <1>4 DEF StopCallInv

\* When Stop() has returned, every call that waited has been ended and no
\* connection is left, for any number of calls, streams and workers.
THEOREM StopCorrect == StopSpec => []StopEndsCalls
<1>1. StopCallInv => StopEndsCalls
  <2> SUFFICES ASSUME StopCallInv, phase = "stopped"
               PROVE  /\ \A c \in Calls : At(c, "wait") => notified[c] > 0
                      /\ \A s \in Streams : status[s] # "open"
    BY DEF StopEndsCalls
  <2> CallInv /\ TypeInv /\ SharedTypeOK /\ StopInv
    BY DEF StopCallInv, CallInv, TypeInv
  <2>1. \A w \in Workers \cup {Timer} : pc[w] = "idle"
    BY DEF StopInv
  <2>2. ASSUME NEW c \in Calls, pc[c] = "wait", notified[c] = 0
        PROVE  FALSE
    <3>1. Held(c) /\ c \in Threads
      BY <2>2 DEF CallInv, HeldInv, Threads
    <3>2. ~InUse(c)
      BY DEF InUse, StopInv
    <3>3. PICK t \in Threads : HeldBy(t, c)
      BY <3>1, <3>2 DEF Held
    <3>4. t \in Calls
      BY <2>1, <3>3 DEF HeldBy, Threads, CallInv, TodoInv, DoneSteps
    <3>5. on[t] = t /\ pc[t] \in CallSteps /\ (pc[t] \in DoneSteps => ret[t] = "wait")
      BY <3>4 DEF TypeInv, ThreadsOK, ThreadOK, UserOK, Threads
    <3>6. todo[t] = {}
      BY <3>3, <3>5 DEF CallInv, TodoInv, CallSteps, DoneSteps
    <3>7. t \notin Workers
      BY <3>4, CallAssumption
    <3> QED
      BY <2>2, <3>3, <3>5, <3>6, <3>7 DEF HeldBy
  <2> QED
    BY <2>2 DEF At, StopInv, SharedTypeOK
<1> QED
  BY <1>1, StopCallInvInit, StopCallInvStep, PTL DEF StopSpec

\* Stop() breaks no promise: a call that is refused, or ended by Stop(), ends
\* once and for all too.
THEOREM StopKeepsPromise == StopSpec => PromiseKept
<1>1. StopInit => Promise!PromiseInit
  BY DEF StopInit, Init, Promise!PromiseInit, reported, Threads
<1>2. StopCallInv /\ [StopNext]_allVars => [Promise!PromiseNext]_reported
  <2> SUFFICES ASSUME StopCallInv, [StopNext]_allVars
               PROVE  [Promise!PromiseNext]_reported
    OBVIOUS
  <2> CallInv /\ StopInv /\ CallTypeOK /\ TypeInv /\ SharedTypeOK
    BY TypeInvTypes DEF StopCallInv, CallInv, CallTypeOK
  <2>1. CASE [Next]_vars
    BY <2>1, PromiseStep DEF PromiseInv, CallInv
  <2>2. ASSUME NEW c \in Calls, NotRunning(c)
        PROVE  Promise!Call(c)
    <3>1. /\ pc[c] = "call" /\ pc' = [pc EXCEPT ![c] = "done"]
          /\ UNCHANGED <<notified, result>>
      BY <2>2 DEF NotRunning, CallDone, At, Goto, callVars
    <3>2. notified[c] = 0
      BY <3>1 DEF CallInv, StartedInv, Started, SharedTypeOK
    <3>3. pc'[c] = "done" /\ \A d \in Calls \ {c} : pc'[d] = pc[d]
      BY <3>1 DEF CallTypeOK, Threads
    <3>4. reported[c] = "new" /\ reported'[c] = "called"
      BY <3>1, <3>2, <3>3 DEF reported
    <3>5. \A d \in Calls \ {c} : reported'[d] = reported[d]
      BY <3>1, <3>3 DEF reported
    <3>6. reported' = [reported EXCEPT ![c] = "called"]
      BY <3>4, <3>5 DEF reported
    <3> QED
      BY <3>4, <3>6 DEF Promise!Call
  <2>3. ASSUME NEW t \in Threads, OnClosedStopped(t)
        PROVE  UNCHANGED reported
    <3>1. \A c \in Calls : pc'[c] = "call" <=> pc[c] = "call"
      BY <2>3 DEF OnClosedStopped, AtOnClosed, At, Goto, CallTypeOK
    <3>2. UNCHANGED <<notified, result>>
      BY <2>3 DEF OnClosedStopped, callVars
    <3> QED
      BY <3>1, <3>2 DEF reported
  <2>4. CASE QuietStep
    BY <2>4 DEF QuietStep, callVars, threadVars, reported
  <2> QED
    BY <2>1, <2>2, <2>3, <2>4, StopCases DEF StopStep, Promise!PromiseNext
<1> QED
  BY <1>1, <1>2, StopCallInvInit, StopCallInvStep, PTL
     DEF StopSpec, PromiseKept, Promise!PromiseSpec

\* A call that was made and not reported is held by something that will end it.
CallsHeld == \A c \in Calls : pc[c] # "call" /\ notified[c] = 0 => Held(c)

\* No call is ever lost, in a client that runs or is being stopped.
THEOREM CallsAreHeld == (Spec => []CallsHeld) /\ (StopSpec => []CallsHeld)
<1>1. CallInv => CallsHeld
  BY DEF CallInv, HeldInv, CallsHeld
<1>2. StopCallInv => CallsHeld
  BY <1>1 DEF StopCallInv
<1>3. Spec => []CallsHeld
  BY <1>1, CallInvInit, CallInvStep, PTL DEF Spec
<1>4. StopSpec => []CallsHeld
  BY <1>2, StopCallInvInit, StopCallInvStep, PTL DEF StopSpec
<1> QED
  BY <1>3, <1>4
=============================================================================
