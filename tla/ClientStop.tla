----------------------------- MODULE ClientStop -----------------------------
(***************************************************************************)
(* RpcClientImpl::Stop() and ~RpcClientImpl() while calls wait for their   *)
(* response: the calls of RpcCall, with the order in which Stop() ends the *)
(* timeout manager, the streams and the threads.                           *)
(*                                                                         *)
(* Inside close() the threads of Stop() and of keep alive do what a worker *)
(* does.  No thread is inside CallMethod() when Stop() begins, but for     *)
(* those that wait for their call to end: Stop() resets what CallMethod()  *)
(* uses and cannot be called beside it.                                    *)
(***************************************************************************)
EXTENDS RpcCall

CONSTANTS
    Stopper,    \* the user's thread that calls Stop()
    Keeper      \* the second maintenance thread, which runs TimerMaintain

ASSUME StopAssumption == {Stopper, Keeper} \subseteq Workers /\ Stopper # Keeper

VARIABLES
    phase,    \* the next step of Stop(), "running" before it, or "aborted":
              \* a null pointer was used
    passed    \* threads that saw _is_running set, and go on after it was reset

stopVars == <<phase, passed>>
allVars == <<vars, stopVars>>

StopInit == Init /\ phase = "running" /\ passed = {}

\* _is_running of the client and of its timeout manager: both are reset first.
Running == phase = "running"

\* The work thread group has been stopped and the timeout manager reset.
Joined == phase \in {"join_maintain", "stopped"}

\* StopStreams() holds _stream_map_lock while it closes a stream.
MapLocked == phase = "join_work" /\ ~At(Stopper, "idle")

----------------------------------------------------------------------------
(* The threads of the client before Stop(), during it and after it *)

\* CallMethod of a client that is not running.
NotRunning(c) ==
    /\ At(c, "call") /\ ~Running
    /\ CallDone(c, c, "failed", "wait")
    /\ UNCHANGED <<streamVars, callVars, timeoutVars, at, todo, stopVars>>

\* OnClosed: the check of _is_running, by a thread at its start.
AtOnClosed(t) == At(t, "end_calls") /\ todo[t] = {}

\* Mutant: OnClosed does not look at _is_running.
OnClosedStopped_Lock(t) ==
    /\ AtOnClosed(t) /\ ~Running /\ t \notin passed /\ ~MapLocked
    /\ Goto(t, "idle")
    /\ at' = [at EXCEPT ![t] = NoStream]
    /\ UNCHANGED <<streamVars, callVars, timeoutVars, on, code, todo, ret, stopVars>>

\* OnClosed of a client that is not running leaves the map and its lock alone.
OnClosedStopped(t) ==
    /\ AtOnClosed(t) /\ ~Running /\ t \notin passed
    /\ Goto(t, "idle")
    /\ at' = [at EXCEPT ![t] = NoStream]
    /\ UNCHANGED <<streamVars, callVars, timeoutVars, on, code, todo, ret, stopVars>>

\* OnClosed that has passed the check.
OnClosedLate(t) ==
    /\ t \in passed /\ ~MapLocked
    /\ OnClosed(t)
    /\ passed' = passed \ {t}
    /\ UNCHANGED phase

\* DoneCallback of a client that has no timeout manager any more: operator->
\* asserts a pointer.  A call that was refused has no such callback.
NoManager(t) == Joined /\ At(t, "callbacks") /\ t \notin Calls

Abort(t) ==
    /\ NoManager(t)
    /\ phase' = "aborted"
    /\ UNCHANGED <<vars, passed>>

DoneStepNow(t) ==
    \/ ~NoManager(t) /\ DoneStep(t) /\ UNCHANGED stopVars
    \/ Abort(t)

StreamStepNow(t) ==
    \/ /\ AtOnClosed(t) => Running
       /\ StreamStep(t) /\ UNCHANGED stopVars
    \/ OnClosedStopped(t)
    \/ OnClosedLate(t)

\* Mutant: timer_run takes _start_stop_lock, which Stop() holds.
TimerRunNow_Locked == Running /\ TimerRun /\ UNCHANGED stopVars

\* timer_run returns at once when the timeout manager is stopped.
TimerRunNow ==
    \/ /\ At(Timer, "idle") => Running
       /\ TimerRun /\ UNCHANGED stopVars
    \/ /\ Timer \in passed
       /\ SwapAddList
       /\ passed' = passed \ {Timer}
       /\ UNCHANGED phase

\* The workers take up no handler once they are joined.  Keep alive closes a
\* stream whose controller map was empty when it looked, whatever it holds now.
HandlerNow(t, s) ==
    /\ \/ t \notin {Stopper, Keeper} /\ ~Joined /\ Handler(t, s)
       \/ t = Keeper /\ Close(t, s)
    /\ UNCHANGED stopVars

----------------------------------------------------------------------------
(* Stop(), on the user's thread *)

StopGoto(from, to) == phase = from /\ phase' = to

\* _is_running = false and RpcTimeoutManager::stop(), which resets its own and
\* clears two of its lists.
BeginStop ==
    /\ StopGoto("running", "clear_events")
    /\ \A c \in Calls : pc[c] \in {"call", "wait"}
    /\ passed' \in SUBSET {t \in Workers \cup {Timer} :
                              IF t = Timer THEN At(t, "idle") ELSE AtOnClosed(t)}
    /\ addList' = {} /\ eraseSet' = {}
    /\ UNCHANGED <<streamVars, callVars, events, tmpAdd, threadVars>>

\* RpcTimeoutManager::clear(): timer_run holds _events_lock while it notifies.
ClearEvents ==
    /\ StopGoto("clear_events", "stop_streams")
    /\ pc[Timer] \in {"idle", "merge"}
    /\ events' = {}
    /\ UNCHANGED <<streamVars, callVars, addList, eraseSet, tmpAdd, threadVars, passed>>

\* Mutant: the streams are left to their destructors.
StopStreams_None ==
    /\ StopGoto("stop_streams", "join_work")
    /\ UNCHANGED <<vars, passed>>

\* StopStreams(): close the stream in the map, which runs its on_closed here.
StopStreams ==
    /\ StopGoto("stop_streams", "join_work")
    /\ \/ /\ streamMap # NoStream /\ status[streamMap] = "open"
          /\ status' = [status EXCEPT ![streamMap] = "closed"]
          /\ at' = [at EXCEPT ![Stopper] = streamMap]
          /\ Goto(Stopper, "on_closed")
       \/ /\ streamMap # NoStream => status[streamMap] = "closed"
          /\ UNCHANGED <<status, at, pc>>
    /\ UNCHANGED <<streamMap, controllers, queued, callVars, timeoutVars, on, code, todo, ret,
                   passed>>

\* Mutant: the timeout manager is reset before the workers are joined.
JoinWork_NoWait ==
    /\ StopGoto("join_work", "join_maintain")
    /\ At(Stopper, "idle")
    /\ streamMap' = NoStream
    /\ UNCHANGED <<status, controllers, queued, callVars, timeoutVars, threadVars, passed>>

\* _work_thread_group->stop(), _timeout_manager.reset() and ClearStreams().
JoinWork ==
    /\ StopGoto("join_work", "join_maintain")
    /\ \A w \in Workers \ {Keeper} : At(w, "idle")
    /\ streamMap' = NoStream
    /\ UNCHANGED <<status, controllers, queued, callVars, timeoutVars, threadVars, passed>>

\* _maintain_thread_group->stop().
JoinMaintain ==
    /\ StopGoto("join_maintain", "stopped")
    /\ At(Timer, "idle") /\ Timer \notin passed /\ At(Keeper, "idle")
    /\ UNCHANGED <<vars, passed>>

StopGoesOn == ClearEvents \/ StopStreams \/ JoinWork \/ JoinMaintain

----------------------------------------------------------------------------

ThreadStep(t) == DoneStepNow(t) \/ StreamStepNow(t)

StopNext ==
    /\ phase # "aborted"
    /\ \/ \E c \in Calls :
             \/ /\ At(c, "call") => Running
                /\ CallMethod(c) /\ UNCHANGED stopVars
             \/ NotRunning(c)
       \/ \E t \in Threads : ThreadStep(t)
       \/ \E t \in Workers, s \in Streams : HandlerNow(t, s)
       \/ TimerRunNow
       \/ BeginStop \/ StopGoesOn

StopSpec == StopInit /\ [][StopNext]_allVars

\* Some thread of the client, or the one in Stop(), goes on while one can;
\* Stop() need not be called.
StopFairness ==
    WF_allVars(/\ phase # "aborted"
               /\ \/ StopGoesOn \/ TimerRunNow
                  \/ \E t \in Workers \cup {Timer} : ThreadStep(t))

FairStopSpec == StopSpec /\ StopFairness

----------------------------------------------------------------------------
(* Properties *)

\* Stop() drops the timeout of every call that waits: each is ended by the
\* close of its stream instead, by whichever thread came first, so that nobody
\* waits and no connection is left when Stop() has returned.
StopEndsCalls ==
    phase = "stopped" =>
        /\ \A c \in Calls : At(c, "wait") => notified[c] > 0
        /\ \A s \in Streams : status[s] # "open"

\* Stop() returns, whatever the handlers, the timer and the waiting calls are
\* doing: it joins the threads that end these calls, holds _start_stop_lock,
\* and closes the streams with _stream_map_lock held.
StopTerminates == []<>(phase \in {"running", "stopped", "aborted"})

\* The assertion of operator-> (smart_ptr/shared_ptr.hpp:264): no thread uses
\* the timeout manager after Stop() has reset it.
ManagerAlive == phase # "aborted"
=============================================================================
