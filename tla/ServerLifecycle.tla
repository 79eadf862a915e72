-------------------------- MODULE ServerLifecycle --------------------------
(***************************************************************************)
(* RpcServerImpl: start, stop, the listener and its restart by the         *)
(* maintenance timer, and the set of accepted streams.                     *)
(*                                                                         *)
(* Start() and Stop() run under _start_stop_lock; op is the next step of   *)
(* the one that holds it.  The handlers of the io threads (on_accept of a  *)
(* listener, the end of a stream) and the maintenance thread run without   *)
(* it, except for RestartListen().  A stop joins both thread groups, which *)
(* ends when nothing is left to do for their io services.                  *)
(***************************************************************************)
EXTENDS Naturals, FiniteSets

CONSTANTS
    Listeners, NoListener,      \* listener objects, the null pointer
    Streams, NoStream,          \* stream objects (used again after their end)
    MaxConnections              \* max_connection_count

ASSUME ListenerAssumption == NoListener \notin Listeners
ASSUME StreamAssumption == NoStream \notin Streams
ASSUME MaxConnectionsAssumption == MaxConnections \in Nat

VARIABLES
    running,    \* _is_running
    op,         \* step of the holder of _start_stop_lock, "idle" if it is free
    listener,   \* _listener
    closed,     \* listeners that are closed
    acceptor,   \* of each listener: the step of its chain of on_accept()
    incoming,   \* of each listener: the stream it is accepting
    status,     \* of each stream
    streamSet,  \* _stream_set
    late,       \* streams that entered the set after Stop() had begun (history)
    timer,      \* step of the maintenance thread
    ticking,    \* TimerWorker::_is_running
    crashed     \* the null listener was dereferenced

listenVars == <<listener, closed, acceptor, incoming>>
streamVars == <<status, streamSet, late>>
timerVars == <<timer, ticking, crashed>>
vars == <<running, op, listenVars, streamVars, timerVars>>

Init ==
    /\ running = FALSE
    /\ op = "idle"
    /\ listener = NoListener
    /\ closed = Listeners
    /\ acceptor = [l \in Listeners |-> "off"]
    /\ incoming = [l \in Listeners |-> NoStream]
    /\ status = [s \in Streams |-> "dead"]
    /\ streamSet = {}
    /\ late = {}
    /\ timer = "off"
    /\ ticking = FALSE
    /\ crashed = FALSE

\* Objects nobody refers to any more stand for the next one created.
FreeListeners == { l \in closed \ {listener} : acceptor[l] = "off" }
FreeStreams == { s \in Streams \ streamSet :
                    status[s] = "dead" /\ \A l \in Listeners : incoming[l] # s }

\* Work of the io services: accepts, and streams until on_closed() is over.
IoWork == \/ \E l \in Listeners : acceptor[l] # "off"
          \/ \E s \in Streams : status[s] # "dead"
-----------------------------------------------------------------------------
\* Mutant: the new listener is left closed.
Listen_Closed(l) ==
    /\ listener' = l
    /\ closed' = closed \cup ({listener} \cap Listeners)
    /\ UNCHANGED <<acceptor, incoming>>

(* A new listener: start_listen() may fail and leaves it closed.           *)
Listen(l) ==
    /\ listener' = l
    /\ closed' = (closed \cup ({listener} \cap Listeners)) \ {l}
    /\ acceptor' = [acceptor EXCEPT ![l] = "accept"]
    /\ UNCHANGED incoming

Start ==
    /\ op = "idle" /\ ~running
    /\ op' = "listen"
    /\ UNCHANGED <<running, listenVars, streamVars, timerVars>>

StartListen ==
    /\ op = "listen"
    /\ \/ /\ \E l \in FreeListeners : Listen(l)
          /\ op' = "run"
       \/ op' = "idle" /\ UNCHANGED listenVars
    /\ UNCHANGED <<running, streamVars, timerVars>>

StartRun ==
    /\ op = "run"
    /\ timer' = "wait"
    /\ ticking' = TRUE
    /\ running' = TRUE
    /\ op' = "idle"
    /\ UNCHANGED <<listenVars, streamVars, crashed>>

Stop ==
    /\ op = "idle" /\ running
    /\ running' = FALSE
    /\ op' = "stop_timer"
    /\ UNCHANGED <<listenVars, streamVars, timerVars>>

StopTimer ==
    /\ op = "stop_timer"
    /\ ticking' = FALSE
    /\ op' = "close_listener"
    /\ UNCHANGED <<running, listenVars, streamVars, timer, crashed>>

CloseListener ==
    /\ op = "close_listener"
    /\ closed' = closed \cup {listener}
    /\ op' = "stop_streams"
    /\ UNCHANGED <<running, listener, acceptor, incoming, streamVars, timerVars>>

\* Mutant: streams are dropped from the set without being closed.
StopStreams_None ==
    /\ op = "stop_streams"
    /\ op' = "reset_listener"
    /\ UNCHANGED <<running, listenVars, streamVars, timerVars>>

\* Closes every stream of the set; OnClosed() sees that the server stops.
StopStreams ==
    /\ op = "stop_streams"
    /\ status' = [s \in Streams |->
                    IF s \in streamSet /\ status[s] \in {"opening", "connected"} THEN "dead"
                    ELSE status[s]]
    /\ op' = "reset_listener"
    /\ UNCHANGED <<running, listenVars, streamSet, late, timerVars>>

ResetListener ==
    /\ op = "reset_listener"
    /\ listener' = NoListener
    /\ op' = "clear_streams"
    /\ UNCHANGED <<running, closed, acceptor, incoming, streamVars, timerVars>>

ClearStreams ==
    /\ op = "clear_streams"
    /\ streamSet' = {}
    /\ op' = "join_io"
    /\ UNCHANGED <<running, listenVars, status, late, timerVars>>

\* Mutant: the io threads are not joined.
JoinIo_NoWait ==
    /\ op = "join_io"
    /\ op' = "join_timer"
    /\ UNCHANGED <<running, listenVars, streamVars, timerVars>>

JoinIo ==
    /\ op = "join_io"
    /\ ~IoWork
    /\ op' = "join_timer"
    /\ UNCHANGED <<running, listenVars, streamVars, timerVars>>

JoinTimer ==
    /\ op = "join_timer"
    /\ timer = "off"
    /\ op' = "idle"
    /\ UNCHANGED <<running, listenVars, streamVars, timerVars>>
-----------------------------------------------------------------------------
(* RpcListener::on_accept(), a chain: the next async_accept() comes last.   *)
NextAccept(l) ==
    /\ acceptor' = [acceptor EXCEPT ![l] = "accept"]
    /\ incoming' = [incoming EXCEPT ![l] = NoStream]

Advance(l, step) == acceptor' = [acceptor EXCEPT ![l] = step]

\* The accept was cancelled, fails and closes the listener, or succeeds.
OnAccept(l) ==
    /\ acceptor[l] = "accept"
    /\ \/ /\ closed' = closed \cup {l}
          /\ Advance(l, "off")
          /\ UNCHANGED <<incoming, streamVars>>
       \/ /\ l \notin closed
          /\ \E s \in FreeStreams :
                /\ incoming' = [incoming EXCEPT ![l] = s]
                /\ status' = [status EXCEPT ![s] = "opening"]
                /\ late' = late \ {s}
          /\ Advance(l, "accepted")
          /\ UNCHANGED <<closed, streamSet>>
    /\ UNCHANGED <<running, op, listener, timerVars>>

\* A stream that was not accepted is closed; it is in no set.
Refuse(l) ==
    /\ status' = [status EXCEPT ![incoming[l]] = "dead"]
    /\ NextAccept(l)

OnAccepted(l) ==
    /\ acceptor[l] = "accepted"
    /\ \/ running /\ Advance(l, "count") /\ UNCHANGED <<incoming, status>>
       \/ ~running /\ Refuse(l)
    /\ UNCHANGED <<running, op, listener, closed, streamSet, late, timerVars>>

\* Mutant: one connection too many.
CheckCount_OneMore(l) ==
    /\ acceptor[l] = "count"
    /\ IF Cardinality(streamSet) > MaxConnections THEN Refuse(l)
       ELSE Advance(l, "insert") /\ UNCHANGED <<incoming, status>>
    /\ UNCHANGED <<running, op, listener, closed, streamSet, late, timerVars>>

CheckCount(l) ==
    /\ acceptor[l] = "count"
    /\ IF Cardinality(streamSet) >= MaxConnections THEN Refuse(l)
       ELSE Advance(l, "insert") /\ UNCHANGED <<incoming, status>>
    /\ UNCHANGED <<running, op, listener, closed, streamSet, late, timerVars>>

Insert(l) ==
    /\ acceptor[l] = "insert"
    /\ streamSet' = streamSet \cup {incoming[l]}
    /\ late' = IF running THEN late ELSE late \cup {incoming[l]}
    /\ Advance(l, "connect")
    /\ UNCHANGED <<running, op, listener, closed, incoming, status, timerVars>>

SetConnected(l) ==
    /\ acceptor[l] = "connect"
    /\ status' = [status EXCEPT ![incoming[l]] = IF @ = "opening" THEN "connected" ELSE @]
    /\ NextAccept(l)
    /\ UNCHANGED <<running, op, listener, closed, streamSet, late, timerVars>>
-----------------------------------------------------------------------------
(* A stream ends: its peer leaves, an error occurs, or the keep alive check *)
(* of the maintenance closes it.  OnClosed() looks at _is_running first.    *)
CloseStream(s) ==
    /\ status[s] = "connected"
    /\ status' = [status EXCEPT ![s] = "closing"]
    /\ UNCHANGED <<running, op, listenVars, streamSet, late, timerVars>>

\* Mutant: OnClosed() erases a stream only while the server does not run.
OnClosed_Keep(s) ==
    /\ status[s] = "closing"
    /\ status' = [status EXCEPT ![s] = IF running THEN "dead" ELSE "erasing"]
    /\ UNCHANGED <<running, op, listenVars, streamSet, late, timerVars>>

OnClosed(s) ==
    /\ status[s] = "closing"
    /\ status' = [status EXCEPT ![s] = IF running THEN "erasing" ELSE "dead"]
    /\ UNCHANGED <<running, op, listenVars, streamSet, late, timerVars>>

Erase(s) ==
    /\ status[s] = "erasing"
    /\ streamSet' = streamSet \ {s}
    /\ status' = [status EXCEPT ![s] = "dead"]
    /\ UNCHANGED <<running, op, listenVars, late, timerVars>>
-----------------------------------------------------------------------------
(* The maintenance thread: TimerWorker::on_timeout(), which arms the timer  *)
(* again in any case, and the part of TimerMaintain() about the listener.   *)
OnTimeout ==
    /\ timer = "wait"
    /\ timer' = IF ticking THEN "check" ELSE "off"
    /\ UNCHANGED <<running, op, listenVars, streamVars, ticking, crashed>>

\* Mutant: the listener is restarted whether it is closed or not.
CheckListener_Always ==
    /\ timer = "check"
    /\ crashed' = (listener = NoListener)
    /\ timer' \in {"wait", "restart"}
    /\ UNCHANGED <<running, op, listenVars, streamVars, ticking>>

\* A closed listener is restarted if the last attempt is long enough ago.
CheckListener ==
    /\ timer = "check"
    /\ crashed' = (listener = NoListener)
    /\ \/ timer' = "wait"
       \/ listener \in closed /\ timer' = "restart"
    /\ UNCHANGED <<running, op, listenVars, streamVars, ticking>>

\* RestartListen() waits for _start_stop_lock.
RestartListen ==
    /\ timer = "restart"
    /\ op = "idle"
    /\ timer' = "wait"
    /\ UNCHANGED <<running, op, streamVars, ticking, crashed>>

RestartOk == RestartListen /\ running /\ \E l \in FreeListeners : Listen(l)
RestartFails ==
    /\ RestartListen
    /\ IF running
       THEN \E l \in FreeListeners : listener' = l /\ closed' = closed \cup {listener}
       ELSE UNCHANGED <<listener, closed>>
    /\ UNCHANGED <<acceptor, incoming>>
-----------------------------------------------------------------------------
StopStep == StopTimer \/ CloseListener \/ StopStreams \/ ResetListener
              \/ ClearStreams \/ JoinIo \/ JoinTimer
AcceptStep(l) == OnAccepted(l) \/ CheckCount(l) \/ Insert(l) \/ SetConnected(l)
EndStep(s) == OnClosed(s) \/ Erase(s)
TimerStep == OnTimeout \/ CheckListener \/ RestartOk \/ RestartFails

Next ==
    /\ ~crashed
    /\ \/ Start \/ StartListen \/ StartRun \/ Stop \/ StopStep
       \/ \E l \in Listeners : OnAccept(l) \/ AcceptStep(l)
       \/ \E s \in Streams : CloseStream(s) \/ EndStep(s)
       \/ TimerStep

Spec == Init /\ [][Next]_vars

\* Threads run; what Stop() cancels completes.  The restart interval passes
\* and start_listen() succeeds in the long run.  Nobody has to connect, to
\* leave or to call Start() and Stop().
Fairness ==
    /\ WF_vars(~crashed /\ (StartListen \/ StartRun \/ StopStep))
    /\ \A l \in Listeners : /\ WF_vars(~crashed /\ AcceptStep(l))
                            /\ WF_vars(~crashed /\ l \in closed /\ OnAccept(l))
    /\ \A s \in Streams : WF_vars(~crashed /\ EndStep(s))
    /\ WF_vars(~crashed /\ (OnTimeout \/ CheckListener))
    /\ SF_vars(~crashed /\ CheckListener /\ timer' = "restart")
    /\ SF_vars(~crashed /\ RestartOk)

FairSpec == Spec /\ Fairness
-----------------------------------------------------------------------------
(* The state stays within its types. *)
ServerTypeOK ==
    /\ running \in BOOLEAN
    /\ op \in {"idle", "listen", "run", "stop_timer", "close_listener", "stop_streams",
              "reset_listener", "clear_streams", "join_io", "join_timer"}
    /\ listener \in Listeners \cup {NoListener}
    /\ closed \subseteq Listeners
    /\ acceptor \in [Listeners -> {"off", "accept", "accepted", "count", "insert", "connect"}]
    /\ incoming \in [Listeners -> Streams \cup {NoStream}]
    /\ \A l \in Listeners : acceptor[l] \notin {"off", "accept"} => incoming[l] \in Streams
    /\ status \in [Streams -> {"dead", "opening", "connected", "closing", "erasing"}]
    /\ streamSet \subseteq Streams
    /\ late \subseteq Streams
    /\ timer \in {"off", "wait", "check", "restart"}
    /\ ticking \in BOOLEAN
    /\ crashed \in BOOLEAN

\* Only the current listener can be open, and only one accept handler runs at
\* a time: restarts do not make two chains of on_accept().
OneListener ==
    /\ Listeners \ closed \subseteq {listener}
    /\ Cardinality({ l \in Listeners : acceptor[l] \notin {"off", "accept"} }) <= 1

(* max_connection_count holds although the count is checked and the stream   *)
(* inserted under two locks: that is safe as long as there is one chain.     *)
ConnectionLimit == OneListener /\ Cardinality(streamSet) <= MaxConnections

(* While the server runs, the set and the connections agree: a connected     *)
(* stream is in the set, and a stream in the set that has ended is one that  *)
(* slipped in behind an earlier Stop().                                      *)
StreamsTracked ==
    /\ running => \A s \in Streams : status[s] = "connected" => s \in streamSet
    /\ \A s \in streamSet : status[s] = "dead" /\ running => s \in late

(* When Stop() has returned nothing of the server is left: no open listener, *)
(* no accept, no stream in any state and no timer.                           *)
StoppedIsQuiet ==
    ~running /\ op = "idle" => ~IoWork /\ timer = "off" /\ closed = Listeners

(* A listener that was closed by an accept error is replaced.                *)
ListenResumes ==
    (running /\ listener \in closed) ~> (listener \notin closed \/ ~running \/ crashed)

(* Stop() returns, but for three races with it: the maintenance waits for    *)
(* the lock in RestartListen(), it uses the listener that was reset, or a    *)
(* connection accepted too late to be closed stays open.                     *)
StopEnds ==
    op = "stop_timer" ~> \/ op = "idle"
                         \/ timer = "restart"
                         \/ crashed
                         \/ \E s \in late : status[s] = "connected"

(* rpc_server.h:127, "Stop the server": Stop() returns once all peers have   *)
(* left (and the process lives).                                             *)
StopReturns ==
    op = "stop_timer" ~> (op = "idle" \/ crashed \/ \E s \in Streams : status[s] = "connected")

(* rpc_server.h:185, ConnectionCount() is "the count of current alive        *)
(* connections": an ended stream does not stay in the set.                   *)
CountsAlive == \A s \in streamSet : ~(status[s] = "dead" /\ running)

(* smart_ptr/shared_ptr.hpp:264, the assertion of operator->: the            *)
(* maintenance finds a listener to ask.                                      *)
ListenerAlive == ~crashed
=============================================================================
