----------------------------- MODULE ByteStream -----------------------------
(***************************************************************************)
(* RpcByteStream (rpc_byte_stream.h): the life of one TCP connection,      *)
(* INIT -> CONNECTING -> CONNECTED -> CLOSED, driven by threads that share *)
(* the volatile int _status.  close() is an atomic swap; every other write *)
(* of _status is a plain store that follows an earlier read, so each is a  *)
(* step of its own here.                                                   *)
(*                                                                         *)
(* A client stream is connected by the thread that created it, after       *)
(* RpcClientImpl::FindOrCreateStream released the stream map lock, so      *)
(* other threads already see the stream; a server stream is connected by   *)
(* the accept handler, after OnAccepted put it into the stream set.        *)
(* The initial state is the one in which the stream has become visible.    *)
(*                                                                         *)
(* MessageStream composes these steps with those that send and receive.    *)
(***************************************************************************)
EXTENDS Naturals, FiniteSets

CONSTANTS
    Workers,         \* io_service threads and user threads
    Timer,           \* the thread that runs TimerMaintain
    Callers,         \* bound: the threads that call close() from outside
    Roles,           \* the ends the stream may be, of {"client", "server"}
    ConnectTimeout   \* TRUE iff _connect_timeout > 0

Threads == Workers \cup {Timer}

ASSUME ThreadAssumption == IsFiniteSet(Workers) /\ Workers # {} /\ Timer \notin Workers
ASSUME CallersAssumption == Callers \subseteq Threads
ASSUME RoleAssumption ==
    Roles \subseteq {"client", "server"} /\ Roles # {} /\ ConnectTimeout \in BOOLEAN

VARIABLES
    status,      \* _status
    pc,          \* the next step of each thread, "idle" outside the stream
    connecting,  \* the socket's async_connect operation
    timer,       \* the connect timer _timer
    closedRuns,  \* how often the hook on_closed() was called
    revived      \* how often a plain store overwrote STATUS_CLOSED

byteVars == <<status, pc, connecting, timer, closedRuns, revived>>

Statuses == {"INIT", "CONNECTING", "CONNECTED", "CLOSED"}

ByteLabels == {"idle", "async_connect", "accept", "store_connected", "close", "on_closed"}

----------------------------------------------------------------------------
(* Helpers *)

Goto(t, from, to) == pc[t] = from /\ pc' = [pc EXCEPT ![t] = to]

\* A plain store to _status, which does not look at the value it overwrites.
StoreStatus(s) ==
    /\ status' = s
    /\ revived' = IF status = "CLOSED" THEN revived + 1 ELSE revived

ByteInit ==
    /\ status = "INIT"
    /\ \E opener \in Workers, role \in Roles :
          pc = [t \in Threads |->
                  IF t # opener THEN "idle"
                  ELSE IF role = "client" THEN "async_connect" ELSE "accept"]
    /\ connecting = "none"
    /\ timer = "off"
    /\ closedRuns = 0
    /\ revived = 0

----------------------------------------------------------------------------
(* Opening the connection *)

\* async_connect(): store CONNECTING, start the connect and its timer.
AsyncConnect(t) ==
    /\ Goto(t, "async_connect", "idle")
    /\ StoreStatus("CONNECTING")
    /\ connecting' = "pending"
    /\ timer' = IF ConnectTimeout THEN "armed" ELSE "off"
    /\ UNCHANGED closedRuns

\* on_connect(), up to the store: a stream that is no longer CONNECTING is
\* left alone; an error of the connect, of the socket options or of the hook
\* on_connected() closes it.
OnConnect(t) ==
    /\ connecting = "pending"
    /\ connecting' = "done"
    /\ \/ status # "CONNECTING" /\ Goto(t, "idle", "idle")
       \/ status = "CONNECTING" /\ Goto(t, "idle", "close")
       \/ status = "CONNECTING" /\ Goto(t, "idle", "store_connected")
    /\ UNCHANGED <<status, timer, closedRuns, revived>>

\* RpcListener::on_accept() and set_socket_connected(), up to the store.
Accept(t) ==
    /\ \/ status = "CLOSED" /\ Goto(t, "accept", "idle")
       \/ status # "CLOSED" /\ Goto(t, "accept", "close")
       \/ status # "CLOSED" /\ Goto(t, "accept", "store_connected")
    /\ UNCHANGED <<status, connecting, timer, closedRuns, revived>>

\* The store of CONNECTED that ends on_connect() and set_socket_connected();
\* on_connect() then cancels the timer.  The thread goes on with "next".
StoreConnected(t, next) ==
    /\ Goto(t, "store_connected", next)
    /\ StoreStatus("CONNECTED")
    /\ timer' = IF timer = "armed" THEN "off" ELSE timer
    /\ UNCHANGED <<connecting, closedRuns>>

\* Mutant: a stream that is not CONNECTING when the timer fires is connected
\* again, closed or not.
OnConnectTimeout_Reconnect(t) ==
    /\ timer = "armed"
    /\ timer' = "fired"
    /\ Goto(t, "idle", IF status = "CONNECTING" THEN "close" ELSE "async_connect")
    /\ UNCHANGED <<status, connecting, closedRuns, revived>>

\* on_connect_timeout(): the check, and close() as a later step.
OnConnectTimeout(t) ==
    /\ timer = "armed"
    /\ timer' = "fired"
    /\ Goto(t, "idle", IF status = "CONNECTING" THEN "close" ELSE "idle")
    /\ UNCHANGED <<status, connecting, closedRuns, revived>>

----------------------------------------------------------------------------
(* Closing it *)

\* A call of close() from outside: keep alive, Shutdown, Stop.
CallClose(t) ==
    /\ Goto(t, "idle", "close")
    /\ UNCHANGED <<status, connecting, timer, closedRuns, revived>>

\* Mutant: close() does not look at the value the swap returns.
Close_Always(t) ==
    /\ Goto(t, "close", "on_closed")
    /\ status' = "CLOSED"
    /\ UNCHANGED <<connecting, timer, closedRuns, revived>>

\* close(): the atomic swap; only the thread that saw another value goes on.
Close(t) ==
    /\ Goto(t, "close", IF status = "CLOSED" THEN "idle" ELSE "on_closed")
    /\ status' = "CLOSED"
    /\ UNCHANGED <<connecting, timer, closedRuns, revived>>

\* close(): shut the socket down, which completes a connect in flight with an
\* error, and call the hook.
OnClosed(t) ==
    /\ Goto(t, "on_closed", "idle")
    /\ closedRuns' = closedRuns + 1
    /\ UNCHANGED <<status, connecting, timer, revived>>

----------------------------------------------------------------------------

(* Properties *)

RunningHook == {t \in Threads : pc[t] = "on_closed"}

\* Every passage into CLOSED calls on_closed() exactly once: the calls made
\* and the calls about to be made are as many as the passages, those that a
\* plain store has undone since included (close, rpc_byte_stream.h:95).
ClosedAccounting ==
    closedRuns + Cardinality(RunningHook) = revived + (IF status = "CLOSED" THEN 1 ELSE 0)

\* Only the two stores of the opening can undo a close: once the connect has
\* ended and no thread is about to store, CLOSED is final and nobody will
\* run on_closed() for it again.
Opening == connecting = "pending" \/ \E t \in Threads :
               pc[t] \in {"async_connect", "accept", "store_connected"}

ClosedIsFinal == [][status = "CLOSED" /\ ~Opening => status' = "CLOSED" /\ ~Opening']_byteVars

\* The comment of close(), "should run for only once".
ClosedOnce == closedRuns <= 1
=============================================================================
