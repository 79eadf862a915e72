------------------------ MODULE ServerLifecycleProofs ------------------------
(* Proofs about ServerLifecycle, for any listeners, streams and limit.      *)
EXTENDS ServerLifecycle, FiniteSetTheorems, TLAPS

\* Stop() has closed the listener and not yet joined the io threads.
Closing == {"stop_streams", "reset_listener", "clear_streams", "join_io"}

\* Stop() has begun and not yet cleared the set of streams.
Clearing == {"stop_timer", "close_listener", "stop_streams", "reset_listener", "clear_streams"}

(* The steps of Start() and Stop(), _is_running, _listener and the timer go *)
(* together.                                                                *)
Phases ==
    /\ running => op = "idle" /\ listener \in Listeners
    /\ op \in {"run", "stop_timer", "close_listener"} => listener \in Listeners
    /\ ~running /\ op \in {"idle", "listen", "clear_streams", "join_io", "join_timer"}
         => listener = NoListener
    /\ ~running /\ op \notin {"run", "stop_timer", "close_listener"} => closed = Listeners
    /\ ~running /\ op \in {"idle", "listen", "run"} => timer = "off"
    /\ running /\ timer = "restart" => listener \in closed

(* A closed listener has no chain of on_accept(), except while Stop() waits *)
(* for it, so there is one chain at most.                                   *)
Chains ==
    /\ Listeners \ closed \subseteq {listener}
    /\ \A l \in closed : acceptor[l] = "off" \/ op \in Closing
    /\ \A k, l \in Listeners : acceptor[k] # "off" /\ acceptor[l] # "off" => k = l

(* The one chain is the only one to add to the set.                         *)
Counted ==
    /\ IsFiniteSet(streamSet)
    /\ Cardinality(streamSet) <= MaxConnections
    /\ \A l \in Listeners : acceptor[l] = "insert" => Cardinality(streamSet) < MaxConnections

(* Where a stream is on its way into the set and out of it.                 *)
Tracked ==
    /\ \A l \in Listeners : acceptor[l] \in {"accepted", "count", "insert"}
         => incoming[l] \notin streamSet /\ status[incoming[l]] = "opening"
    /\ \A l \in Listeners : acceptor[l] = "connect"
         => /\ status[incoming[l]] \in {"opening", "dead"}
            /\ incoming[l] \in streamSet \/ op = "join_io"
    /\ \A s \in Streams : status[s] \in {"connected", "closing", "erasing"}
         => s \in streamSet \/ op = "join_io"
    /\ \A s \in streamSet \ late : status[s] # "dead" \/ op \in Clearing
    /\ ~running /\ op \notin Clearing => streamSet \subseteq late
    /\ ~running /\ op \in {"idle", "listen", "join_timer"} => \A s \in Streams : status[s] = "dead"

ServerInv == ServerTypeOK /\ Phases /\ Chains /\ Counted /\ Tracked

USE ListenerAssumption, StreamAssumption, MaxConnectionsAssumption

(* Starting the server: the listener first, then the maintenance.           *)
LEMMA StartKeeps ==
    ASSUME ServerInv, Start \/ StartListen \/ StartRun
    PROVE  ServerInv'
<1>. USE DEF ServerInv, listenVars, streamVars, timerVars
<1>1. CASE Start
  <2>1. ServerTypeOK'
    BY <1>1 DEF Start, ServerTypeOK, Phases
  <2>2. Phases'
    BY <1>1 DEF Start, ServerTypeOK, Phases
  <2>3. Chains'
    BY <1>1 DEF Start, ServerTypeOK, Phases, Chains, Closing
  <2>4. Counted'
    BY <1>1 DEF Start, ServerTypeOK, Counted
  <2>5. Tracked'
    BY <1>1 DEF Start, ServerTypeOK, Phases, Chains, Tracked, Clearing, Closing
  <2>. QED BY <2>1, <2>2, <2>3, <2>4, <2>5
<1>2. CASE StartListen
  <2>1. ServerTypeOK'
    BY <1>2 DEF StartListen, Listen, FreeListeners, ServerTypeOK, Phases
  <2>2. Phases'
    BY <1>2 DEF StartListen, Listen, FreeListeners, ServerTypeOK, Phases
  <2>3. Chains'
    BY <1>2 DEF StartListen, Listen, FreeListeners, ServerTypeOK, Phases, Chains, Closing
  <2>4. Counted'
    BY <1>2 DEF StartListen, Listen, FreeListeners, ServerTypeOK, Counted
  <2>5. Tracked'
    BY <1>2 DEF StartListen, Listen, FreeListeners, ServerTypeOK, Phases, Chains, Tracked, Clearing, Closing
  <2>. QED BY <2>1, <2>2, <2>3, <2>4, <2>5
<1>3. CASE StartRun
  <2>1. ServerTypeOK'
    BY <1>3 DEF StartRun, ServerTypeOK, Phases
  <2>2. Phases'
    BY <1>3 DEF StartRun, ServerTypeOK, Phases
  <2>3. Chains'
    BY <1>3 DEF StartRun, ServerTypeOK, Phases, Chains, Closing
  <2>4. Counted'
    BY <1>3 DEF StartRun, ServerTypeOK, Counted
  <2>5. Tracked'
    BY <1>3 DEF StartRun, ServerTypeOK, Phases, Chains, Tracked, Clearing, Closing
  <2>. QED BY <2>1, <2>2, <2>3, <2>4, <2>5
<1>. QED BY <1>1, <1>2, <1>3

(* Stopping it, up to the joins.                                            *)
LEMMA StopKeeps ==
    ASSUME ServerInv, Stop \/ StopStep
    PROVE  ServerInv'
<1>. USE DEF ServerInv, listenVars, streamVars, timerVars
<1>1. CASE Stop
  <2>1. ServerTypeOK'
    BY <1>1 DEF Stop, ServerTypeOK, Phases
  <2>2. Phases'
    BY <1>1 DEF Stop, ServerTypeOK, Phases
  <2>3. Chains'
    BY <1>1 DEF Stop, ServerTypeOK, Phases, Chains, Closing
  <2>4. Counted'
    BY <1>1 DEF Stop, ServerTypeOK, Counted
  <2>5. Tracked'
    BY <1>1 DEF Stop, ServerTypeOK, Phases, Chains, Tracked, Clearing, Closing
  <2>. QED BY <2>1, <2>2, <2>3, <2>4, <2>5
<1>2. CASE StopTimer
  <2>1. ServerTypeOK'
    BY <1>2 DEF StopTimer, ServerTypeOK, Phases
  <2>2. Phases'
    BY <1>2 DEF StopTimer, ServerTypeOK, Phases
  <2>3. Chains'
    BY <1>2 DEF StopTimer, ServerTypeOK, Phases, Chains, Closing
  <2>4. Counted'
    BY <1>2 DEF StopTimer, ServerTypeOK, Counted
  <2>5. Tracked'
    BY <1>2 DEF StopTimer, ServerTypeOK, Phases, Chains, Tracked, Clearing, Closing
  <2>. QED BY <2>1, <2>2, <2>3, <2>4, <2>5
<1>3. CASE CloseListener
  <2>1. ServerTypeOK'
    BY <1>3 DEF CloseListener, ServerTypeOK, Phases
  <2>2. Phases'
    BY <1>3 DEF CloseListener, ServerTypeOK, Phases, Chains
  <2>3. Chains'
    BY <1>3 DEF CloseListener, ServerTypeOK, Phases, Chains, Closing
  <2>4. Counted'
    BY <1>3 DEF CloseListener, ServerTypeOK, Counted
  <2>5. Tracked'
    BY <1>3 DEF CloseListener, ServerTypeOK, Phases, Chains, Tracked, Clearing, Closing
  <2>. QED BY <2>1, <2>2, <2>3, <2>4, <2>5
<1>4. CASE StopStreams
  <2>1. ServerTypeOK'
    BY <1>4 DEF StopStreams, ServerTypeOK, Phases
  <2>2. Phases'
    BY <1>4 DEF StopStreams, ServerTypeOK, Phases
  <2>3. Chains'
    BY <1>4 DEF StopStreams, ServerTypeOK, Phases, Chains, Closing
  <2>4. Counted'
    BY <1>4 DEF StopStreams, ServerTypeOK, Counted
  <2>5. Tracked'
    BY <1>4 DEF StopStreams, ServerTypeOK, Phases, Chains, Tracked, Clearing, Closing
  <2>. QED BY <2>1, <2>2, <2>3, <2>4, <2>5
<1>5. CASE ResetListener
  <2>1. ServerTypeOK'
    BY <1>5 DEF ResetListener, ServerTypeOK, Phases
  <2>2. Phases'
    BY <1>5 DEF ResetListener, ServerTypeOK, Phases
  <2>3. Chains'
    BY <1>5 DEF ResetListener, ServerTypeOK, Phases, Chains, Closing
  <2>4. Counted'
    BY <1>5 DEF ResetListener, ServerTypeOK, Counted
  <2>5. Tracked'
    BY <1>5 DEF ResetListener, ServerTypeOK, Phases, Chains, Tracked, Clearing, Closing
  <2>. QED BY <2>1, <2>2, <2>3, <2>4, <2>5
<1>6. CASE ClearStreams
  <2>1. ServerTypeOK'
    BY <1>6 DEF ClearStreams, ServerTypeOK, Phases
  <2>2. Phases'
    BY <1>6 DEF ClearStreams, ServerTypeOK, Phases
  <2>3. Chains'
    BY <1>6 DEF ClearStreams, ServerTypeOK, Phases, Chains, Closing
  <2>4. Counted'
    <3>1. streamSet' = {} /\ acceptor' = acceptor
      BY <1>6 DEF ClearStreams
    <3>2. Cardinality(streamSet) \in Nat
      BY FS_CardinalityType DEF Counted
    <3>. QED BY <3>1, <3>2, FS_EmptySet DEF Counted
  <2>5. Tracked'
    BY <1>6 DEF ClearStreams, ServerTypeOK, Phases, Chains, Tracked, Clearing, Closing
  <2>. QED BY <2>1, <2>2, <2>3, <2>4, <2>5
<1>7. CASE JoinIo
  <2>1. ServerTypeOK'
    BY <1>7 DEF JoinIo, IoWork, ServerTypeOK, Phases
  <2>2. Phases'
    BY <1>7 DEF JoinIo, IoWork, ServerTypeOK, Phases
  <2>3. Chains'
    BY <1>7 DEF JoinIo, IoWork, ServerTypeOK, Phases, Chains, Closing
  <2>4. Counted'
    BY <1>7 DEF JoinIo, IoWork, ServerTypeOK, Counted
  <2>5. Tracked'
    BY <1>7 DEF JoinIo, IoWork, ServerTypeOK, Phases, Chains, Tracked, Clearing, Closing
  <2>. QED BY <2>1, <2>2, <2>3, <2>4, <2>5
<1>8. CASE JoinTimer
  <2>1. ServerTypeOK'
    BY <1>8 DEF JoinTimer, ServerTypeOK, Phases
  <2>2. Phases'
    BY <1>8 DEF JoinTimer, ServerTypeOK, Phases
  <2>3. Chains'
    BY <1>8 DEF JoinTimer, ServerTypeOK, Phases, Chains, Closing
  <2>4. Counted'
    BY <1>8 DEF JoinTimer, ServerTypeOK, Counted
  <2>5. Tracked'
    BY <1>8 DEF JoinTimer, ServerTypeOK, Phases, Chains, Tracked, Clearing, Closing
  <2>. QED BY <2>1, <2>2, <2>3, <2>4, <2>5
<1>. QED BY <1>1, <1>2, <1>3, <1>4, <1>5, <1>6, <1>7, <1>8 DEF StopStep

(* The chain of a listener.                                                 *)
LEMMA AcceptKeeps ==
    ASSUME ServerInv, NEW l \in Listeners, OnAccept(l) \/ AcceptStep(l)
    PROVE  ServerInv'
<1>. USE DEF ServerInv, listenVars, streamVars, timerVars
<1>1. CASE OnAccept(l)
  <2>1. ServerTypeOK'
    BY <1>1 DEF OnAccept, Advance, FreeStreams, ServerTypeOK, Phases
  <2>2. Phases'
    BY <1>1 DEF OnAccept, Advance, FreeStreams, ServerTypeOK, Phases
  <2>3. Chains'
    BY <1>1 DEF OnAccept, Advance, FreeStreams, ServerTypeOK, Phases, Chains, Closing
  <2>4. Counted'
    BY <1>1 DEF OnAccept, Advance, FreeStreams, ServerTypeOK, Counted
  <2>5. Tracked'
    BY <1>1 DEF OnAccept, Advance, FreeStreams, ServerTypeOK, Phases, Chains, Tracked, Clearing, Closing
  <2>. QED BY <2>1, <2>2, <2>3, <2>4, <2>5
<1>2. CASE OnAccepted(l)
  <2>1. ServerTypeOK'
    BY <1>2 DEF OnAccepted, Advance, Refuse, NextAccept, ServerTypeOK, Phases
  <2>2. Phases'
    BY <1>2 DEF OnAccepted, Advance, Refuse, NextAccept, ServerTypeOK, Phases
  <2>3. Chains'
    BY <1>2 DEF OnAccepted, Advance, Refuse, NextAccept, ServerTypeOK, Phases, Chains, Closing
  <2>4. Counted'
    BY <1>2 DEF OnAccepted, Advance, Refuse, NextAccept, ServerTypeOK, Counted
  <2>5. Tracked'
    BY <1>2 DEF OnAccepted, Advance, Refuse, NextAccept, ServerTypeOK, Phases, Chains, Tracked, Clearing, Closing
  <2>. QED BY <2>1, <2>2, <2>3, <2>4, <2>5
<1>3. CASE CheckCount(l)
  <2>1. ServerTypeOK'
    BY <1>3 DEF CheckCount, Advance, Refuse, NextAccept, ServerTypeOK, Phases
  <2>2. Phases'
    BY <1>3 DEF CheckCount, Advance, Refuse, NextAccept, ServerTypeOK, Phases
  <2>3. Chains'
    BY <1>3 DEF CheckCount, Advance, Refuse, NextAccept, ServerTypeOK, Phases, Chains, Closing
  <2>4. Counted'
    <3>1. Cardinality(streamSet) \in Nat
      BY FS_CardinalityType DEF Counted
    <3>. QED BY <1>3, <3>1 DEF CheckCount, Advance, Refuse, NextAccept, ServerTypeOK, Counted
  <2>5. Tracked'
    BY <1>3 DEF CheckCount, Advance, Refuse, NextAccept, ServerTypeOK, Phases, Chains, Tracked, Clearing, Closing
  <2>. QED BY <2>1, <2>2, <2>3, <2>4, <2>5
<1>4. CASE Insert(l)
  <2>1. ServerTypeOK'
    BY <1>4 DEF Insert, Advance, ServerTypeOK, Phases
  <2>2. Phases'
    BY <1>4 DEF Insert, Advance, ServerTypeOK, Phases
  <2>3. Chains'
    BY <1>4 DEF Insert, Advance, ServerTypeOK, Phases, Chains, Closing
  <2>4. Counted'
    <3>1. IsFiniteSet(streamSet) /\ Cardinality(streamSet) < MaxConnections
      BY <1>4 DEF Insert, Counted
    <3>2. Cardinality(streamSet) \in Nat
      BY <3>1, FS_CardinalityType
    <3>3. IsFiniteSet(streamSet') /\ Cardinality(streamSet') <= Cardinality(streamSet) + 1
      <4>1. streamSet' = streamSet \cup {incoming[l]}
        BY <1>4 DEF Insert
      <4>2. /\ IsFiniteSet(streamSet \cup {incoming[l]})
            /\ Cardinality(streamSet \cup {incoming[l]})
                 = IF incoming[l] \in streamSet THEN Cardinality(streamSet) ELSE Cardinality(streamSet) + 1
        BY <3>1, FS_AddElement
      <4>. QED BY <3>2, <4>1, <4>2
    <3>4. Cardinality(streamSet') \in Nat
      BY <3>3, FS_CardinalityType
    <3>5. \A k \in Listeners : acceptor'[k] # "insert"
      BY <1>4 DEF Insert, Advance, ServerTypeOK, Chains
    <3>. QED BY <3>1, <3>2, <3>3, <3>4, <3>5 DEF Counted
  <2>5. Tracked'
    BY <1>4 DEF Insert, Advance, ServerTypeOK, Phases, Chains, Tracked, Clearing, Closing
  <2>. QED BY <2>1, <2>2, <2>3, <2>4, <2>5
<1>5. CASE SetConnected(l)
  <2>1. ServerTypeOK'
    BY <1>5 DEF SetConnected, NextAccept, ServerTypeOK, Phases
  <2>2. Phases'
    BY <1>5 DEF SetConnected, NextAccept, ServerTypeOK, Phases
  <2>3. Chains'
    BY <1>5 DEF SetConnected, NextAccept, ServerTypeOK, Phases, Chains, Closing
  <2>4. Counted'
    BY <1>5 DEF SetConnected, NextAccept, ServerTypeOK, Counted
  <2>5. Tracked'
    BY <1>5 DEF SetConnected, NextAccept, ServerTypeOK, Phases, Chains, Tracked, Clearing, Closing
  <2>. QED BY <2>1, <2>2, <2>3, <2>4, <2>5
<1>. QED BY <1>1, <1>2, <1>3, <1>4, <1>5 DEF AcceptStep

(* The end of a stream.                                                     *)
LEMMA EndKeeps ==
    ASSUME ServerInv, NEW s \in Streams, CloseStream(s) \/ EndStep(s)
    PROVE  ServerInv'
<1>. USE DEF ServerInv, listenVars, streamVars, timerVars
<1>1. CASE CloseStream(s)
  <2>1. ServerTypeOK'
    BY <1>1 DEF CloseStream, ServerTypeOK, Phases
  <2>2. Phases'
    BY <1>1 DEF CloseStream, ServerTypeOK, Phases
  <2>3. Chains'
    BY <1>1 DEF CloseStream, ServerTypeOK, Phases, Chains, Closing
  <2>4. Counted'
    BY <1>1 DEF CloseStream, ServerTypeOK, Counted
  <2>5. Tracked'
    BY <1>1 DEF CloseStream, ServerTypeOK, Phases, Chains, Tracked, Clearing, Closing
  <2>. QED BY <2>1, <2>2, <2>3, <2>4, <2>5
<1>2. CASE OnClosed(s)
  <2>1. ServerTypeOK'
    BY <1>2 DEF OnClosed, ServerTypeOK, Phases
  <2>2. Phases'
    BY <1>2 DEF OnClosed, ServerTypeOK, Phases
  <2>3. Chains'
    BY <1>2 DEF OnClosed, ServerTypeOK, Phases, Chains, Closing
  <2>4. Counted'
    BY <1>2 DEF OnClosed, ServerTypeOK, Counted
  <2>5. Tracked'
    BY <1>2 DEF OnClosed, ServerTypeOK, Phases, Chains, Tracked, Clearing, Closing
  <2>. QED BY <2>1, <2>2, <2>3, <2>4, <2>5
<1>3. CASE Erase(s)
  <2>1. ServerTypeOK'
    BY <1>3 DEF Erase, ServerTypeOK, Phases
  <2>2. Phases'
    BY <1>3 DEF Erase, ServerTypeOK, Phases
  <2>3. Chains'
    BY <1>3 DEF Erase, ServerTypeOK, Phases, Chains, Closing
  <2>4. Counted'
    <3>1. IsFiniteSet(streamSet)
      BY DEF Counted
    <3>2. IsFiniteSet(streamSet') /\ Cardinality(streamSet') <= Cardinality(streamSet)
      BY <1>3, <3>1, FS_Subset DEF Erase
    <3>3. Cardinality(streamSet') \in Nat /\ Cardinality(streamSet) \in Nat
      BY <3>1, <3>2, FS_CardinalityType
    <3>. QED BY <1>3, <3>2, <3>3 DEF Erase, Counted
  <2>5. Tracked'
    BY <1>3 DEF Erase, ServerTypeOK, Phases, Chains, Tracked, Clearing, Closing
  <2>. QED BY <2>1, <2>2, <2>3, <2>4, <2>5
<1>. QED BY <1>1, <1>2, <1>3 DEF EndStep

(* The maintenance thread.                                                  *)
LEMMA TimerKeeps ==
    ASSUME ServerInv, ~crashed, TimerStep
    PROVE  ServerInv'
<1>. USE DEF ServerInv, listenVars, streamVars, timerVars
<1>1. CASE OnTimeout
  <2>1. ServerTypeOK'
    BY <1>1 DEF OnTimeout, ServerTypeOK, Phases
  <2>2. Phases'
    BY <1>1 DEF OnTimeout, ServerTypeOK, Phases
  <2>3. Chains'
    BY <1>1 DEF OnTimeout, ServerTypeOK, Phases, Chains, Closing
  <2>4. Counted'
    BY <1>1 DEF OnTimeout, ServerTypeOK, Counted
  <2>5. Tracked'
    BY <1>1 DEF OnTimeout, ServerTypeOK, Phases, Chains, Tracked, Clearing, Closing
  <2>. QED BY <2>1, <2>2, <2>3, <2>4, <2>5
<1>2. CASE CheckListener
  <2>1. ServerTypeOK'
    BY <1>2 DEF CheckListener, ServerTypeOK, Phases
  <2>2. Phases'
    BY <1>2 DEF CheckListener, ServerTypeOK, Phases
  <2>3. Chains'
    BY <1>2 DEF CheckListener, ServerTypeOK, Phases, Chains, Closing
  <2>4. Counted'
    BY <1>2 DEF CheckListener, ServerTypeOK, Counted
  <2>5. Tracked'
    BY <1>2 DEF CheckListener, ServerTypeOK, Phases, Chains, Tracked, Clearing, Closing
  <2>. QED BY <2>1, <2>2, <2>3, <2>4, <2>5
<1>3. CASE RestartOk
  <2>1. ServerTypeOK'
    BY <1>3 DEF RestartOk, RestartListen, Listen, FreeListeners, ServerTypeOK, Phases
  <2>2. Phases'
    BY <1>3 DEF RestartOk, RestartListen, Listen, FreeListeners, ServerTypeOK, Phases
  <2>3. Chains'
    BY <1>3 DEF RestartOk, RestartListen, Listen, FreeListeners, ServerTypeOK, Phases, Chains, Closing
  <2>4. Counted'
    BY <1>3 DEF RestartOk, RestartListen, Listen, FreeListeners, ServerTypeOK, Counted
  <2>5. Tracked'
    BY <1>3 DEF RestartOk, RestartListen, Listen, FreeListeners, ServerTypeOK, Phases, Chains, Tracked, Clearing, Closing
  <2>. QED BY <2>1, <2>2, <2>3, <2>4, <2>5
<1>4. CASE RestartFails
  <2>1. ServerTypeOK'
    BY <1>4 DEF RestartFails, RestartListen, FreeListeners, ServerTypeOK, Phases
  <2>2. Phases'
    BY <1>4 DEF RestartFails, RestartListen, FreeListeners, ServerTypeOK, Phases
  <2>3. Chains'
    BY <1>4 DEF RestartFails, RestartListen, FreeListeners, ServerTypeOK, Phases, Chains, Closing
  <2>4. Counted'
    BY <1>4 DEF RestartFails, RestartListen, FreeListeners, ServerTypeOK, Counted
  <2>5. Tracked'
    BY <1>4 DEF RestartFails, RestartListen, FreeListeners, ServerTypeOK, Phases, Chains, Tracked, Clearing, Closing
  <2>. QED BY <2>1, <2>2, <2>3, <2>4, <2>5
<1>. QED BY <1>1, <1>2, <1>3, <1>4 DEF TimerStep

-----------------------------------------------------------------------------
(* The server before it is started.                                         *)
LEMMA ServerInit == Init => ServerInv
<1>. SUFFICES ASSUME Init PROVE ServerInv
  OBVIOUS
<1>1. ServerTypeOK
  BY DEF Init, ServerTypeOK
<1>2. Phases /\ Chains
  BY DEF Init, Phases, Chains
<1>3. Counted
  BY FS_EmptySet DEF Init, Counted
<1>4. Tracked
  BY DEF Init, Tracked
<1>. QED BY <1>1, <1>2, <1>3, <1>4 DEF ServerInv

(* Every step keeps the invariant.                                          *)
LEMMA ServerInvariant == Spec => []ServerInv
<1>1. ASSUME ServerInv, [Next]_vars PROVE ServerInv'
  <2>1. CASE UNCHANGED vars
    BY <1>1, <2>1 DEF vars, listenVars, streamVars, timerVars, ServerInv, ServerTypeOK, Phases, Chains,
                      Counted, Tracked
  <2>2. CASE Next
    BY <1>1, <2>2, StartKeeps, StopKeeps, AcceptKeeps, EndKeeps, TimerKeeps DEF Next
  <2>. QED BY <1>1, <2>1, <2>2
<1>. QED BY <1>1, ServerInit, PTL DEF Spec

(* The state of the server stays within its types.                          *)
THEOREM ServerTypeCorrect == Spec => []ServerTypeOK
BY ServerInvariant, PTL DEF ServerInv

(* max_connection_count holds, however the restarts of the listener, the    *)
(* ends of streams and stops race with the one chain of on_accept().        *)
THEOREM ConnectionsCorrect == Spec => []ConnectionLimit
<1>1. ASSUME ServerInv PROVE ConnectionLimit
  <2>. DEFINE A == { l \in Listeners : acceptor[l] \notin {"off", "accept"} }
  <2>1. CASE A = {}
    <3>1. Cardinality(A) <= 1
      BY <2>1, FS_EmptySet
    <3>. QED BY <1>1, <3>1 DEF ConnectionLimit, OneListener, ServerInv, Chains, Counted
  <2>2. CASE A # {}
    <3>1. PICK l \in A : A = {l}
      BY <1>1, <2>2 DEF ServerInv, Chains
    <3>2. Cardinality(A) <= 1
      BY <3>1, FS_Singleton
    <3>. QED BY <1>1, <3>2 DEF ConnectionLimit, OneListener, ServerInv, Chains, Counted
  <2>. QED BY <2>1, <2>2
<1>. QED BY <1>1, ServerInvariant, PTL

(* The set of streams follows the connections while the server runs.        *)
THEOREM StreamsCorrect == Spec => []StreamsTracked
<1>1. ServerInv => StreamsTracked
  BY DEF ServerInv, Phases, Tracked, Clearing, StreamsTracked
<1>. QED BY <1>1, ServerInvariant, PTL

(* Stop() leaves nothing of the server behind when it returns.              *)
THEOREM StoppedCorrect == Spec => []StoppedIsQuiet
<1>1. ServerInv => StoppedIsQuiet
  BY DEF ServerInv, ServerTypeOK, Phases, Chains, Tracked, Closing, IoWork, StoppedIsQuiet
<1>. QED BY <1>1, ServerInvariant, PTL
=============================================================================
