------------------------ MODULE TimeoutManagerProofs ------------------------
(* Proofs about TimeoutManager, for any events, users and callbacks. *)
EXTENDS TimeoutManager, TLAPS

(* What the timer thread and the destructor add to the invariants: the list *)
(* of expired events is empty between two rounds of timer_run(), a one-time *)
(* event in its callback has had its last call, and the destructor leaves   *)
(* nothing behind.                                                          *)
TimerInOrder ==
    /\ \A e \in Events \ added : finals[e] = 0
    /\ calling \in OneTime => finals[calling] = 1
    /\ tpc = "idle" => expired = {}
    /\ ~running /\ ~stopping => table = {} /\ tpc = "idle"

TimeoutInv == TimeoutTypeOK /\ LastCallOnce /\ OneTimeNeverAgain /\ TimerInOrder

USE EventAssumption

(* The invariant holds before any event is added. *)
LEMMA TimeoutInit == Init => TimeoutInv
<1>. SUFFICES ASSUME Init PROVE TimeoutInv
  OBVIOUS
<1>1. TimeoutTypeOK
  <2>1. finals \in [Events -> 0 .. 1] /\ hand \in [Users -> SUBSET added]
    BY DEF Init
  <2>. QED BY <2>1 DEF Init, TimeoutTypeOK
<1>2. LastCallOnce /\ OneTimeNeverAgain
  BY DEF Init, LastCallOnce, OneTimeNeverAgain
<1>3. TimerInOrder
  BY DEF Init, TimerInOrder, OneTime
<1>. QED BY <1>1, <1>2, <1>3 DEF TimeoutInv

(* An event that leaves the table goes into one hand, out of which its      *)
(* last call comes.                                                         *)
LEMMA UserKeeps ==
    ASSUME TimeoutInv, NEW u \in Users, NEW e \in Events,
           EraseEvent(u, e) \/ RunTaken(u, e)
    PROVE  TimeoutInv'
<1>. USE DEF TimeoutInv, OneTime
<1>1. CASE EraseEvent(u, e)
  <2>1. TimeoutTypeOK'
    BY <1>1 DEF EraseEvent, timerVars, TimeoutTypeOK
  <2>2. \A v \in Users : hand'[v] = IF v = u THEN {e} ELSE hand[v]
    BY <1>1 DEF EraseEvent, TimeoutTypeOK
  <2>3. LastCallOnce'
    BY <1>1, <2>2 DEF EraseEvent, timerVars, TimeoutTypeOK, LastCallOnce, Taken, Pending
  <2>4. OneTimeNeverAgain' /\ TimerInOrder'
    BY <1>1 DEF EraseEvent, timerVars, OneTimeNeverAgain, TimerInOrder
  <2>. QED BY <2>1, <2>3, <2>4
<1>2. CASE RunTaken(u, e)
  <2>1. e \in added /\ Taken(e) /\ finals[e] = 0
    BY <1>2 DEF RunTaken, TimeoutTypeOK, LastCallOnce, Taken
  <2>2. \A d \in Events : finals'[d] = IF d = e THEN 1 ELSE finals[d]
    BY <1>2, <2>1 DEF RunTaken, LastCall, TimeoutTypeOK
  <2>3. \A v \in Users : hand'[v] = IF v = u THEN hand[u] \ {e} ELSE hand[v]
    BY <1>2 DEF RunTaken, TimeoutTypeOK
  <2>4. TimeoutTypeOK'
    BY <1>2, <2>1 DEF RunTaken, LastCall, timerVars, TimeoutTypeOK
  <2>5. LastCallOnce'
    BY <1>2, <2>1, <2>2, <2>3 DEF RunTaken, timerVars, TimeoutTypeOK, LastCallOnce, Taken, Pending
  <2>6. OneTimeNeverAgain' /\ TimerInOrder'
    BY <1>2, <2>1, <2>2 DEF RunTaken, LastCall, timerVars, OneTimeNeverAgain, TimerInOrder, TimeoutTypeOK
  <2>. QED BY <2>4, <2>5, <2>6
<1>. QED BY <1>1, <1>2

(* clear(), and the destructor once the timer thread has ended. *)
LEMMA ClearKeeps ==
    ASSUME TimeoutInv, NEW u \in Users, ClearEvents(u) \/ JoinTimer(u)
    PROVE  TimeoutInv'
<1>. USE DEF TimeoutInv, OneTime
<1>1. Clear(u) /\ running' = running
  BY DEF ClearEvents, JoinTimer
<1>2. \A v \in Users : hand'[v] = IF v = u THEN table ELSE hand[v]
  BY <1>1 DEF Clear, TimeoutTypeOK
<1>3. TimeoutTypeOK'
  BY <1>1 DEF Clear, ClearEvents, JoinTimer, timerVars, TimeoutTypeOK
<1>4. LastCallOnce'
  BY <1>1, <1>2 DEF Clear, timerVars, TimeoutTypeOK, LastCallOnce, Taken, Pending
<1>5. OneTimeNeverAgain' /\ TimerInOrder'
  BY <1>1 DEF Clear, ClearEvents, JoinTimer, timerVars, OneTimeNeverAgain, TimerInOrder
<1>. QED BY <1>3, <1>4, <1>5

(* The sections of timer_run() that hold the lock, and the end of a round.  *)
LEMMA TableKeeps ==
    ASSUME TimeoutInv, Expire \/ Reinsert \/ EndCallback \/ EndRun
    PROVE  TimeoutInv'
<1>. USE DEF TimeoutInv, OneTime, timerVars, userVars
<1>1. CASE Expire
  <2>1. TimeoutTypeOK'
    BY <1>1 DEF Expire, TimeoutTypeOK
  <2>2. LastCallOnce'
    BY <1>1 DEF Expire, TimeoutTypeOK, LastCallOnce, Taken, Pending, TimerInOrder
  <2>3. OneTimeNeverAgain' /\ TimerInOrder'
    BY <1>1 DEF Expire, OneTimeNeverAgain, TimerInOrder
  <2>. QED BY <2>1, <2>2, <2>3
<1>2. CASE Reinsert
  <2>1. TimeoutTypeOK'
    BY <1>2 DEF Reinsert, TimeoutTypeOK
  <2>2. LastCallOnce'
    BY <1>2 DEF Reinsert, TimeoutTypeOK, LastCallOnce, Taken, Pending
  <2>3. OneTimeNeverAgain' /\ TimerInOrder'
    BY <1>2 DEF Reinsert, OneTimeNeverAgain, TimerInOrder
  <2>. QED BY <2>1, <2>2, <2>3
<1>3. CASE EndCallback
  BY <1>3 DEF EndCallback, TimeoutTypeOK, LastCallOnce, Taken, Pending, OneTimeNeverAgain, TimerInOrder
<1>4. CASE EndRun
  BY <1>4 DEF EndRun, TimeoutTypeOK, LastCallOnce, Taken, Pending, OneTimeNeverAgain, TimerInOrder
<1>. QED BY <1>1, <1>2, <1>3, <1>4

(* A callback of the timer thread starts, or erases an event. *)
LEMMA CallbackKeeps ==
    ASSUME TimeoutInv, NEW e \in Events, StartCallback(e) \/ CallbackErases(e)
    PROVE  TimeoutInv'
<1>. USE DEF TimeoutInv, OneTime, timerVars, userVars
<1>1. CASE StartCallback(e)
  <2>1. e \in added /\ (e \in OneTime => Pending(e) /\ finals[e] = 0)
    BY <1>1 DEF StartCallback, TimeoutTypeOK, LastCallOnce, Pending
  <2>2. \A d \in Events : finals'[d] = IF d = e /\ e \in OneTime THEN 1 ELSE finals[d]
    BY <1>1, <2>1 DEF StartCallback, TimeoutTypeOK
  <2>3. TimeoutTypeOK'
    BY <1>1, <2>1 DEF StartCallback, TimeoutTypeOK
  <2>4. LastCallOnce'
    BY <1>1, <2>1, <2>2 DEF StartCallback, TimeoutTypeOK, LastCallOnce, Taken, Pending
  <2>5. OneTimeNeverAgain' /\ TimerInOrder'
    BY <1>1, <2>1, <2>2 DEF StartCallback, OneTimeNeverAgain, TimerInOrder, TimeoutTypeOK
  <2>. QED BY <2>3, <2>4, <2>5
<1>2. CASE CallbackErases(e)
  <2>1. e \in added /\ finals[e] = 0
    BY <1>2 DEF CallbackErases, TimeoutTypeOK, LastCallOnce
  <2>2. \A d \in Events : finals'[d] = IF d = e THEN 1 ELSE finals[d]
    BY <1>2, <2>1 DEF CallbackErases, LastCall, TimeoutTypeOK
  <2>3. TimeoutTypeOK'
    BY <1>2, <2>1 DEF CallbackErases, LastCall, TimeoutTypeOK
  <2>4. LastCallOnce'
    BY <1>2, <2>1, <2>2 DEF CallbackErases, TimeoutTypeOK, LastCallOnce, Taken, Pending
  <2>5. OneTimeNeverAgain' /\ TimerInOrder'
    BY <1>2, <2>1, <2>2 DEF CallbackErases, LastCall, OneTimeNeverAgain, TimerInOrder, TimeoutTypeOK
  <2>. QED BY <2>3, <2>4, <2>5
<1>. QED BY <1>1, <1>2

(* add() enters a new event, and the destructor lets the timer thread end.  *)
LEMMA AddStopKeeps ==
    ASSUME TimeoutInv, (\E e \in Events : Add(e)) \/ Stop
    PROVE  TimeoutInv'
<1>. USE DEF TimeoutInv, OneTime, timerVars, userVars
<1>1. ASSUME NEW e \in Events, Add(e) PROVE TimeoutInv'
  <2>1. TimeoutTypeOK'
    BY <1>1 DEF Add, TimeoutTypeOK
  <2>2. LastCallOnce'
    BY <1>1 DEF Add, TimeoutTypeOK, LastCallOnce, Taken, Pending, TimerInOrder
  <2>3. OneTimeNeverAgain' /\ TimerInOrder'
    BY <1>1 DEF Add, OneTimeNeverAgain, TimerInOrder
  <2>. QED BY <2>1, <2>2, <2>3
<1>2. CASE Stop
  BY <1>2 DEF Stop, TimeoutTypeOK, LastCallOnce, Taken, Pending, OneTimeNeverAgain, TimerInOrder
<1>. QED BY <1>1, <1>2

(* Every step keeps the invariant. *)
LEMMA TimeoutNext == TimeoutInv /\ [Next]_vars => TimeoutInv'
<1>. SUFFICES ASSUME TimeoutInv, [Next]_vars PROVE TimeoutInv'
  OBVIOUS
<1>1. CASE UNCHANGED vars
  BY <1>1 DEF vars, userVars, timerVars, TimeoutInv, TimeoutTypeOK, LastCallOnce, Taken, Pending, OneTimeNeverAgain, TimerInOrder
<1>2. CASE Next
  BY <1>2, UserKeeps, ClearKeeps, TableKeeps, CallbackKeeps, AddStopKeeps DEF Next, TimerStep
<1>. QED BY <1>1, <1>2

(* It is an invariant of the specification. *)
LEMMA TimeoutInvariant == Spec => []TimeoutInv
BY TimeoutInit, TimeoutNext, PTL DEF Spec

(* The state of the manager stays within its types. *)
THEOREM TimeoutTypeCorrect == Spec => []TimeoutTypeOK
BY TimeoutInvariant, PTL DEF TimeoutInv

(* timeout_manager.h:54 and :74: no race of erase(), clear(), stop() and    *)
(* the timer thread loses the last call of an event or makes it twice.      *)
THEOREM LastCallsCorrect == Spec => []LastCallOnce
BY TimeoutInvariant, PTL DEF TimeoutInv

(* A one-time callback is never called again after its last call, which     *)
(* deletes it.                                                              *)
THEOREM OneTimeCorrect == Spec => []OneTimeNeverAgain
BY TimeoutInvariant, PTL DEF TimeoutInv

(* The destructor of the manager leaves no event without its last call.     *)
THEOREM DestroyedCorrect == Spec => []DestroyedIsDone
<1>1. TimeoutInv => DestroyedIsDone
  BY DEF TimeoutInv, LastCallOnce, TimerInOrder, DestroyedIsDone, Taken, Pending
<1>. QED BY <1>1, TimeoutInvariant, PTL
=============================================================================
