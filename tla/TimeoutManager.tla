--------------------------- MODULE TimeoutManager ---------------------------
(***************************************************************************)
(* TimeoutManagerImpl: one-time and repeating timeouts, a timer thread     *)
(* that takes expired events out of the table, puts the repeating ones     *)
(* back and then runs the callbacks, and users that erase and clear        *)
(* events.  A callback is run with ERASED or CLEARED, or with TIMEOUTED if *)
(* it is a one-time event, as its last call; then it is deleted.           *)
(*                                                                         *)
(* When an event expires is left open, so the ticks do not appear.         *)
(***************************************************************************)
EXTENDS Naturals, FiniteSets

CONSTANTS
    Events,     \* ids handed out by add() and add_repeating()
    Repeating,  \* those of add_repeating()
    NoEvent,
    Users       \* threads that add, erase and clear

ASSUME EventAssumption == Repeating \subseteq Events /\ NoEvent \notin Events

OneTime == Events \ Repeating

VARIABLES
    running,    \* _is_running
    added,      \* events added so far
    table,      \* _timeouts
    hand,       \* of each user: events it took out and whose callbacks it runs
    stopping,   \* stop() is waiting for the timer thread to end
    tpc,        \* step of timer_run()
    expired,    \* its local list, shrinking while the callbacks run
    calling,    \* the event whose callback the timer thread is in
    finals,     \* last calls of each event (history)
    overdue     \* events called or inside a call after their last call (history)

userVars == <<added, hand>>
timerVars == <<tpc, expired, calling>>
vars == <<running, stopping, userVars, table, timerVars, finals, overdue>>

Init ==
    /\ running = TRUE
    /\ added = {}
    /\ table = {}
    /\ hand = [u \in Users |-> {}]
    /\ stopping = FALSE
    /\ tpc = "idle"
    /\ expired = {}
    /\ calling = NoEvent
    /\ finals = [e \in Events |-> 0]
    /\ overdue = {}
-----------------------------------------------------------------------------
\* The last call of event e, which deletes its callback: too early for the
\* timer thread if it is in that callback and did not call erase() itself.
LastCall(e, others) ==
    /\ finals' = [finals EXCEPT ![e] = @ + 1]
    /\ overdue' = overdue \cup ({e} \cap others)

Add(e) ==
    /\ ~stopping /\ running
    /\ e \notin added
    /\ added' = added \cup {e}
    /\ table' = table \cup {e}
    /\ UNCHANGED <<running, stopping, hand, timerVars, finals, overdue>>

\* Mutant: the event stays in the table while its callback runs.
EraseEvent_Keep(u, e) ==
    /\ ~stopping /\ running
    /\ hand[u] = {}
    /\ e \in table
    /\ hand' = [hand EXCEPT ![u] = {e}]
    /\ UNCHANGED <<running, stopping, added, table, timerVars, finals, overdue>>

\* erase() of an event that is not in the table returns false.
EraseEvent(u, e) ==
    /\ ~stopping /\ running
    /\ hand[u] = {}
    /\ e \in table
    /\ table' = table \ {e}
    /\ hand' = [hand EXCEPT ![u] = {e}]
    /\ UNCHANGED <<running, stopping, added, timerVars, finals, overdue>>

Clear(u) ==
    /\ hand[u] = {}
    /\ table' = {}
    /\ hand' = [hand EXCEPT ![u] = table]
    /\ UNCHANGED <<added, timerVars, finals, overdue>>

ClearEvents(u) ==
    /\ ~stopping /\ running
    /\ table # {}
    /\ Clear(u)
    /\ UNCHANGED <<running, stopping>>

\* The user runs the callback with ERASED or CLEARED.
RunTaken(u, e) ==
    /\ e \in hand[u]
    /\ hand' = [hand EXCEPT ![u] = @ \ {e}]
    /\ LastCall(e, {calling})
    /\ UNCHANGED <<running, stopping, added, table, timerVars>>

\* The destructor: no other thread uses the manager.
Stop ==
    /\ ~stopping /\ running
    /\ \A u \in Users : hand[u] = {}
    /\ running' = FALSE
    /\ stopping' = TRUE
    /\ UNCHANGED <<userVars, table, timerVars, finals, overdue>>

\* Mutant: stop() does not clear the table.
JoinTimer_NoClear(u) ==
    /\ stopping
    /\ tpc = "idle"
    /\ stopping' = FALSE
    /\ UNCHANGED <<running, userVars, table, timerVars, finals, overdue>>

JoinTimer(u) ==
    /\ stopping
    /\ tpc = "idle"
    /\ stopping' = FALSE
    /\ Clear(u)
    /\ UNCHANGED running
-----------------------------------------------------------------------------
\* timer_run(): what has expired leaves the table in one locked section ...
Expire ==
    /\ tpc = "idle" /\ running
    /\ expired' \in SUBSET table \ {{}}
    /\ table' = table \ expired'
    /\ tpc' = "reinsert"
    /\ UNCHANGED <<running, stopping, userVars, calling, finals, overdue>>

\* Mutant: every expired event comes back.
Reinsert_All ==
    /\ tpc = "reinsert"
    /\ table' = table \cup expired
    /\ tpc' = "run"
    /\ UNCHANGED <<running, stopping, userVars, expired, calling, finals, overdue>>

\* Mutant: no event comes back.
Reinsert_None ==
    /\ tpc = "reinsert"
    /\ tpc' = "run"
    /\ UNCHANGED <<running, stopping, userVars, table, expired, calling, finals, overdue>>

\* ... and what repeats comes back in a second one.
Reinsert ==
    /\ tpc = "reinsert"
    /\ table' = table \cup (expired \cap Repeating)
    /\ tpc' = "run"
    /\ UNCHANGED <<running, stopping, userVars, expired, calling, finals, overdue>>

\* The callbacks run without a lock.
StartCallback(e) ==
    /\ tpc = "run" /\ calling = NoEvent
    /\ e \in expired
    /\ calling' = e
    /\ expired' = expired \ {e}
    /\ finals' = IF e \in OneTime THEN [finals EXCEPT ![e] = @ + 1] ELSE finals
    /\ overdue' = IF finals[e] > 0 THEN overdue \cup {e} ELSE overdue
    /\ UNCHANGED <<running, stopping, userVars, table, tpc>>

\* A callback may erase events, its own as well.
CallbackErases(e) ==
    /\ calling # NoEvent
    /\ e \in table
    /\ table' = table \ {e}
    /\ LastCall(e, {})
    /\ UNCHANGED <<running, stopping, userVars, timerVars>>

EndCallback ==
    /\ calling # NoEvent
    /\ calling' = NoEvent
    /\ UNCHANGED <<running, stopping, userVars, table, tpc, expired, finals, overdue>>

EndRun ==
    /\ tpc = "run" /\ calling = NoEvent
    /\ expired = {}
    /\ tpc' = "idle"
    /\ UNCHANGED <<running, stopping, userVars, table, expired, calling, finals, overdue>>
-----------------------------------------------------------------------------
TimerStep == Reinsert \/ (\E e \in Events : StartCallback(e)) \/ EndCallback \/ EndRun

Next ==
    \/ \E e \in Events : Add(e) \/ CallbackErases(e)
    \/ \E u \in Users : ClearEvents(u) \/ JoinTimer(u)
    \/ \E u \in Users, e \in Events : EraseEvent(u, e) \/ RunTaken(u, e)
    \/ Stop \/ Expire \/ TimerStep

Spec == Init /\ [][Next]_vars

\* Threads run, callbacks end, and every timeout is reached.
Fairness ==
    /\ WF_vars(TimerStep)
    /\ WF_vars(\E u \in Users : JoinTimer(u))
    /\ \A u \in Users, e \in Events : WF_vars(RunTaken(u, e))
    /\ \A e \in Events : SF_vars(Expire /\ e \in expired')

FairSpec == Spec /\ Fairness
-----------------------------------------------------------------------------
(* The state stays within its types. *)
TimeoutTypeOK ==
    /\ running \in BOOLEAN
    /\ stopping \in BOOLEAN
    /\ added \subseteq Events
    /\ table \subseteq added
    /\ hand \in [Users -> SUBSET added]
    /\ tpc \in {"idle", "reinsert", "run"}
    /\ expired \subseteq added
    /\ calling \in Events \cup {NoEvent}
    /\ finals \in [Events -> 0 .. 1]
    /\ overdue \subseteq Events

\* Where an event is before its last call: in the table, with a user that
\* took it out, or with the timer thread.
Taken(e) == \E u \in Users : e \in hand[u]
Pending(e) == e \in expired /\ (e \in OneTime \/ tpc = "reinsert")

(* timeout_manager.h:54 and :74: a one-time callback is invoked exactly     *)
(* once, by timeout, erase or clear, and a repeating one is ended exactly   *)
(* once.  An added event has had its last call or is in exactly one place   *)
(* from which it will get it: no race of erase(), clear() and expiry gives  *)
(* it to two threads or loses it.                                           *)
LastCallOnce ==
    \A e \in added :
        /\ finals[e] = 1 \/ e \in table \/ Taken(e) \/ Pending(e)
        /\ e \in table => finals[e] = 0 /\ ~Taken(e) /\ ~Pending(e)
        /\ Taken(e) => finals[e] = 0 /\ ~Pending(e)
        /\ Pending(e) => finals[e] = 0
        /\ \A u, v \in Users : e \in hand[u] \cap hand[v] => u = v

(* What does hold of a callback that is called after its last call: it      *)
(* repeats, and the timer thread had taken it out before.  A one-time       *)
(* callback is never called again.                                          *)
OneTimeNeverAgain == overdue \subseteq Repeating

(* When the destructor is done every event has had its last call.           *)
DestroyedIsDone ==
    (~running /\ ~stopping /\ \A u \in Users : hand[u] = {}) => \A e \in added : finals[e] = 1

(* Every one-time event gets its call, and a repeating one expires again    *)
(* and again until it is ended.                                             *)
EveryTimeoutFires ==
    /\ \A e \in OneTime : (e \in added) ~> (finals[e] = 1)
    /\ \A e \in Repeating : (e \in added) ~> (calling = e \/ finals[e] = 1)

(* timeout_manager_impl.cc:136: repeating events are put back before the    *)
(* callbacks run, "so the callbacks have a chance to call erase"; but an    *)
(* erased callback is still in the list of those to run.                    *)
NeverOverdue == overdue = {}
=============================================================================
