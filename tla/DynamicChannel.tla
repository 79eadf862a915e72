--------------------------- MODULE DynamicChannel ---------------------------
(***************************************************************************)
(* DynamicRpcChannelImpl: a channel to several servers, whose addresses    *)
(* come and go.  Calls choose a server from the live map, or else from the *)
(* unlive one; a failed call moves its server to the unlive map and a      *)
(* detection timer moves it back.                                          *)
(*                                                                         *)
(* A server context is <<a, g>>, the g-th one created for address a, so a  *)
(* map from addresses to contexts is a function to generations, 0 for an   *)
(* address that is not in the map.  One action is one section locked by    *)
(* _map_lock, or one access to a flag outside of it.  Servers with equal   *)
(* counts are told apart by last_request_seq in the code, and unlive ones  *)
(* by is_last_request_succeed first; here any of them may be chosen.       *)
(***************************************************************************)
EXTENDS Naturals, FiniteSets

CONSTANTS
    Addresses,      \* addresses the provider may announce
    MaxContexts,    \* server contexts created over time (bound)
    Calls,          \* calls made through the channel
    NoServer,       \* the null ServerContextPtr
    Threads,        \* threads that call CallMethod() at the same time
    Capacity,       \* server_load_capacity, 0 for no limit
    RetryCount      \* kRetryCount

ASSUME AddressAssumption == NoServer \notin Addresses \X Nat
ASSUME FiniteAssumption == IsFiniteSet(Addresses) /\ IsFiniteSet(Calls)
ASSUME BoundAssumption == /\ MaxContexts \in Nat
                          /\ Threads \in Nat \ {0}
                          /\ Capacity \in Nat
                          /\ RetryCount \in Nat

VARIABLES
    live, unlive,   \* _live_map, _unlive_map
    added,          \* _added_set
    gen,            \* contexts created so far for each address
    inLive,         \* contexts whose is_in_live_map is set
    removed,        \* contexts whose is_removed is set
    inited,         \* contexts whose is_channel_inited is set
    stopped,        \* Stop() has been called
    aborted,        \* an SCHECK has failed
    pc, on, tries,  \* of each call: step, server, retry_count
    fromLive,       \* calls with a server chosen from the live map (history)
    probed,         \* contexts with a Health request out
    healthy         \* contexts whose DetectCallback() is about to move them

mapVars == <<live, unlive, added, gen, inLive, removed>>
callVars == <<pc, on, tries, fromLive>>
detectVars == <<probed, healthy>>
vars == <<mapVars, inited, stopped, aborted, callVars, detectVars>>

Servers == Addresses \X (1 .. MaxContexts)

\* The contexts created so far.
Created == { s \in Servers : s[2] <= gen[s[1]] }

\* The contexts in a map.
In(map) == { s \in Servers : map[s[1]] = s[2] }

\* SimpleRpcChannelImpl::WaitCount() of the channel of a server: the calls
\* it has taken over, of the users and of the detection.
InFlight(s) == { c \in Calls : on[c] = s /\ pc[c] = "called" }
WaitCount(s) == Cardinality(InFlight(s)) + (IF s \in probed THEN 1 ELSE 0)

\* Calls whose thread is inside CallMethod().
Choosing == { c \in Calls : pc[c] \in {"choose", "init", "demote"} }

Init ==
    /\ added \in SUBSET Addresses
    /\ Cardinality(added) <= MaxContexts
    /\ gen = [a \in Addresses |-> IF a \in added THEN 1 ELSE 0]
    /\ live = gen
    /\ unlive = [a \in Addresses |-> 0]
    /\ inLive = In(gen)
    /\ removed = {}
    /\ inited = {}
    /\ stopped = FALSE
    /\ aborted = FALSE
    /\ pc = [c \in Calls |-> "idle"]
    /\ on = [c \in Calls |-> NoServer]
    /\ tries = [c \in Calls |-> 0]
    /\ fromLive = {}
    /\ probed = {}
    /\ healthy = {}
-----------------------------------------------------------------------------
Goto(c, step) == pc' = [pc EXCEPT ![c] = step]

StartCall(c) ==
    /\ ~stopped
    /\ pc[c] = "idle"
    /\ Cardinality(Choosing) < Threads
    /\ Goto(c, "choose")
    /\ UNCHANGED <<mapVars, inited, stopped, aborted, on, tries, fromLive, detectVars>>

\* The servers ChooseServer() may return: the least loaded of the live ones
\* if they have capacity left, without live ones an unlive one.
LeastLoaded == { s \in In(live) : \A r \in In(live) : WaitCount(s) <= WaitCount(r) }

\* Mutant: a server whose limit is reached is chosen once more.
BelowCapacity_OffByOne(s) == Capacity = 0 \/ WaitCount(s) <= Capacity
BelowCapacity(s) == Capacity = 0 \/ WaitCount(s) < Capacity

Candidates ==
    IF In(live) # {} THEN { s \in LeastLoaded : BelowCapacity(s) }
    ELSE In(unlive)

\* The call is over for the channel and its callback runs.
Finish(c) ==
    /\ Goto(c, "idle")
    /\ on' = [on EXCEPT ![c] = NoServer]
    /\ tries' = [tries EXCEPT ![c] = 0]
    /\ fromLive' = fromLive \ {c}

\* A round of the loop has found no server: sleep and try again, or give up
\* with CallDone() for no server.
Retry(c) ==
    \/ /\ tries[c] < RetryCount
       /\ tries' = [tries EXCEPT ![c] = @ + 1]
       /\ on' = [on EXCEPT ![c] = NoServer]
       /\ Goto(c, "choose")
       /\ UNCHANGED fromLive
    \/ tries[c] = RetryCount /\ Finish(c)

ChooseServer(c) ==
    /\ pc[c] = "choose"
    /\ \/ \E s \in Candidates :
            /\ on' = [on EXCEPT ![c] = s]
            /\ fromLive' = IF s \in In(live) THEN fromLive \cup {c} ELSE fromLive \ {c}
            /\ Goto(c, "init")
            /\ UNCHANGED tries
       \/ Candidates = {} /\ Retry(c)
    /\ UNCHANGED <<mapVars, inited, stopped, aborted, detectVars>>

\* ServerContext::InitChannel(), under channel_init_lock: the address may
\* not resolve.  With a channel the call is counted and taken over by it.
InitChannel(c) ==
    /\ pc[c] = "init"
    /\ \/ /\ inited' = inited \cup {on[c]}
          /\ Goto(c, "called")
          /\ tries' = [tries EXCEPT ![c] = 0]
          /\ UNCHANGED fromLive
       \/ /\ on[c] \notin inited
          /\ Goto(c, "demote")
          /\ fromLive' = fromLive \ {c}
          /\ UNCHANGED <<inited, tries>>
    /\ UNCHANGED <<mapVars, stopped, aborted, on, detectVars>>

\* Mutant: the server stays in the live map.
MoveToUnlive_Copy(a) ==
    IF live[a] = 0 THEN UNCHANGED mapVars
    ELSE /\ unlive' = [unlive EXCEPT ![a] = live[a]]
         /\ inLive' = inLive \ {<<a, live[a]>>}
         /\ UNCHANGED <<live, added, gen, removed>>

\* MoveToUnlive() looks for the address, not for the context.
MoveToUnlive(a) ==
    IF live[a] = 0 THEN UNCHANGED mapVars
    ELSE /\ live' = [live EXCEPT ![a] = 0]
         /\ unlive' = [unlive EXCEPT ![a] = live[a]]
         /\ inLive' = inLive \ {<<a, live[a]>>}
         /\ UNCHANGED <<added, gen, removed>>

InitFailed(c) ==
    /\ pc[c] = "demote"
    /\ MoveToUnlive(on[c][1])
    /\ Retry(c)
    /\ UNCHANGED <<inited, stopped, aborted, detectVars>>

\* SimpleRpcChannelImpl::DoneCallback(): the call has ended in any way.
DoneCallback(c) ==
    /\ pc[c] = "called"
    /\ Goto(c, "done")
    /\ fromLive' = fromLive \ {c}
    /\ UNCHANGED <<mapVars, inited, stopped, aborted, on, tries, detectVars>>

\* CallDone(): if the call has failed, it demotes its server after a look at
\* its flag.
CallDone(c) ==
    /\ pc[c] = "done"
    /\ \/ on[c] \in inLive /\ Goto(c, "move") /\ UNCHANGED <<on, tries, fromLive>>
       \/ Finish(c)
    /\ UNCHANGED <<mapVars, inited, stopped, aborted, detectVars>>

\* Mutant: the context of the call takes the place of the one in the map.
CallFailed_OwnContext(c) ==
    LET a == on[c][1]
    IN  /\ pc[c] = "move"
        /\ IF live[a] = 0 THEN UNCHANGED mapVars
           ELSE /\ live' = [live EXCEPT ![a] = 0]
                /\ unlive' = [unlive EXCEPT ![a] = on[c][2]]
                /\ inLive' = inLive \ {on[c]}
                /\ UNCHANGED <<added, gen, removed>>
        /\ Finish(c)
        /\ UNCHANGED <<inited, stopped, aborted, detectVars>>

CallFailed(c) ==
    /\ pc[c] = "move"
    /\ MoveToUnlive(on[c][1])
    /\ Finish(c)
    /\ UNCHANGED <<inited, stopped, aborted, detectVars>>
-----------------------------------------------------------------------------
\* The provider announces addresses; the ones in _added_set are refused.
OnAddressAdded(as) ==
    LET new == as \ added
        created == { <<a, gen[a] + 1>> : a \in new }
        Enter(map) == [a \in Addresses |-> IF a \in new THEN gen[a] + 1 ELSE map[a]]
    IN  /\ Cardinality(Created \cup created) <= MaxContexts
        /\ gen' = Enter(gen)
        /\ live' = Enter(live)
        /\ added' = added \cup new
        /\ inLive' = inLive \cup created
        /\ UNCHANGED <<unlive, removed, inited, stopped, aborted, callVars, detectVars>>

\* Mutant: _added_set is not updated.
OnAddressRemoved_KeepAdded(as) ==
    LET Leave(map) == [a \in Addresses |-> IF a \in as THEN 0 ELSE map[a]]
        Held == { s \in In(live) \cup In(unlive) : s[1] \in as }
    IN  /\ removed' = removed \cup Held
        /\ live' = Leave(live)
        /\ unlive' = Leave(unlive)
        /\ UNCHANGED <<added, gen, inLive, inited, stopped, aborted, callVars, detectVars>>

\* It withdraws addresses.  SCHECK: an added address is in one of the maps.
OnAddressRemoved(as) ==
    LET gone == as \cap added
        Leave(map) == [a \in Addresses |-> IF a \in gone THEN 0 ELSE map[a]]
        Held == { s \in In(live) \cup In(unlive) : s[1] \in gone }
    IN  /\ aborted' = (gone # { s[1] : s \in Held })
        /\ removed' = removed \cup Held
        /\ live' = Leave(live)
        /\ unlive' = Leave(unlive)
        /\ added' = added \ gone
        /\ UNCHANGED <<gen, inLive, inited, stopped, callVars, detectVars>>

\* Stop() waits for a detection that runs, erases the timer and clears both
\* maps.  No thread may be inside CallMethod(): the channel is being
\* destroyed.  Asynchronous calls and probes may still be out.
Stop ==
    /\ ~stopped
    /\ Choosing = {}
    /\ stopped' = TRUE
    /\ live' = [a \in Addresses |-> 0]
    /\ unlive' = live'
    /\ UNCHANGED <<added, gen, inLive, removed, inited, aborted, callVars, detectVars>>
-----------------------------------------------------------------------------
\* A round of the detection copies the unlive map and looks at one server
\* after the other.  It skips those removed or moved since, so it probes
\* servers that are in the map now, if they have a channel.
TimerDetect(s) ==
    /\ ~stopped
    /\ s \in In(unlive) \cap inited
    /\ probed' = probed \cup {s}
    /\ UNCHANGED <<mapVars, inited, stopped, aborted, callVars, healthy>>

\* Mutant: the flag is read the wrong way round.
DetectOk_Inverted(s) ==
    /\ s \in probed
    /\ probed' = probed \ {s}
    /\ healthy' = IF s \in inLive \ removed THEN healthy \cup {s} ELSE healthy
    /\ UNCHANGED <<mapVars, inited, stopped, aborted, callVars>>

\* DetectCallback() reads the flags and the answer, and moves afterwards.
DetectOk(s) ==
    /\ s \in probed
    /\ probed' = probed \ {s}
    /\ healthy' = IF s \in removed \cup inLive THEN healthy ELSE healthy \cup {s}
    /\ UNCHANGED <<mapVars, inited, stopped, aborted, callVars>>

DetectFailed(s) ==
    /\ s \in probed
    /\ probed' = probed \ {s}
    /\ UNCHANGED <<mapVars, inited, stopped, aborted, callVars, healthy>>

\* MoveToLive() looks for the address, too.
MoveToLive(s) ==
    LET a == s[1]
    IN  /\ s \in healthy
        /\ healthy' = healthy \ {s}
        /\ IF unlive[a] = 0 THEN UNCHANGED mapVars
           ELSE /\ unlive' = [unlive EXCEPT ![a] = 0]
                /\ live' = [live EXCEPT ![a] = unlive[a]]
                /\ inLive' = inLive \cup {<<a, unlive[a]>>}
                /\ UNCHANGED <<added, gen, removed>>
        /\ UNCHANGED <<inited, stopped, aborted, callVars, probed>>
-----------------------------------------------------------------------------
CallStep(c) ==
    StartCall(c) \/ ChooseServer(c) \/ InitChannel(c) \/ InitFailed(c)
      \/ DoneCallback(c) \/ CallDone(c) \/ CallFailed(c)
Detect(s) == TimerDetect(s) \/ DetectOk(s) \/ DetectFailed(s) \/ MoveToLive(s)

Next ==
    /\ ~aborted
    /\ \/ \E c \in Calls : CallStep(c)
       \/ \E as \in SUBSET Addresses \ {{}} : OnAddressAdded(as) \/ OnAddressRemoved(as)
       \/ Stop
       \/ \E s \in Servers : Detect(s)

Spec == Init /\ [][Next]_vars

\* The timer fires and a server answers its probes, but only in the long run.
\* Nothing is assumed about calls.
Fairness ==
    \A s \in Servers : /\ WF_vars(~aborted /\ TimerDetect(s))
                       /\ SF_vars(~aborted /\ DetectOk(s))
                       /\ WF_vars(~aborted /\ MoveToLive(s))

FairSpec == Spec /\ Fairness
-----------------------------------------------------------------------------
(* The state stays within its types. *)
ChannelTypeOK ==
    /\ live \in [Addresses -> 0 .. MaxContexts]
    /\ unlive \in [Addresses -> 0 .. MaxContexts]
    /\ added \subseteq Addresses
    /\ gen \in [Addresses -> 0 .. MaxContexts]
    /\ inLive \subseteq Servers
    /\ removed \subseteq Servers
    /\ inited \subseteq Servers
    /\ stopped \in BOOLEAN
    /\ aborted \in BOOLEAN
    /\ pc \in [Calls -> {"idle", "choose", "init", "demote", "called", "done", "move"}]
    /\ on \in [Calls -> Servers \cup {NoServer}]
    /\ \A c \in Calls : pc[c] \in {"init", "demote", "called", "done", "move"} => on[c] \in Servers
    /\ tries \in [Calls -> 0 .. RetryCount]
    /\ fromLive \subseteq Calls
    /\ probed \subseteq inited
    /\ healthy \subseteq Servers

(* Until the channel is stopped the two maps partition the added addresses, *)
(* the flags of a context say in which map it is, a removed context never   *)
(* comes back and no other is lost: although calls and probes of a removed  *)
(* context still move whatever is registered under its address.             *)
MapsPartition ==
    /\ \A a \in Addresses : live[a] = 0 \/ unlive[a] = 0
    /\ In(live) \subseteq inLive
    /\ In(unlive) \cap inLive = {}
    /\ (In(live) \cup In(unlive)) \cap removed = {}
    /\ ~stopped => /\ Created \ removed = In(live) \cup In(unlive)
                    /\ added = { s[1] : s \in In(live) \cup In(unlive) }

(* What server_load_capacity does bound: of the calls that found their      *)
(* server in the live map, one server has at most one above the limit per   *)
(* additional thread, because a call is counted after the map is unlocked.  *)
LoadBound ==
    Capacity > 0 =>
        \A s \in Servers : Cardinality(InFlight(s) \cap fromLive) <= Capacity + Threads - 1

(* rpc_channel.h:30, server_load_capacity "limits the max request count     *)
(* pending on one channel".                                                 *)
PendingWithinCapacity ==
    Capacity > 0 => \A s \in Servers : Cardinality(InFlight(s)) <= Capacity

(* The SCHECK of OnAddressRemoved(): an added address is in one of the maps. *)
RemovedWasMapped == ~aborted

(* An unlive server whose channel was created and that answers is moved     *)
(* back to the live map, unless it is removed or the channel is stopped.    *)
Recovers ==
    \A s \in Servers :
        (s \in In(unlive) \cap inited) ~> (s \in In(live) \cup removed \/ stopped \/ aborted)
=============================================================================
