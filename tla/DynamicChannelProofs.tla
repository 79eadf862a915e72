------------------------ MODULE DynamicChannelProofs ------------------------
(* Proofs about DynamicChannel, for any addresses, calls, threads and       *)
(* capacity.                                                                *)
EXTENDS DynamicChannel, FiniteSetTheorems, TLAPS

MapTypes ==
    /\ live \in [Addresses -> 0 .. MaxContexts]
    /\ unlive \in [Addresses -> 0 .. MaxContexts]
    /\ added \subseteq Addresses
    /\ gen \in [Addresses -> 0 .. MaxContexts]
    /\ inLive \subseteq Servers
    /\ removed \subseteq Servers

(* MapsPartition for one address and one generation at a time, with what    *)
(* makes it inductive: a map has an entry for added addresses only, and the *)
(* flags of a context are set after it was created.                         *)
PlacedAt(a) ==
    /\ live[a] = 0 \/ unlive[a] = 0
    /\ live[a] <= gen[a] /\ unlive[a] <= gen[a]
    /\ a \notin added => live[a] = 0 /\ unlive[a] = 0
    /\ ~stopped /\ a \in added => live[a] # 0 \/ unlive[a] # 0
    /\ \A g \in 1 .. MaxContexts :
         /\ live[a] = g => <<a, g>> \in inLive /\ <<a, g>> \notin removed
         /\ unlive[a] = g => <<a, g>> \notin inLive /\ <<a, g>> \notin removed
         /\ <<a, g>> \in inLive => g <= gen[a]
         /\ <<a, g>> \in removed => g <= gen[a]
         /\ ~stopped /\ g <= gen[a] /\ <<a, g>> \notin removed => live[a] = g \/ unlive[a] = g

Placed == \A a \in Addresses : PlacedAt(a)

CallTypes ==
    /\ inited \subseteq Servers
    /\ stopped \in BOOLEAN
    /\ aborted \in BOOLEAN
    /\ pc \in [Calls -> {"idle", "choose", "init", "demote", "called", "done", "move"}]
    /\ on \in [Calls -> Servers \cup {NoServer}]
    /\ \A c \in Calls : pc[c] \in {"init", "demote", "called", "done", "move"} => on[c] \in Servers
    /\ tries \in [Calls -> 0 .. RetryCount]
    /\ fromLive \subseteq Calls
    /\ probed \subseteq inited
    /\ healthy \subseteq Servers

MapsInv == MapTypes /\ CallTypes /\ Placed

USE BoundAssumption

(* A server context is an address and a generation.                         *)
LEMMA ServerPairs ==
    /\ \A s \in Servers : /\ s = <<s[1], s[2]>> /\ s[1] \in Addresses
                          /\ s[2] \in 1 .. MaxContexts
    /\ \A a \in Addresses, g \in 1 .. MaxContexts : <<a, g>> \in Servers
    /\ \A map, s : s \in In(map) <=> s \in Servers /\ map[s[1]] = s[2]
BY DEF Servers, In

-----------------------------------------------------------------------------
(* The contexts that exist are finitely many.                               *)
LEMMA CreatedFinite == IsFiniteSet(Servers) /\ IsFiniteSet(Created)
<1>1. IsFiniteSet(1 .. MaxContexts)
  BY FS_Interval
<1>2. IsFiniteSet(Servers)
  BY <1>1, FS_Product, FiniteAssumption DEF Servers
<1>3. Created \in SUBSET Servers
  BY DEF Created
<1>. QED BY <1>2, <1>3, FS_Subset

(* The bound on the contexts bounds the generation of every address.        *)
LEMMA GenBounded ==
    ASSUME MapTypes, NEW as \in SUBSET Addresses, OnAddressAdded(as),
           NEW a \in as \ added
    PROVE  gen[a] + 1 \in 1 .. MaxContexts
<1>. DEFINE n == gen[a] + 1
            created == { <<b, gen[b] + 1>> : b \in as \ added }
            h == [i \in 1 .. n |-> <<a, i>>]
<1>1. a \in Addresses /\ gen[a] \in 0 .. MaxContexts
  <2>1. a \in Addresses
    OBVIOUS
  <2>. QED BY <2>1 DEF MapTypes
<1>2. n \in Nat \ {0}
  BY <1>1
<1>3. Cardinality(Created \cup created) <= MaxContexts
  BY DEF OnAddressAdded
<1>4. IsFiniteSet(Created \cup created)
  <2>1. IsFiniteSet(1 .. MaxContexts + 1)
    BY FS_Interval
  <2>2. IsFiniteSet(Addresses \X (1 .. MaxContexts + 1))
    BY <2>1, FS_Product, FiniteAssumption
  <2>3. \A b \in Addresses : gen[b] + 1 \in 1 .. MaxContexts + 1
    BY DEF MapTypes
  <2>4. ASSUME NEW x \in created PROVE x \in Addresses \X (1 .. MaxContexts + 1)
    <3>1. PICK b \in as \ added : x = <<b, gen[b] + 1>>
      OBVIOUS
    <3>. QED BY <3>1, <2>3
  <2>5. IsFiniteSet(created)
    BY <2>2, <2>4, FS_Subset
  <2>. QED BY <2>5, CreatedFinite, FS_Union
<1>5. h \in Injection(1 .. n, Created \cup created)
  <2>1. \A i \in 1 .. n : <<a, i>> \in Created \cup created
    <3>. SUFFICES ASSUME NEW i \in 1 .. n, i # n PROVE <<a, i>> \in Created
      OBVIOUS
    <3>1. i \in 1 .. MaxContexts /\ i <= gen[a]
      BY <1>1
    <3>. QED BY <3>1, <1>1 DEF Created, Servers
  <2>. QED BY <2>1 DEF Injection, IsInjective
<1>6. Cardinality(1 .. n) <= Cardinality(Created \cup created)
  BY <1>4, <1>5, FS_Injection
<1>7. Cardinality(1 .. n) = n
  BY <1>2, FS_Interval
<1>8. Cardinality(Created \cup created) \in Nat
  BY <1>4, FS_CardinalityType
<1>. HIDE DEF n, created
<1>9. n <= MaxContexts
  BY <1>2, <1>3, <1>6, <1>7, <1>8
<1>. QED BY <1>2, <1>9 DEF n
-----------------------------------------------------------------------------
(* The provider announces addresses: each new one gets a new context in the *)
(* live map.                                                                *)
LEMMA AddedKeeps ==
    ASSUME MapTypes, Placed, NEW as \in SUBSET Addresses, OnAddressAdded(as)
    PROVE  MapTypes' /\ Placed'
<1>. DEFINE new == as \ added
            created == { <<a, gen[a] + 1>> : a \in new }
<1>1. /\ gen' = [a \in Addresses |-> IF a \in new THEN gen[a] + 1 ELSE gen[a]]
      /\ live' = [a \in Addresses |-> IF a \in new THEN gen[a] + 1 ELSE live[a]]
      /\ added' = added \cup new
      /\ inLive' = inLive \cup created
      /\ UNCHANGED <<unlive, removed, stopped>>
  BY DEF OnAddressAdded
<1>2. \A a \in new : a \in Addresses /\ gen[a] + 1 \in 1 .. MaxContexts
  BY GenBounded
<1>3. \A a \in Addresses, g \in 1 .. MaxContexts :
        <<a, g>> \in created <=> a \in new /\ g = gen[a] + 1
  OBVIOUS
<1>4. ASSUME NEW s \in created PROVE s \in Servers
  <2>1. PICK a \in new : s = <<a, gen[a] + 1>>
    OBVIOUS
  <2>. QED BY <1>2, <2>1, ServerPairs
<1>. HIDE DEF new, created
<1>5. MapTypes'
  <2>1. gen' \in [Addresses -> 0 .. MaxContexts] /\ live' \in [Addresses -> 0 .. MaxContexts]
    BY <1>1, <1>2 DEF MapTypes
  <2>. QED BY <1>1, <1>2, <1>4, <2>1 DEF MapTypes, new
<1>6. ASSUME NEW a \in Addresses PROVE PlacedAt(a)'
  <2>1. gen[a] \in 0 .. MaxContexts /\ live[a] \in 0 .. MaxContexts /\ unlive[a] \in 0 .. MaxContexts
    BY DEF MapTypes
  <2>2. CASE a \in new
    <3>1. gen'[a] = gen[a] + 1 /\ live'[a] = gen[a] + 1 /\ unlive'[a] = 0 /\ live[a] = 0
      BY <1>1, <2>2 DEF Placed, PlacedAt, new
    <3>. QED BY <1>1, <1>2, <1>3, <2>1, <2>2, <3>1 DEF Placed, PlacedAt
  <2>3. CASE a \notin new
    <3>1. gen'[a] = gen[a] /\ live'[a] = live[a] /\ unlive'[a] = unlive[a] /\ (a \in added' <=> a \in added)
      BY <1>1, <2>3
    <3>. QED BY <1>1, <1>3, <2>1, <2>3, <3>1 DEF Placed, PlacedAt
  <2>. QED BY <2>2, <2>3
<1>. QED BY <1>5, <1>6 DEF Placed

(* It withdraws addresses: whatever the maps hold for them is removed.      *)
LEMMA RemovedKeeps ==
    ASSUME MapTypes, Placed, NEW as \in SUBSET Addresses, OnAddressRemoved(as)
    PROVE  MapTypes' /\ Placed'
<1>. DEFINE gone == as \cap added
            Held == { s \in In(live) \cup In(unlive) : s[1] \in gone }
<1>1. /\ live' = [a \in Addresses |-> IF a \in gone THEN 0 ELSE live[a]]
      /\ unlive' = [a \in Addresses |-> IF a \in gone THEN 0 ELSE unlive[a]]
      /\ removed' = removed \cup Held
      /\ added' = added \ gone
      /\ UNCHANGED <<gen, inLive, stopped>>
  BY DEF OnAddressRemoved
<1>2. \A a \in Addresses, g \in 1 .. MaxContexts :
        <<a, g>> \in Held <=> a \in gone /\ (live[a] = g \/ unlive[a] = g)
  BY ServerPairs
<1>3. Held \subseteq Servers
  BY ServerPairs
<1>. HIDE DEF gone, Held
<1>4. MapTypes'
  BY <1>1, <1>3 DEF MapTypes
<1>5. ASSUME NEW a \in Addresses PROVE PlacedAt(a)'
  <2>1. gen[a] \in 0 .. MaxContexts /\ live[a] \in 0 .. MaxContexts /\ unlive[a] \in 0 .. MaxContexts
    BY DEF MapTypes
  <2>2. /\ live'[a] = IF a \in gone THEN 0 ELSE live[a]
        /\ unlive'[a] = IF a \in gone THEN 0 ELSE unlive[a]
        /\ gen'[a] = gen[a]
    BY <1>1
  <2>. QED BY <1>1, <1>2, <2>1, <2>2 DEF Placed, PlacedAt
<1>. QED BY <1>4, <1>5 DEF Placed

(* Stop() clears both maps.                                                 *)
LEMMA StopKeeps ==
    ASSUME MapTypes, Placed, Stop
    PROVE  MapTypes' /\ Placed'
<1>1. \A a \in Addresses : live'[a] = 0 /\ unlive'[a] = 0
  BY DEF Stop
<1>2. MapTypes'
  BY DEF Stop, MapTypes
<1>3. Placed'
  BY <1>1 DEF Stop, Placed, PlacedAt, MapTypes
<1>. QED BY <1>2, <1>3

(* A server leaves the live map for the unlive one.                         *)
LEMMA UnliveKeeps ==
    ASSUME MapTypes, Placed, NEW a \in Addresses, MoveToUnlive(a), UNCHANGED stopped
    PROVE  MapTypes' /\ Placed'
<1>1. CASE live[a] = 0
  BY <1>1 DEF MoveToUnlive, mapVars, MapTypes, Placed, PlacedAt
<1>2. CASE live[a] # 0
  <2>1. live[a] \in 1 .. MaxContexts
    BY <1>2 DEF MapTypes
  <2>2. MapTypes'
    BY <1>2, <2>1 DEF MoveToUnlive, MapTypes
  <2>3. \A b \in Addresses :
          /\ live'[b] = IF b = a THEN 0 ELSE live[b]
          /\ unlive'[b] = IF b = a THEN live[a] ELSE unlive[b]
    BY <1>2 DEF MoveToUnlive, MapTypes
  <2>4. \A b \in Addresses, g \in 1 .. MaxContexts :
          <<b, g>> \in inLive' <=> <<b, g>> \in inLive /\ ~(b = a /\ g = live[a])
    BY <1>2 DEF MoveToUnlive
  <2>5. ASSUME NEW b \in Addresses PROVE PlacedAt(b)'
    BY <1>2, <2>1, <2>3, <2>4 DEF MoveToUnlive, Placed, PlacedAt, MapTypes
  <2>. QED BY <2>2, <2>5 DEF Placed
<1>. QED BY <1>1, <1>2

(* And back.                                                                *)
LEMMA LiveKeeps ==
    ASSUME MapTypes, Placed, NEW s \in Servers, MoveToLive(s)
    PROVE  MapTypes' /\ Placed'
<1>. DEFINE a == s[1]
<1>1. a \in Addresses
  BY ServerPairs
<1>2. CASE unlive[a] = 0
  BY <1>2 DEF MoveToLive, mapVars, MapTypes, Placed, PlacedAt
<1>3. CASE unlive[a] # 0
  <2>. HIDE DEF a
  <2>1. unlive[a] \in 1 .. MaxContexts
    BY <1>1, <1>3 DEF MapTypes
  <2>2. /\ unlive' = [unlive EXCEPT ![a] = 0]
        /\ live' = [live EXCEPT ![a] = unlive[a]]
        /\ inLive' = inLive \cup {<<a, unlive[a]>>}
        /\ UNCHANGED <<added, gen, removed, stopped>>
    BY <1>3 DEF MoveToLive, a
  <2>3. MapTypes'
    BY <1>1, <2>1, <2>2, ServerPairs DEF MapTypes
  <2>4. \A b \in Addresses :
          /\ unlive'[b] = IF b = a THEN 0 ELSE unlive[b]
          /\ live'[b] = IF b = a THEN unlive[a] ELSE live[b]
    BY <1>1, <2>2 DEF MapTypes
  <2>5. \A b \in Addresses, g \in 1 .. MaxContexts :
          <<b, g>> \in inLive' <=> <<b, g>> \in inLive \/ (b = a /\ g = unlive[a])
    BY <2>2
  <2>6. ASSUME NEW b \in Addresses PROVE PlacedAt(b)'
    BY <1>1, <2>1, <2>2, <2>4, <2>5 DEF Placed, PlacedAt, MapTypes
  <2>. QED BY <2>3, <2>6 DEF Placed
<1>. QED BY <1>2, <1>3
-----------------------------------------------------------------------------
(* Every step keeps the maps and their flags in order.                      *)
LEMMA MapsStep ==
    ASSUME MapsInv, Next
    PROVE  MapTypes' /\ Placed'
<1>. USE DEF MapsInv
<1>1. ASSUME UNCHANGED <<mapVars, stopped>> PROVE MapTypes' /\ Placed'
  BY <1>1 DEF mapVars, MapTypes, Placed, PlacedAt
<1>2. ASSUME NEW c \in Calls, CallStep(c) PROVE MapTypes' /\ Placed'
  <2>1. CASE StartCall(c) \/ ChooseServer(c) \/ InitChannel(c) \/ DoneCallback(c) \/ CallDone(c)
    BY <2>1, <1>1 DEF StartCall, ChooseServer, InitChannel, DoneCallback, CallDone
  <2>2. CASE InitFailed(c) \/ CallFailed(c)
    <3>1. on[c][1] \in Addresses
      BY <2>2, ServerPairs DEF InitFailed, CallFailed, CallTypes
    <3>2. MoveToUnlive(on[c][1]) /\ UNCHANGED stopped
      BY <2>2 DEF InitFailed, CallFailed
    <3>. QED BY <3>1, <3>2, UnliveKeeps
  <2>. QED BY <1>2, <2>1, <2>2 DEF CallStep
<1>3. ASSUME NEW s \in Servers, Detect(s) PROVE MapTypes' /\ Placed'
  <2>1. CASE TimerDetect(s) \/ DetectOk(s) \/ DetectFailed(s)
    BY <2>1, <1>1 DEF TimerDetect, DetectOk, DetectFailed
  <2>2. CASE MoveToLive(s)
    BY <2>2, LiveKeeps
  <2>. QED BY <1>3, <2>1, <2>2 DEF Detect
<1>. QED BY <1>2, <1>3, AddedKeeps, RemovedKeeps, StopKeeps DEF Next

(* A step of one call keeps the types of all of them.                       *)
LEMMA CallTypesKept ==
    ASSUME MapsInv, NEW c \in Calls, CallStep(c)
    PROVE  CallTypes'
<1>. USE DEF MapsInv
<1>1. ASSUME Finish(c), UNCHANGED <<inited, stopped, aborted, detectVars>> PROVE CallTypes'
  BY <1>1 DEF Finish, Goto, detectVars, CallTypes
<1>2. ASSUME Retry(c), UNCHANGED <<inited, stopped, aborted, detectVars>> PROVE CallTypes'
  <2>1. CASE Finish(c)
    BY <1>1, <1>2, <2>1
  <2>2. CASE ~Finish(c)
    <3>1. tries[c] \in 0 .. RetryCount /\ tries[c] < RetryCount
      BY <1>2, <2>2 DEF Retry, CallTypes
    <3>. QED BY <1>2, <2>2, <3>1 DEF Retry, Goto, detectVars, CallTypes
  <2>. QED BY <2>1, <2>2
<1>3. CASE StartCall(c)
  BY <1>3 DEF StartCall, Goto, detectVars, CallTypes
<1>4. CASE ChooseServer(c)
  <2>1. CASE Retry(c)
    BY <1>2, <1>4, <2>1 DEF ChooseServer
  <2>2. CASE ~Retry(c)
    <3>1. PICK s \in Candidates :
            /\ on' = [on EXCEPT ![c] = s]
            /\ fromLive' = IF s \in In(live) THEN fromLive \cup {c} ELSE fromLive \ {c}
            /\ Goto(c, "init")
            /\ UNCHANGED tries
      BY <1>4, <2>2 DEF ChooseServer
    <3>2. s \in Servers
      BY ServerPairs DEF Candidates, LeastLoaded
    <3>. QED BY <1>4, <3>1, <3>2 DEF ChooseServer, Goto, detectVars, CallTypes
  <2>. QED BY <2>1, <2>2
<1>5. CASE InitChannel(c)
  BY <1>5 DEF InitChannel, Goto, detectVars, CallTypes
<1>6. CASE InitFailed(c)
  BY <1>2, <1>6 DEF InitFailed
<1>7. CASE DoneCallback(c)
  BY <1>7 DEF DoneCallback, Goto, detectVars, CallTypes
<1>8. CASE CallDone(c)
  <2>1. CASE Finish(c)
    BY <1>1, <1>8, <2>1 DEF CallDone
  <2>2. CASE ~Finish(c)
    BY <1>8, <2>2 DEF CallDone, Goto, detectVars, CallTypes
  <2>. QED BY <2>1, <2>2
<1>9. CASE CallFailed(c)
  BY <1>1, <1>9 DEF CallFailed
<1>. QED BY <1>3, <1>4, <1>5, <1>6, <1>7, <1>8, <1>9 DEF CallStep

(* So does every other step.                                                *)
LEMMA CallTypesStep ==
    ASSUME MapsInv, Next
    PROVE  CallTypes'
<1>. USE DEF MapsInv
<1>1. ASSUME NEW as \in SUBSET Addresses, OnAddressAdded(as) \/ OnAddressRemoved(as)
      PROVE  CallTypes'
  BY <1>1 DEF OnAddressAdded, OnAddressRemoved, callVars, detectVars, CallTypes
<1>2. ASSUME Stop PROVE CallTypes'
  BY <1>2 DEF Stop, callVars, detectVars, CallTypes
<1>3. ASSUME NEW s \in Servers, Detect(s) PROVE CallTypes'
  BY <1>3, ServerPairs DEF Detect, TimerDetect, DetectOk, DetectFailed, MoveToLive, callVars, CallTypes
<1>. QED BY <1>1, <1>2, <1>3, CallTypesKept DEF Next

(* The addresses of Init() enter the live map.                              *)
LEMMA MapsInit == Init => MapsInv
<1>. SUFFICES ASSUME Init PROVE MapsInv
  OBVIOUS
<1>1. added # {} => 1 \in 0 .. MaxContexts
  <2>1. IsFiniteSet(added)
    BY FS_Subset, FiniteAssumption DEF Init
  <2>2. Cardinality(added) \in Nat /\ (Cardinality(added) = 0 <=> added = {})
    BY <2>1, FS_CardinalityType, FS_EmptySet
  <2>. QED BY <2>2 DEF Init
<1>2. \A a \in Addresses : live[a] = gen[a] /\ unlive[a] = 0 /\ gen[a] = IF a \in added THEN 1 ELSE 0
  BY DEF Init
<1>3. MapTypes
  <2>1. gen \in [Addresses -> 0 .. MaxContexts]
    BY <1>1 DEF Init
  <2>2. inLive \subseteq Servers
    BY ServerPairs DEF Init
  <2>. QED BY <2>1, <2>2 DEF Init, MapTypes
<1>4. CallTypes
  <2>1. tries \in [Calls -> 0 .. RetryCount]
    BY DEF Init
  <2>. QED BY <2>1 DEF Init, CallTypes
<1>5. Placed
  <2>1. \A a \in Addresses, g \in 1 .. MaxContexts : <<a, g>> \in inLive <=> gen[a] = g
    BY ServerPairs DEF Init
  <2>. QED BY <1>2, <2>1 DEF Init, Placed, PlacedAt
<1>. QED BY <1>3, <1>4, <1>5 DEF MapsInv

(* The maps, the flags and the types are an invariant.                      *)
LEMMA MapsInvariant == Spec => []MapsInv
<1>1. ASSUME MapsInv, [Next]_vars PROVE MapsInv'
  <2>1. CASE Next
    BY <1>1, <2>1, MapsStep, CallTypesStep DEF MapsInv
  <2>2. CASE UNCHANGED vars
    BY <1>1, <2>2 DEF vars, mapVars, callVars, detectVars, MapsInv, MapTypes, CallTypes, Placed, PlacedAt
  <2>. QED BY <1>1, <2>1, <2>2
<1>. QED BY <1>1, MapsInit, PTL DEF Spec

(* The state of the channel stays within its types.                         *)
THEOREM ChannelTypeCorrect == Spec => []ChannelTypeOK
<1>1. MapsInv => ChannelTypeOK
  BY DEF MapsInv, MapTypes, CallTypes, ChannelTypeOK
<1>. QED BY <1>1, MapsInvariant, PTL

(* Whatever calls, probes and changes of addresses race, no server is in    *)
(* two maps, none is lost before Stop(), and no removed one comes back.     *)
THEOREM MapsCorrect == Spec => []MapsPartition
<1>1. ASSUME MapsInv PROVE MapsPartition
  <2>. USE <1>1, ServerPairs DEF MapsInv, Placed, PlacedAt
  <2>1. \A a \in Addresses : live[a] = 0 \/ unlive[a] = 0
    OBVIOUS
  <2>2. In(live) \subseteq inLive
    OBVIOUS
  <2>3. In(unlive) \cap inLive = {}
    OBVIOUS
  <2>4. (In(live) \cup In(unlive)) \cap removed = {}
    OBVIOUS
  <2>5. ASSUME ~stopped PROVE Created \ removed = In(live) \cup In(unlive)
    <3>1. ASSUME NEW s \in Created \ removed PROVE s \in In(live) \cup In(unlive)
      BY <2>5, <3>1 DEF Created
    <3>2. ASSUME NEW s \in In(live) \cup In(unlive) PROVE s \in Created \ removed
      BY <2>4, <3>2 DEF Created
    <3>. QED BY <3>1, <3>2
  <2>6. ASSUME ~stopped PROVE added = { s[1] : s \in In(live) \cup In(unlive) }
    <3>1. ASSUME NEW a \in added PROVE \E s \in In(live) \cup In(unlive) : a = s[1]
      <4>1. PICK g \in 1 .. MaxContexts : live[a] = g \/ unlive[a] = g
        BY <2>6 DEF MapTypes
      <4>2. <<a, g>> \in In(live) \cup In(unlive)
        BY <4>1 DEF MapTypes
      <4>. QED BY <4>2
    <3>2. ASSUME NEW s \in In(live) \cup In(unlive) PROVE s[1] \in added
      BY <3>2
    <3>. QED BY <3>1, <3>2
  <2>. QED BY <2>1, <2>2, <2>3, <2>4, <2>5, <2>6 DEF MapsPartition
<1>. QED BY <1>1, MapsInvariant, PTL
-----------------------------------------------------------------------------
(* Calls that have chosen server s from the live map and count for it       *)
(* already or will do so.                                                   *)
Reserved(s) == { c \in Calls : on[c] = s /\ pc[c] \in {"init", "called"} /\ c \in fromLive }

LoadInv ==
    /\ Cardinality(Choosing) <= Threads
    /\ Capacity > 0 => \A s \in Servers : Cardinality(Reserved(s)) <= Capacity + Threads - 1

(* Sets of calls are finite, and a part is not larger than the whole.       *)
LEMMA CallSets ==
    /\ \A C \in SUBSET Calls : IsFiniteSet(C) /\ Cardinality(C) \in Nat
    /\ \A C, D \in SUBSET Calls : C \subseteq D => Cardinality(C) <= Cardinality(D)
<1>1. \A C \in SUBSET Calls : IsFiniteSet(C) /\ Cardinality(C) \in Nat
  BY FS_Subset, FS_CardinalityType, FiniteAssumption
<1>2. ASSUME NEW C \in SUBSET Calls, NEW D \in SUBSET Calls, C \subseteq D
      PROVE  Cardinality(C) <= Cardinality(D)
  BY <1>1, <1>2, FS_Subset
<1>. QED BY <1>1, <1>2

(* A step that lets no call in keeps the bounds.                            *)
LEMMA LoadFrame ==
    ASSUME LoadInv, Choosing' \subseteq Choosing,
           \A s \in Servers : Reserved(s)' \subseteq Reserved(s)
    PROVE  LoadInv'
<1>1. Choosing \in SUBSET Calls /\ Choosing' \in SUBSET Calls
  BY DEF Choosing
<1>2. \A s \in Servers : Reserved(s) \in SUBSET Calls /\ Reserved(s)' \in SUBSET Calls
  BY DEF Reserved
<1>3. Cardinality(Choosing)' <= Threads
  BY <1>1, CallSets DEF LoadInv
<1>4. ASSUME Capacity > 0, NEW s \in Servers
      PROVE  Cardinality(Reserved(s)') <= Capacity + Threads - 1
  BY <1>2, <1>4, CallSets DEF LoadInv
<1>. QED BY <1>3, <1>4 DEF LoadInv

(* A thread comes into CallMethod() if there is one left.                   *)
LEMMA LoadStart ==
    ASSUME MapsInv, LoadInv, NEW c \in Calls, StartCall(c)
    PROVE  LoadInv'
<1>1. Choosing' = Choosing \cup {c} /\ Choosing \in SUBSET Calls
  BY DEF StartCall, Goto, Choosing, MapsInv, CallTypes
<1>2. Cardinality(Choosing') <= Cardinality(Choosing) + 1 /\ Cardinality(Choosing) \in Nat
  BY <1>1, CallSets, FS_AddElement
<1>3. Cardinality(Choosing) < Threads
  BY DEF StartCall
<1>4. \A s \in Servers : Reserved(s)' = Reserved(s)
  BY DEF StartCall, Goto, Reserved, MapsInv, CallTypes
<1>5. Cardinality(Choosing') <= Threads
  <2>1. Cardinality(Choosing') \in Nat
    BY <1>1, CallSets
  <2>. QED BY <1>2, <1>3, <2>1
<1>6. ASSUME Capacity > 0, NEW s \in Servers
      PROVE  Cardinality(Reserved(s)') <= Capacity + Threads - 1
  BY <1>4, <1>6 DEF LoadInv
<1>. QED BY <1>5, <1>6 DEF LoadInv

(* A server chosen from the live map was below its capacity: with the calls *)
(* of the other threads that have chosen it, too, it stays within the bound. *)
LEMMA LoadChoose ==
    ASSUME MapsInv, LoadInv, NEW c \in Calls, NEW s \in Candidates, s \in In(live),
           pc[c] = "choose", Goto(c, "init"), on' = [on EXCEPT ![c] = s],
           fromLive' = fromLive \cup {c}
    PROVE  LoadInv'
<1>. USE DEF MapsInv, CallTypes
<1>1. Choosing' = Choosing /\ Choosing \in SUBSET Calls
  BY DEF Goto, Choosing
<1>2. ASSUME NEW r \in Servers, r # s PROVE Reserved(r)' \subseteq Reserved(r)
  BY <1>2 DEF Goto, Reserved
<1>3. ASSUME Capacity > 0 PROVE Cardinality(Reserved(s)') <= Capacity + Threads - 1
  <2>1. InFlight(s) \in SUBSET Calls /\ Reserved(s)' \in SUBSET Calls
    BY DEF InFlight, Reserved
  <2>2. Reserved(s)' \subseteq InFlight(s) \cup Choosing
    BY <1>1 DEF Goto, Reserved, InFlight, Choosing
  <2>3. Cardinality(InFlight(s) \cup Choosing)
          <= Cardinality(InFlight(s)) + Cardinality(Choosing)
    <3>1. /\ IsFiniteSet(InFlight(s)) /\ IsFiniteSet(Choosing)
          /\ Cardinality(InFlight(s)) \in Nat /\ Cardinality(Choosing) \in Nat
          /\ Cardinality(InFlight(s) \cap Choosing) \in Nat
      BY <1>1, <2>1, CallSets
    <3>2. Cardinality(InFlight(s) \cup Choosing)
            = Cardinality(InFlight(s)) + Cardinality(Choosing) - Cardinality(InFlight(s) \cap Choosing)
      BY <3>1, FS_Union
    <3>. QED BY <3>1, <3>2
  <2>4. WaitCount(s) < Capacity
    BY <1>3 DEF Candidates, BelowCapacity
  <2>5. Cardinality(InFlight(s)) < Capacity
    BY <2>1, <2>4, CallSets DEF WaitCount
  <2>6. Cardinality(Reserved(s)') <= Cardinality(InFlight(s) \cup Choosing)
    BY <1>1, <2>1, <2>2, CallSets
  <2>. QED BY <1>1, <2>1, <2>3, <2>5, <2>6, CallSets DEF LoadInv
<1>4. ASSUME Capacity > 0, NEW r \in Servers
      PROVE  Cardinality(Reserved(r)') <= Capacity + Threads - 1
  <2>1. CASE r = s
    BY <1>3, <1>4, <2>1
  <2>2. CASE r # s
    <3>1. Reserved(r)' \in SUBSET Calls /\ Reserved(r) \in SUBSET Calls
      BY DEF Reserved
    <3>. QED BY <1>2, <1>4, <2>2, <3>1, CallSets DEF LoadInv
  <2>. QED BY <2>1, <2>2
<1>. QED BY <1>1, <1>4 DEF LoadInv

(* A call that leaves CallMethod() or ends lets go of its server.           *)
LEMMA LoadRelease ==
    ASSUME MapsInv, LoadInv, NEW c \in Calls, pc[c] \in {"choose", "demote", "done", "move"},
           Retry(c) \/ Finish(c),
           pc[c] \in {"choose", "demote"} \/ Finish(c)
    PROVE  LoadInv'
<1>. USE DEF MapsInv, CallTypes
<1>1. Choosing' \subseteq Choosing
  BY DEF Retry, Finish, Goto, Choosing
<1>2. ASSUME NEW s \in Servers PROVE Reserved(s)' \subseteq Reserved(s)
  BY DEF Retry, Finish, Goto, Reserved
<1>. QED BY <1>1, <1>2, LoadFrame

(* No step of a call breaks the bounds.                                     *)
LEMMA LoadCall ==
    ASSUME MapsInv, LoadInv, NEW c \in Calls, CallStep(c)
    PROVE  LoadInv'
<1>. USE DEF MapsInv, CallTypes
<1>1. CASE ChooseServer(c)
  <2>1. CASE Retry(c)
    BY <1>1, <2>1, LoadRelease DEF ChooseServer
  <2>2. CASE ~Retry(c)
    <3>1. PICK s \in Candidates :
            /\ on' = [on EXCEPT ![c] = s]
            /\ fromLive' = IF s \in In(live) THEN fromLive \cup {c} ELSE fromLive \ {c}
            /\ Goto(c, "init")
      BY <1>1, <2>2 DEF ChooseServer
    <3>2. CASE s \in In(live)
      BY <1>1, <3>1, <3>2, LoadChoose DEF ChooseServer
    <3>3. CASE s \notin In(live)
      <4>1. Choosing' \subseteq Choosing
        BY <1>1, <3>1, <3>3 DEF ChooseServer, Goto, Choosing
      <4>2. ASSUME NEW r \in Servers PROVE Reserved(r)' \subseteq Reserved(r)
        BY <1>1, <3>1, <3>3 DEF ChooseServer, Goto, Reserved
      <4>. QED BY <4>1, <4>2, LoadFrame
    <3>. QED BY <3>2, <3>3
  <2>. QED BY <2>1, <2>2
<1>2. CASE InitChannel(c)
  <2>1. Choosing' \subseteq Choosing
    BY <1>2 DEF InitChannel, Goto, Choosing
  <2>2. ASSUME NEW s \in Servers PROVE Reserved(s)' \subseteq Reserved(s)
    BY <1>2 DEF InitChannel, Goto, Reserved
  <2>. QED BY <2>1, <2>2, LoadFrame
<1>3. CASE DoneCallback(c) \/ (CallDone(c) /\ ~Finish(c))
  <2>1. Choosing' \subseteq Choosing
    BY <1>3 DEF DoneCallback, CallDone, Goto, Choosing
  <2>2. ASSUME NEW s \in Servers PROVE Reserved(s)' \subseteq Reserved(s)
    BY <1>3 DEF DoneCallback, CallDone, Goto, Reserved
  <2>. QED BY <2>1, <2>2, LoadFrame
<1>4. CASE InitFailed(c)
  BY <1>4, LoadRelease DEF InitFailed
<1>5. CASE CallFailed(c) \/ (CallDone(c) /\ Finish(c))
  BY <1>5, LoadRelease DEF CallFailed, CallDone
<1>. QED BY <1>1, <1>2, <1>3, <1>4, <1>5, LoadStart DEF CallStep

(* The bounds are an invariant.                                             *)
LEMMA LoadInvariant == Spec => []LoadInv
<1>1. Init => LoadInv
  <2>. SUFFICES ASSUME Init PROVE LoadInv
    OBVIOUS
  <2>1. Choosing = {} /\ \A s \in Servers : Reserved(s) = {}
    BY DEF Init, Choosing, Reserved
  <2>. QED BY <2>1, FS_EmptySet DEF LoadInv
<1>2. ASSUME MapsInv, LoadInv, [Next]_vars PROVE LoadInv'
  <2>1. CASE UNCHANGED callVars
    <3>1. Choosing' = Choosing /\ \A s \in Servers : Reserved(s)' = Reserved(s)
      BY <2>1 DEF callVars, Choosing, Reserved
    <3>. QED BY <1>2, <3>1, LoadFrame
  <2>2. CASE \E c \in Calls : CallStep(c)
    BY <1>2, <2>2, LoadCall
  <2>3. UNCHANGED callVars \/ \E c \in Calls : CallStep(c)
    BY <1>2 DEF Next, vars, OnAddressAdded, OnAddressRemoved, Stop, Detect, TimerDetect,
                DetectOk, DetectFailed, MoveToLive
  <2>. QED BY <2>1, <2>2, <2>3
<1>. QED BY <1>1, <1>2, MapsInvariant, PTL DEF Spec

(* rpc_channel.h:30: of the calls that found a server in the live map it    *)
(* carries one above server_load_capacity per additional thread at most.    *)
THEOREM LoadCorrect == Spec => []LoadBound
<1>1. ASSUME LoadInv PROVE LoadBound
  <2>1. ASSUME Capacity > 0, NEW s \in Servers
        PROVE  Cardinality(InFlight(s) \cap fromLive) <= Capacity + Threads - 1
    <3>1. /\ InFlight(s) \cap fromLive \subseteq Reserved(s)
          /\ InFlight(s) \cap fromLive \in SUBSET Calls /\ Reserved(s) \in SUBSET Calls
      BY DEF InFlight, Reserved
    <3>2. Cardinality(InFlight(s) \cap fromLive) <= Cardinality(Reserved(s))
      BY <3>1, CallSets
    <3>. QED BY <1>1, <2>1, <3>1, <3>2, CallSets DEF LoadInv
  <2>. QED BY <2>1 DEF LoadBound
<1>. QED BY <1>1, LoadInvariant, PTL
=============================================================================
