------------------------- MODULE ServicePoolProofs -------------------------
(* Proofs about ServicePool, for any services, workers, hash and ring. *)
EXTENDS ServicePool, FiniteSetTheorems, TLAPS

Registering(w) == pc[w] \in {"link", "cache"}

LookupTypeOK ==
    /\ services \subseteq Services
    /\ chain \in Seq(Services)
    /\ cache \in [Buckets -> Services \cup {NoService}]
    /\ pc \in [Workers -> {"idle", "link", "cache", "find", "found", "load", "store",
                           "read_index", "read_id", "read_slot"}]
    /\ asked \in [Workers -> Services \cup {NoService}]
    /\ board \in [Workers -> Services \cup {NoService}]
    /\ missing \in [Workers -> BOOLEAN]

(* What a registration holds while it is under way: the lock, and a name    *)
(* that is in the map and, once it has been linked, in the chain.           *)
RegisteringHolds ==
    /\ \A w \in Workers : Registering(w) => lock = w /\ asked[w] \in services
    /\ \A w \in Workers : pc[w] = "link" => asked[w] \notin Range(chain)
    /\ \A w \in Workers : pc[w] = "cache" => asked[w] \in Range(chain)
    /\ Range(chain) \subseteq services

(* What a lookup knows: there is no board before it has found one, and a    *)
(* service that was published when it began still is.                       *)
FindingKnows ==
    /\ \A w \in Workers : pc[w] \in {"idle", "link", "cache", "find"} => board[w] = NoService
    /\ \A w \in Workers : pc[w] = "find" => asked[w] \in Services
    /\ \A w \in Workers : pc[w] \in {"idle", "link", "cache"} => ~missing[w]
    /\ \A w \in Workers : missing[w] => asked[w] \in published

LookupInv == LookupTypeOK /\ RegisteringHolds /\ FindingKnows /\ LookupExact

USE NameAssumption, CacheAssumption

(* The invariant holds before any service is registered. *)
LEMMA LookupInit == Init => LookupInv
<1>. SUFFICES ASSUME Init PROVE LookupInv
  OBVIOUS
<1>1. Range(chain) = {} /\ IsInjective(chain)
  BY DEF Init, Range, IsInjective
<1>2. LookupTypeOK
  BY DEF Init, LookupTypeOK
<1>3. RegisteringHolds /\ FindingKnows /\ LookupExact
  BY <1>1 DEF Init, RegisteringHolds, Registering, FindingKnows, LookupExact
<1>. QED BY <1>2, <1>3 DEF LookupInv

(* Putting a new board at the head links it and nothing else. *)
LEMMA PutFirst ==
    ASSUME NEW S, NEW c \in Seq(S), NEW s \in S, s \notin Range(c), IsInjective(c)
    PROVE  /\ <<s>> \o c \in Seq(S)
           /\ Range(<<s>> \o c) = Range(c) \cup {s}
           /\ IsInjective(<<s>> \o c)
<1>. DEFINE d == <<s>> \o c
<1>1. d \in Seq(S) /\ DOMAIN d = 1 .. Len(c) + 1 /\ DOMAIN c = 1 .. Len(c) /\ Len(c) \in Nat
  OBVIOUS
<1>2. d[1] = s /\ \A i \in 2 .. Len(c) + 1 : d[i] = c[i - 1]
  OBVIOUS
<1>3. \A i \in 1 .. Len(c) : d[i + 1] = c[i]
  BY <1>1, <1>2
<1>. HIDE DEF d
<1>4. Range(d) \subseteq Range(c) \cup {s}
  <2>1. ASSUME NEW i \in 1 .. Len(c) + 1 PROVE d[i] \in Range(c) \cup {s}
    <3>1. Len(c) \in Nat
      BY <1>1
    <3>2. i = 1 \/ (i - 1 \in 1 .. Len(c) /\ i \in 2 .. Len(c) + 1)
      BY <3>1
    <3>. QED BY <3>2, <1>1, <1>2 DEF Range
  <2>. QED BY <1>1, <2>1 DEF Range
<1>5. Range(c) \cup {s} \subseteq Range(d)
  <2>1. s \in Range(d)
    BY <1>1, <1>2 DEF Range
  <2>2. ASSUME NEW i \in 1 .. Len(c) PROVE c[i] \in Range(d)
    BY <1>1, <1>3 DEF Range
  <2>. QED BY <1>1, <2>1, <2>2 DEF Range
<1>6. IsInjective(d)
  <2>. SUFFICES ASSUME NEW i \in 1 .. Len(c) + 1, NEW j \in 1 .. Len(c) + 1, d[i] = d[j]
                PROVE  i = j
    BY <1>1 DEF IsInjective
  <2>1. \A k \in 1 .. Len(c) : c[k] # s
    BY <1>1 DEF Range
  <2>2. CASE i = 1 \/ j = 1
    BY <1>2, <2>1, <2>2
  <2>3. CASE i # 1 /\ j # 1
    BY <1>1, <1>2, <2>3 DEF IsInjective
  <2>. QED BY <2>2, <2>3
<1>. QED BY <1>1, <1>4, <1>5, <1>6 DEF d

(* The locked section of RegisterService(). *)
LEMMA RegistrationKeeps ==
    ASSUME LookupInv, NEW w \in Workers,
           (\E s \in Services : RegisterService(w, s)) \/ LinkBoard(w) \/ CacheBoard(w)
    PROVE  LookupInv'
<1>. USE DEF LookupInv, poolVars, findVars
<1>1. CASE \E s \in Services : RegisterService(w, s)
  <2>1. PICK s \in Services : RegisterService(w, s)
    BY <1>1
  <2>2. LookupTypeOK'
    BY <2>1 DEF RegisterService, Goto, LookupTypeOK
  <2>3. \A v \in Workers : v # w => pc'[v] = pc[v] /\ asked'[v] = asked[v]
    BY <2>1 DEF RegisterService, Goto, LookupTypeOK
  <2>4. pc[w] = "idle" /\ pc'[w] = "link" /\ asked'[w] = s /\ board[w] = NoService
    BY <2>1 DEF RegisterService, Goto, LookupTypeOK, FindingKnows
  <2>5. RegisteringHolds'
    BY <2>1, <2>3, <2>4 DEF RegisterService, RegisteringHolds, Registering
  <2>6. FindingKnows' /\ LookupExact'
    BY <2>1, <2>3, <2>4 DEF RegisterService, FindingKnows, LookupExact
  <2>. QED BY <2>2, <2>5, <2>6
<1>2. CASE LinkBoard(w)
  <2>1. asked[w] \in Services /\ asked[w] \notin Range(chain) /\ asked[w] \in services
    BY <1>2 DEF LinkBoard, Goto, RegisteringHolds, Registering, LookupTypeOK
  <2>2. chain' \in Seq(Services) /\ Range(chain)' = Range(chain) \cup {asked[w]} /\ IsInjective(chain)'
    BY <1>2, <2>1, PutFirst DEF LinkBoard, LookupTypeOK, LookupExact
  <2>3. LookupTypeOK'
    BY <1>2, <2>2 DEF LinkBoard, Goto, LookupTypeOK
  <2>4. \A v \in Workers : v # w => pc'[v] = pc[v] /\ ~Registering(v)
    BY <1>2 DEF LinkBoard, Goto, LookupTypeOK, RegisteringHolds, Registering
  <2>5. pc[w] = "link" /\ pc'[w] = "cache"
    BY <1>2 DEF LinkBoard, Goto, LookupTypeOK
  <2>6. RegisteringHolds'
    BY <1>2, <2>1, <2>2, <2>4, <2>5 DEF LinkBoard, RegisteringHolds, Registering
  <2>7. FindingKnows' /\ LookupExact'
    BY <1>2, <2>2, <2>4, <2>5 DEF LinkBoard, FindingKnows, LookupExact
  <2>. QED BY <2>3, <2>6, <2>7
<1>3. CASE CacheBoard(w)
  <2>1. asked[w] \in Services /\ asked[w] \in Range(chain) /\ CacheIndex[asked[w]] \in Buckets
    BY <1>3 DEF CacheBoard, Goto, RegisteringHolds, Registering, LookupTypeOK, Buckets, Range
  <2>2. LookupTypeOK'
    BY <1>3, <2>1 DEF CacheBoard, Goto, Forget, LookupTypeOK
  <2>3. \A v \in Workers : v # w => /\ pc'[v] = pc[v] /\ asked'[v] = asked[v]
                                    /\ board'[v] = board[v] /\ missing'[v] = missing[v]
                                    /\ ~Registering(v)
    BY <1>3 DEF CacheBoard, Goto, Forget, LookupTypeOK, RegisteringHolds, Registering
  <2>4. pc'[w] = "idle" /\ board'[w] = NoService /\ missing'[w] = FALSE
    BY <1>3 DEF CacheBoard, Goto, Forget, LookupTypeOK
  <2>5. RegisteringHolds'
    BY <1>3, <2>3, <2>4 DEF CacheBoard, RegisteringHolds, Registering
  <2>6. FindingKnows' /\ LookupExact'
    BY <1>3, <2>1, <2>3, <2>4 DEF CacheBoard, FindingKnows, LookupExact
  <2>. QED BY <2>2, <2>5, <2>6
<1>. QED BY <1>1, <1>2, <1>3

(* A worker finds the board of the name it has asked for. *)
FoundBy(w, s) ==
    /\ board' = [board EXCEPT ![w] = s]
    /\ asked' = [asked EXCEPT ![w] = s]
    /\ missing' = [missing EXCEPT ![w] = FALSE]
    /\ pc' = [pc EXCEPT ![w] = "found"]

(* A lookup that ends with a board, as one step of the pool. *)
LEMMA FoundBoard ==
    ASSUME NEW w \in Workers, NEW s \in Services, asked' = [asked EXCEPT ![w] = s],
           Found(w, s, TRUE) \/ Found(w, s, FALSE)
    PROVE  FoundBy(w, s)
<1>. (TRUE /\ s = NoService) = FALSE /\ (FALSE /\ s = NoService) = FALSE
  OBVIOUS
<1>. QED BY DEF Found, FoundBy

(* It keeps the invariant. *)
LEMMA FoundKeeps ==
    ASSUME LookupInv, NEW w \in Workers, NEW s \in Services,
           pc[w] \in {"idle", "find"}, FoundBy(w, s), UNCHANGED poolVars
    PROVE  LookupInv'
<1>. USE DEF LookupInv, poolVars
<1>1. /\ board' = [board EXCEPT ![w] = s]
      /\ asked' = [asked EXCEPT ![w] = s]
      /\ missing' = [missing EXCEPT ![w] = FALSE]
      /\ pc' = [pc EXCEPT ![w] = "found"]
  BY DEF FoundBy
<1>2. LookupTypeOK'
  BY <1>1 DEF LookupTypeOK
<1>3. \A v \in Workers : v # w => /\ pc'[v] = pc[v] /\ asked'[v] = asked[v]
                                  /\ board'[v] = board[v] /\ missing'[v] = missing[v]
  BY <1>1 DEF LookupTypeOK
<1>4. pc'[w] = "found" /\ asked'[w] = s /\ board'[w] = s /\ ~missing'[w]
  BY <1>1 DEF LookupTypeOK
<1>5. RegisteringHolds' /\ FindingKnows' /\ LookupExact'
  BY <1>3, <1>4 DEF RegisteringHolds, Registering, FindingKnows, LookupExact
<1>. QED BY <1>2, <1>5

(* Looking a name up, in the cache, the map or the list of all services. *)
LEMMA FindKeeps ==
    ASSUME LookupInv, NEW w \in Workers,
           \/ \E s \in Services : FindInCache(w, s) \/ ListService(w, s)
           \/ FindInMap(w)
    PROVE  LookupInv'
<1>. LookupTypeOK /\ RegisteringHolds /\ FindingKnows /\ LookupExact
  BY DEF LookupInv
<1>1. ASSUME NEW s \in Services, FindInCache(w, s) PROVE LookupInv'
  <2>1. UNCHANGED poolVars /\ asked' = [asked EXCEPT ![w] = s] /\ pc[w] = "idle" /\ board[w] = NoService
    BY <1>1 DEF FindInCache, FindingKnows
  <2>2. CASE cache[CacheIndex[s]] = s
    <3>1. Found(w, s, TRUE) \/ Found(w, s, FALSE)
      <4>1. Found(w, s, s \in published)
        BY <1>1, <2>2 DEF FindInCache
      <4>. QED BY <4>1 DEF Found
    <3>2. FoundBy(w, s)
      BY <2>1, <3>1, FoundBoard
    <3>. QED BY <2>1, <3>2, FoundKeeps
  <2>3. CASE cache[CacheIndex[s]] # s
    <3>1. UNCHANGED board /\ pc' = [pc EXCEPT ![w] = "find"]
      BY <1>1, <2>3 DEF FindInCache, Goto
    <3>2. \E m \in BOOLEAN : missing' = [missing EXCEPT ![w] = m] /\ (m => s \in published)
      <4>1. missing' = [missing EXCEPT ![w] = s \in published]
        BY <1>1, <2>3 DEF FindInCache
      <4>2. (s \in published) \in BOOLEAN
        OBVIOUS
      <4>. QED BY <4>1, <4>2, Zenon
    <3>3. \A v \in Workers : v # w => pc'[v] = pc[v] /\ asked'[v] = asked[v] /\ missing'[v] = missing[v]
      BY <2>1, <3>1, <3>2 DEF LookupTypeOK, poolVars
    <3>4. pc'[w] = "find" /\ asked'[w] = s /\ (missing'[w] => s \in published)
      BY <2>1, <3>1, <3>2 DEF LookupTypeOK, poolVars
    <3>5. LookupTypeOK'
      BY <2>1, <3>1, <3>2 DEF LookupTypeOK, poolVars
    <3>6. RegisteringHolds' /\ FindingKnows' /\ LookupExact'
      BY <2>1, <3>1, <3>3, <3>4 DEF RegisteringHolds, Registering, FindingKnows, LookupExact, poolVars
    <3>. QED BY <3>5, <3>6 DEF LookupInv
  <2>. QED BY <2>2, <2>3
<1>2. CASE FindInMap(w)
  <2>1. UNCHANGED <<poolVars, asked>> /\ pc[w] = "find" /\ asked[w] \in Services
    BY <1>2 DEF FindInMap, FindingKnows
  <2>2. CASE asked[w] \in services
    <3>1. Found(w, asked[w], TRUE) \/ Found(w, asked[w], FALSE)
      <4>1. Found(w, asked[w], missing[w]) /\ missing[w] \in BOOLEAN
        BY <1>2, <2>2 DEF FindInMap, LookupTypeOK
      <4>. QED BY <4>1 DEF Found
    <3>2. asked' = [asked EXCEPT ![w] = asked[w]]
      BY <2>1 DEF LookupTypeOK
    <3>3. FoundBy(w, asked[w])
      BY <2>1, <3>1, <3>2, FoundBoard
    <3>. QED BY <2>1, <3>3, FoundKeeps
  <2>3. CASE asked[w] \notin services
    <3>1. ~missing[w]
      BY <2>3 DEF FindingKnows, LookupExact, RegisteringHolds
    <3>2. missing[w] = FALSE /\ Found(w, NoService, missing[w])
      BY <1>2, <2>3, <3>1 DEF FindInMap, LookupTypeOK
    <3>3. /\ board' = [board EXCEPT ![w] = NoService]
          /\ missing' = [missing EXCEPT ![w] = FALSE]
          /\ pc' = [pc EXCEPT ![w] = "found"]
      BY <3>2 DEF Found
    <3>4. LookupTypeOK'
      BY <2>1, <3>3 DEF LookupTypeOK, poolVars
    <3>5. \A v \in Workers : v # w => pc'[v] = pc[v] /\ board'[v] = board[v] /\ missing'[v] = missing[v]
      BY <3>3 DEF LookupTypeOK, poolVars
    <3>6. pc'[w] = "found" /\ board'[w] = NoService /\ ~missing'[w]
      BY <3>3 DEF LookupTypeOK, poolVars
    <3>7. RegisteringHolds' /\ FindingKnows' /\ LookupExact'
      BY <2>1, <3>5, <3>6 DEF RegisteringHolds, Registering, FindingKnows, LookupExact, poolVars
    <3>. QED BY <3>4, <3>7 DEF LookupInv
  <2>. QED BY <2>2, <2>3
<1>3. ASSUME NEW s \in Services, ListService(w, s) PROVE LookupInv'
  <2>1. /\ UNCHANGED poolVars /\ asked' = [asked EXCEPT ![w] = s]
        /\ pc[w] = "idle" /\ Found(w, s, FALSE)
    BY <1>3 DEF ListService
  <2>2. FoundBy(w, s)
    BY <2>1, FoundBoard
  <2>. QED BY <2>1, <2>2, FoundKeeps
<1>. QED BY <1>1, <1>2, <1>3

(* Steps of a worker that has its board and steps of the maintenance        *)
(* thread leave the pool alone.                                             *)
LEMMA CountingKeeps ==
    ASSUME LookupInv, NEW w \in Workers,
           \/ GiveUp(w) \/ StoreCount(w) \/ EndReading(w)
           \/ ChooseSlot(w) \/ LoadCount(w) \/ ReadIndex(w) \/ ReadId(w)
           \/ \E period \in Periods : TestIndex(w, period)
    PROVE  LookupInv'
<1>. USE DEF LookupInv, poolVars, findVars
<1>1. UNCHANGED poolVars
  BY DEF GiveUp, StoreCount, EndReading, ChooseSlot, LoadCount, ReadIndex, ReadId, TestIndex
<1>2. /\ pc[w] \notin {"idle", "link", "cache", "find"}
      /\ \A v \in Workers : v # w => pc'[v] = pc[v]
  BY DEF GiveUp, StoreCount, EndReading, ChooseSlot, LoadCount, ReadIndex, ReadId, TestIndex,
         Goto, LookupTypeOK
<1>3. CASE GiveUp(w) \/ StoreCount(w) \/ EndReading(w)
  <2>1. Forget(w) /\ pc' = [pc EXCEPT ![w] = "idle"]
    BY <1>3 DEF GiveUp, StoreCount, EndReading, Goto
  <2>2. \A v \in Workers : v # w => /\ asked'[v] = asked[v] /\ board'[v] = board[v]
                                    /\ missing'[v] = missing[v]
    BY <2>1 DEF Forget, LookupTypeOK
  <2>3. pc'[w] = "idle" /\ board'[w] = NoService /\ missing'[w] = FALSE
    BY <2>1 DEF Forget, LookupTypeOK
  <2>4. LookupTypeOK'
    BY <1>1, <2>1 DEF Forget, LookupTypeOK
  <2>5. RegisteringHolds' /\ FindingKnows' /\ LookupExact'
    BY <1>1, <1>2, <2>2, <2>3 DEF RegisteringHolds, Registering, FindingKnows, LookupExact
  <2>. QED BY <2>4, <2>5
<1>4. CASE \/ ChooseSlot(w) \/ LoadCount(w) \/ ReadIndex(w) \/ ReadId(w)
           \/ \E period \in Periods : TestIndex(w, period)
  <2>1. /\ UNCHANGED findVars
        /\ \E to \in {"load", "store", "read_index", "read_id", "read_slot"} :
              pc' = [pc EXCEPT ![w] = to]
    BY <1>4 DEF ChooseSlot, LoadCount, ReadIndex, ReadId, TestIndex, Goto
  <2>2. LookupTypeOK'
    BY <1>1, <2>1 DEF LookupTypeOK
  <2>3. pc'[w] \in {"load", "store", "read_index", "read_id", "read_slot"}
    BY <2>1 DEF LookupTypeOK
  <2>4. RegisteringHolds' /\ FindingKnows' /\ LookupExact'
    BY <1>1, <1>2, <2>1, <2>3 DEF RegisteringHolds, Registering, FindingKnows, LookupExact
  <2>. QED BY <2>2, <2>4
<1>. QED BY <1>3, <1>4

(* Every step keeps the invariant. *)
LEMMA LookupStep == LookupInv /\ [Next]_vars => LookupInv'
<1>. SUFFICES ASSUME LookupInv, [Next]_vars PROVE LookupInv'
  OBVIOUS
<1>1. ASSUME NEW w \in Workers,
             \/ \E s \in Services : RegisterService(w, s) \/ FindInCache(w, s) \/ ListService(w, s)
             \/ LinkBoard(w) \/ CacheBoard(w) \/ FindInMap(w) \/ GiveUp(w)
             \/ ChooseSlot(w) \/ LoadCount(w) \/ StoreCount(w)
             \/ \E period \in Periods : TestIndex(w, period)
             \/ ReadIndex(w) \/ ReadId(w) \/ EndReading(w)
      PROVE  LookupInv'
  BY <1>1, RegistrationKeeps, FindKeeps, CountingKeeps
<1>2. ASSUME UNCHANGED <<poolVars, pc, findVars>> PROVE LookupInv'
  BY <1>2 DEF poolVars, findVars, LookupInv, LookupTypeOK, RegisteringHolds, Registering,
              FindingKnows, LookupExact
<1>3. ASSUME NEW w \in Workers, ReadSlot(w) PROVE LookupInv'
  BY <1>2, <1>3 DEF ReadSlot
<1>4. CASE StartNextSlot \/ ClearNext \/ StoreIndex \/ StoreId
  BY <1>2, <1>4 DEF StartNextSlot, ClearNext, StoreIndex, StoreId
<1>5. CASE UNCHANGED vars
  BY <1>2, <1>5 DEF vars
<1>. QED BY <1>1, <1>3, <1>4, <1>5 DEF Next

(* Lookups are right at any time, also while services are registered: see   *)
(* LookupExact.                                                             *)
THEOREM LookupCorrect == Spec => []LookupExact
<1>1. LookupInv => LookupExact
  BY DEF LookupInv
<1>. QED BY <1>1, LookupInit, LookupStep, PTL DEF Spec
-----------------------------------------------------------------------------
(* The ring of statistics *)

USE SlotAssumption

Reading(w) == pc[w] \in {"read_id", "read_slot"}

StatsTypeOK ==
    /\ slotIndex \in [Services -> Indices]
    /\ slots \in [Services -> [Indices -> Nat]]
    /\ due \in [Services -> [Indices -> Nat]]
    /\ owner \in [Services -> [Indices -> Int]]
    /\ raced \in [Services -> SUBSET Indices]
    /\ index \in [Workers -> Int]
    /\ seen \in [Workers -> Nat]
    /\ left \in [Workers -> Int]
    /\ want \in [Workers -> Int]
    /\ since \in [Workers -> Int]
    /\ rest \in Seq(Services)
    /\ tpc \in {"idle", "clear", "index", "id"}
    /\ tpc # "idle" => rest # <<>>

(* A worker counts in an element of the ring, and counts and reads on a     *)
(* board.                                                                   *)
BusyOnBoard == \A w \in Workers :
    /\ pc[w] \in {"load", "store", "read_index", "read_id", "read_slot"} => board[w] \in Services
    /\ Counting(w) => index[w] \in Indices

(* What an element of the ring says while workers are counting in it: each  *)
(* of them is already due, and whoever has loaded the count will store one  *)
(* that leaves room for the others.                                         *)
ElementExact(s, i) ==
    LET inside == InElement(s, i)
        n == Cardinality(inside)
    IN  /\ IsFiniteSet(inside)
        /\ slots[s][i] + n <= due[s][i]
        /\ \A w \in inside : pc[w] = "store" => seen[w] + n <= due[s][i]
        /\ due[s][i] > 0 => slots[s][i] > 0 \/ inside # {}
        /\ i \notin raced[s] =>
              /\ n <= 1
              /\ slots[s][i] + n = due[s][i]
              /\ \A w \in inside : pc[w] = "store" => seen[w] = slots[s][i]

(* The board has cleared its next slot and not moved to it yet. *)
Ahead(s) == tpc = "index" /\ Head(rest) = s

(* How many moves ago element i was current when x is. *)
Age(x, i) == IF i <= x THEN x - i ELSE x - i + SlotCount

RingOrder(s) == \A i \in Indices :
    owner[s][i] = IF Ahead(s) /\ i = After(slotIndex[s]) THEN Current(s) + 1
                  ELSE Current(s) - Age(slotIndex[s], i)

(* A reader is at most one move late, and none once the next slot has been  *)
(* cleared; the slots it has read and has still to read are no more than    *)
(* the ring keeps for it.                                                   *)
ReaderInTime(w) ==
    /\ pc[w] = "read_index" => left[w] <= SlotCount - 2
    /\ Reading(w) =>
        /\ Current(board[w]) \in {since[w], since[w] + 1}
        /\ Ahead(board[w]) => Current(board[w]) = since[w]
        /\ want[w] <= since[w] - 1
        /\ left[w] + (since[w] - 1 - want[w]) <= SlotCount - 2
        /\ left[w] > 0 /\ index[w] >= 0 =>
              index[w] \in Indices /\ owner[board[w]][index[w]] = want[w]

Elements == \A s \in Services, i \in Indices : ElementExact(s, i)
Rings == \A s \in Services : RingOrder(s)
Readers == \A w \in Workers : ReaderInTime(w)

StatsInv == LookupInv /\ StatsTypeOK /\ BusyOnBoard /\ Elements /\ Rings /\ Readers

(* GetRealPeriod() leaves out the current slot and the next. *)
LEMMA RealPeriod == ASSUME NEW p \in Int PROVE GetRealPeriod(p) \in 1 .. SlotCount - 2
<1>1. Max({p, 1}) \in {p, 1} /\ Max({p, 1}) >= 1
  <2>1. \E x \in {p, 1} : \A y \in {p, 1} : x >= y
    <3>1. CASE p >= 1
      BY <3>1
    <3>2. CASE ~(p >= 1)
      BY <3>2
    <3>. QED BY <3>1, <3>2
  <2>2. Max({p, 1}) \in {p, 1} /\ \A y \in {p, 1} : Max({p, 1}) >= y
    BY <2>1 DEF Max
  <2>. QED BY <2>2
<1>. DEFINE m == Max({p, 1})
<1>2. m \in Int /\ m >= 1
  BY <1>1
<1>. HIDE DEF m
<1>3. Min({m, SlotCount - 2}) \in {m, SlotCount - 2} /\ Min({m, SlotCount - 2}) <= SlotCount - 2
  <2>1. \E x \in {m, SlotCount - 2} : \A y \in {m, SlotCount - 2} : x <= y
    <3>1. CASE m <= SlotCount - 2
      BY <1>2, <3>1
    <3>2. CASE ~(m <= SlotCount - 2)
      BY <1>2, <3>2
    <3>. QED BY <3>1, <3>2
  <2>2. /\ Min({m, SlotCount - 2}) \in {m, SlotCount - 2}
        /\ \A y \in {m, SlotCount - 2} : Min({m, SlotCount - 2}) <= y
    BY <2>1 DEF Min
  <2>. QED BY <2>2
<1>. QED BY <1>2, <1>3 DEF GetRealPeriod, m

(* The neighbours of an element of the ring are elements of it. *)
LEMMA Neighbours ==
    ASSUME NEW i \in Indices
    PROVE  /\ After(i) \in Indices /\ After(i) # i
           /\ Before(i) \in Indices
BY DEF Indices, After, Before

(* The invariant holds before any service is registered. *)
LEMMA StatsInit == Init => StatsInv
<1>. SUFFICES ASSUME Init PROVE StatsInv
  OBVIOUS
<1>1. LookupInv
  BY LookupInit
<1>2. StatsTypeOK
  BY DEF Init, StatsTypeOK, Indices
<1>3. BusyOnBoard /\ Readers
  BY DEF Init, BusyOnBoard, Readers, ReaderInTime, Reading, Counting
<1>4. Elements
  <2>. SUFFICES ASSUME NEW s \in Services, NEW i \in Indices PROVE ElementExact(s, i)
    BY DEF Elements
  <2>1. InElement(s, i) = {} /\ slots[s][i] = 0 /\ due[s][i] = 0
    BY DEF Init, InElement, Counting
  <2>2. IsFiniteSet({}) /\ Cardinality({}) = 0
    BY FS_EmptySet
  <2>. QED BY <2>1, <2>2 DEF ElementExact
<1>5. Rings
  BY DEF Init, Rings, RingOrder, Ahead, Current, Age, Indices
<1>. QED BY <1>1, <1>2, <1>3, <1>4, <1>5 DEF StatsInv

(* What a worker has in hand when it counts or reads. *)
Hand(w) == <<pc[w], board[w], index[w], seen[w], left[w], want[w], since[w]>>

(* An element keeps its record when those who count in it are left alone. *)
LEMMA ElementStays ==
    ASSUME NEW s \in Services, NEW i \in Indices, ElementExact(s, i),
           slots'[s][i] = slots[s][i], due'[s][i] = due[s][i], i \in raced'[s] <=> i \in raced[s],
           \A v \in Workers : Hand(v)' # Hand(v) =>
              v \notin InElement(s, i) /\ ~(v \in InElement(s, i))'
    PROVE  ElementExact(s, i)'
<1>1. \A v \in Workers : v \in InElement(s, i)' <=> v \in InElement(s, i)
  BY DEF InElement, Counting, Hand
<1>2. InElement(s, i)' = InElement(s, i)
  BY <1>1 DEF InElement
<1>3. \A v \in InElement(s, i) : pc'[v] = pc[v] /\ seen'[v] = seen[v]
  BY DEF InElement, Hand
<1>. QED BY <1>2, <1>3 DEF ElementExact

(* The current slot of a board. *)
LEMMA CurrentType ==
    ASSUME StatsTypeOK, NEW s \in Services
    PROVE  slotIndex[s] \in Indices /\ Current(s) \in Int
BY DEF StatsTypeOK, Current

(* Nothing happens to the rings and to those who count. *)
LEMMA ElementsStay ==
    ASSUME Elements, UNCHANGED countVars,
           \A v \in Workers : Hand(v)' # Hand(v) => ~Counting(v) /\ ~Counting(v)'
    PROVE  Elements'
<1>. SUFFICES ASSUME NEW s \in Services, NEW i \in Indices PROVE ElementExact(s, i)'
  BY DEF Elements
<1>. QED BY ElementStays DEF Elements, countVars, InElement

(* Nothing happens to the rings and to a reader. *)
LEMMA ReaderStays ==
    ASSUME NEW w \in Workers, ReaderInTime(w), Hand(w)' = Hand(w),
           UNCHANGED <<slotIndex, owner>>, \A s : Ahead(s)' => Ahead(s)
    PROVE  ReaderInTime(w)'
BY DEF ReaderInTime, Reading, Hand, Current

(* The rings keep their order while nothing happens to them. *)
LEMMA RingsStay ==
    ASSUME Rings, UNCHANGED <<slotIndex, owner>>, \A s : Ahead(s)' <=> Ahead(s)
    PROVE  Rings'
BY DEF Rings, RingOrder, Current

(* A step of one worker that leaves the maintenance alone. *)
LEMMA WorkerStays ==
    ASSUME StatsInv, LookupInv', NEW w \in Workers, UNCHANGED timerVars,
           \A v \in Workers : v # w => Hand(v)' = Hand(v),
           StatsTypeOK', Elements', ReaderInTime(w)',
           pc'[w] \in {"load", "store", "read_index", "read_id", "read_slot"} => board'[w] \in Services,
           Counting(w)' => index'[w] \in Indices
    PROVE  StatsInv'
<1>1. BusyOnBoard'
  BY DEF StatsInv, BusyOnBoard, Counting, Hand
<1>2. UNCHANGED <<slotIndex, owner>> /\ \A s : Ahead(s)' <=> Ahead(s)
  BY DEF timerVars, Ahead
<1>3. Rings'
  BY <1>2, RingsStay DEF StatsInv
<1>4. Readers'
  BY <1>2, ReaderStays DEF StatsInv, Readers
<1>. QED BY <1>1, <1>3, <1>4 DEF StatsInv

(* One element of one ring changes. *)
LEMMA OneElement ==
    ASSUME NEW S, NEW I, NEW V, NEW f \in [S -> [I -> V]],
           NEW b \in S, NEW k \in I, NEW v \in V, NEW g, g = [f EXCEPT ![b][k] = v]
    PROVE  /\ g \in [S -> [I -> V]] /\ g[b][k] = v
           /\ \A s \in S, i \in I : s # b \/ i # k => g[s][i] = f[s][i]
<1>1. g = [f EXCEPT ![b] = [f[b] EXCEPT ![k] = v]]
  OBVIOUS
<1>2. f[b] \in [I -> V]
  OBVIOUS
<1>. QED BY <1>1, <1>2

(* Registrations and lookups do not count or read. *)
LEMMA StatsPool ==
    ASSUME StatsInv, LookupInv', NEW w \in Workers,
           \/ \E s \in Services : RegisterService(w, s) \/ FindInCache(w, s) \/ ListService(w, s)
           \/ LinkBoard(w) \/ CacheBoard(w) \/ FindInMap(w) \/ GiveUp(w)
    PROVE  StatsInv'
<1>. LookupTypeOK
  BY DEF StatsInv, LookupInv
<1>1. UNCHANGED <<timerVars, slotVars, readVars, countVars>>
  BY DEF RegisterService, FindInCache, ListService, LinkBoard, CacheBoard, FindInMap, GiveUp
<1>2. /\ pc[w] \notin {"load", "store", "read_index", "read_id", "read_slot"}
      /\ pc'[w] \notin {"load", "store", "read_index", "read_id", "read_slot"}
      /\ \A v \in Workers : v # w => pc'[v] = pc[v] /\ board'[v] = board[v]
  BY DEF LookupTypeOK, RegisterService, FindInCache, ListService, LinkBoard, CacheBoard, FindInMap,
         GiveUp, Found, Goto, Forget, findVars
<1>3. \A v \in Workers : v # w => Hand(v)' = Hand(v)
  BY <1>1, <1>2 DEF Hand, slotVars, readVars
<1>4. StatsTypeOK'
  BY <1>1 DEF StatsInv, StatsTypeOK, timerVars, slotVars, readVars, countVars
<1>5. Elements'
  BY <1>1, <1>2, <1>3, ElementsStay DEF StatsInv, Counting
<1>6. ReaderInTime(w)' /\ ~Counting(w)'
  BY <1>2 DEF ReaderInTime, Reading, Counting
<1>. QED BY <1>1, <1>2, <1>3, <1>4, <1>5, <1>6, WorkerStays

(* A report begins: one more is due, and one more worker counts. *)
LEMMA StatsChoose ==
    ASSUME StatsInv, LookupInv', NEW w \in Workers, ChooseSlot(w)
    PROVE  StatsInv'
<1>0. PICK b \in Services, k \in Indices : b = board[w] /\ k = slotIndex[b]
  BY DEF ChooseSlot, StatsInv, StatsTypeOK
<1>1. pc[w] = "found" /\ pc'[w] = "load"
  BY DEF ChooseSlot, Goto, StatsInv, LookupInv, LookupTypeOK
<1>2. /\ UNCHANGED <<timerVars, findVars, seen, readVars, slots>>
      /\ pc' = [pc EXCEPT ![w] = "load"]
      /\ index' = [index EXCEPT ![w] = k]
      /\ due' = [due EXCEPT ![b][k] = due[b][k] + 1]
      /\ raced' = IF InElement(b, k) = {} THEN raced ELSE [raced EXCEPT ![b] = @ \cup {k}]
  BY <1>0 DEF ChooseSlot, Goto
<1>3. \A v \in Workers : v # w => Hand(v)' = Hand(v)
  BY <1>0, <1>2 DEF Hand, findVars, readVars, StatsInv, StatsTypeOK, LookupInv, LookupTypeOK
<1>31. /\ due' \in [Services -> [Indices -> Nat]] /\ due'[b][k] = due[b][k] + 1
       /\ \A s \in Services, i \in Indices : s # b \/ i # k => due'[s][i] = due[s][i]
  <2>1. due \in [Services -> [Indices -> Nat]]
    BY DEF StatsInv, StatsTypeOK
  <2>2. due[b][k] + 1 \in Nat
    BY <2>1
  <2>. QED BY <1>2, <2>1, <2>2, OneElement
<1>4. StatsTypeOK'
  <2>1. k \in Int
    BY DEF Indices
  <2>2. index' \in [Workers -> Int]
    BY <1>2, <2>1 DEF StatsInv, StatsTypeOK
  <2>3. due' \in [Services -> [Indices -> Nat]]
    BY <1>31
  <2>4. raced' \in [Services -> SUBSET Indices]
    BY <1>0, <1>2 DEF StatsInv, StatsTypeOK
  <2>. QED BY <1>2, <2>2, <2>3, <2>4 DEF StatsInv, StatsTypeOK, timerVars, readVars
<1>5. index'[w] = k /\ board'[w] = b
  BY <1>0, <1>2 DEF StatsInv, StatsTypeOK, findVars
<1>6. ASSUME NEW s \in Services, NEW i \in Indices, s # b \/ i # k
      PROVE  ElementExact(s, i)'
  <2>1. ElementExact(s, i)
    BY DEF StatsInv, Elements
  <2>2. /\ slots'[s][i] = slots[s][i] /\ due'[s][i] = due[s][i]
        /\ i \in raced'[s] <=> i \in raced[s]
    BY <1>2, <1>31, <1>6 DEF StatsInv, StatsTypeOK
  <2>3. w \notin InElement(s, i) /\ ~(w \in InElement(s, i))'
    BY <1>0, <1>1, <1>5, <1>6 DEF InElement, Counting
  <2>. QED BY <1>3, <2>1, <2>2, <2>3, ElementStays
<1>7. ElementExact(b, k)'
  <2>. DEFINE R == InElement(b, k)
  <2>1. ElementExact(b, k) /\ w \notin R
    BY <1>0, <1>1 DEF StatsInv, Elements, InElement, Counting
  <2>2. InElement(b, k)' = R \cup {w}
    <3>1. \A v \in Workers : v \in InElement(b, k)' <=> v \in R \cup {w}
      BY <1>0, <1>1, <1>3, <1>5 DEF InElement, Counting, Hand
    <3>. QED BY <3>1 DEF InElement
  <2>3. /\ IsFiniteSet(R) /\ Cardinality(R) \in Nat
        /\ IsFiniteSet(R \cup {w}) /\ Cardinality(R \cup {w}) = Cardinality(R) + 1
    BY <2>1, FS_AddElement, FS_CardinalityType DEF ElementExact
  <2>4. \A v \in R : pc'[v] = pc[v] /\ seen'[v] = seen[v]
    BY <1>3, <2>1 DEF InElement, Hand
  <2>5. /\ due'[b][k] = due[b][k] + 1 /\ slots'[b][k] = slots[b][k]
        /\ due[b][k] \in Nat /\ slots[b][k] \in Nat
        /\ \A v \in Workers : seen[v] \in Nat
    BY <1>2, <1>31 DEF StatsInv, StatsTypeOK
  <2>6. k \notin raced'[b] => R = {} /\ k \notin raced[b]
    BY <1>0, <1>1, <1>2 DEF StatsInv, StatsTypeOK
  <2>7. R = {} => Cardinality(R) = 0
    BY FS_EmptySet
  <2>8. \A v \in R \cup {w} : pc'[v] = "store" => v \in R /\ pc[v] = "store"
    BY <1>0, <1>1, <2>4
  <2>9. R \subseteq Workers
    BY DEF InElement
  <2>. HIDE DEF R
  <2>10. slots'[b][k] + Cardinality(R) + 1 <= due'[b][k]
    BY <2>1, <2>3, <2>5 DEF ElementExact, R
  <2>11. \A v \in R \cup {w} : pc'[v] = "store" => seen'[v] + Cardinality(R) + 1 <= due'[b][k]
    BY <2>1, <2>3, <2>4, <2>5, <2>8, <2>9 DEF ElementExact, R
  <2>12. k \notin raced'[b] =>
            /\ Cardinality(R) + 1 <= 1
            /\ slots'[b][k] + Cardinality(R) + 1 = due'[b][k]
            /\ \A v \in R \cup {w} : pc'[v] # "store"
    BY <2>1, <2>3, <2>5, <2>6, <2>7, <2>8 DEF ElementExact, R
  <2>13. /\ IsFiniteSet(InElement(b, k)') /\ Cardinality(InElement(b, k)') = Cardinality(R) + 1
         /\ InElement(b, k)' # {}
    BY <2>2, <2>3
  <2>14. \A v \in InElement(b, k)' :
            pc'[v] = "store" => seen'[v] + Cardinality(InElement(b, k)') <= due'[b][k]
    <3>1. seen' \in [Workers -> Nat]
      BY <1>4 DEF StatsTypeOK
    <3>2. \A v \in R \cup {w} : seen'[v] \in Nat
      BY <2>9, <3>1
    <3>. QED BY <2>2, <2>3, <2>5, <2>11, <2>13, <3>2
  <2>15. slots'[b][k] + Cardinality(InElement(b, k)') <= due'[b][k]
    BY <2>3, <2>5, <2>10, <2>13
  <2>16. k \notin raced'[b] =>
            /\ Cardinality(InElement(b, k)') <= 1
            /\ slots'[b][k] + Cardinality(InElement(b, k)') = due'[b][k]
            /\ \A v \in InElement(b, k)' : pc'[v] # "store"
    BY <2>2, <2>3, <2>5, <2>12, <2>13
  <2>. QED BY <2>13, <2>14, <2>15, <2>16 DEF ElementExact
<1>8. Elements'
  BY <1>6, <1>7 DEF Elements
<1>9. ReaderInTime(w)'
  BY <1>0, <1>1 DEF ReaderInTime, Reading
<1>. QED BY <1>0, <1>1, <1>2, <1>3, <1>4, <1>5, <1>8, <1>9, WorkerStays

(* The count is loaded: it has room for all that are under way. *)
LEMMA StatsLoad ==
    ASSUME StatsInv, LookupInv', NEW w \in Workers, LoadCount(w)
    PROVE  StatsInv'
<1>0. PICK b \in Services, k \in Indices : b = board[w] /\ k = index[w]
  BY DEF LoadCount, Goto, StatsInv, BusyOnBoard, Counting
<1>1. pc[w] = "load" /\ pc'[w] = "store"
  BY DEF LoadCount, Goto, StatsInv, LookupInv, LookupTypeOK
<1>2. /\ UNCHANGED <<timerVars, findVars, index, readVars, countVars>>
      /\ pc' = [pc EXCEPT ![w] = "store"]
      /\ seen' = [seen EXCEPT ![w] = slots[b][k]]
  BY <1>0 DEF LoadCount, Goto
<1>3. \A v \in Workers : v # w => Hand(v)' = Hand(v)
  BY <1>0, <1>2 DEF Hand, findVars, readVars, StatsInv, StatsTypeOK, LookupInv, LookupTypeOK
<1>4. slots[b][k] \in Nat /\ seen'[w] = slots[b][k]
  BY <1>0, <1>1, <1>2 DEF StatsInv, StatsTypeOK
<1>5. StatsTypeOK'
  BY <1>2, <1>4 DEF StatsInv, StatsTypeOK, timerVars, readVars, countVars
<1>6. ASSUME NEW s \in Services, NEW i \in Indices
      PROVE  ElementExact(s, i)'
  <2>1. /\ ElementExact(s, i)
        /\ slots'[s][i] = slots[s][i] /\ due'[s][i] = due[s][i]
        /\ i \in raced'[s] <=> i \in raced[s]
    BY <1>0, <1>2 DEF StatsInv, Elements, countVars
  <2>2. InElement(s, i)' = InElement(s, i)
    <3>1. \A v \in Workers : v \in InElement(s, i)' <=> v \in InElement(s, i)
      BY <1>0, <1>1, <1>2, <1>3 DEF InElement, Counting, Hand, findVars
    <3>. QED BY <3>1 DEF InElement
  <2>3. \A v \in InElement(s, i) : v # w => pc'[v] = pc[v] /\ seen'[v] = seen[v]
    BY <1>3 DEF InElement, Hand
  <2>4. w \in InElement(s, i) => s = b /\ i = k
    BY <1>0 DEF InElement
  <2>. QED BY <1>4, <2>1, <2>2, <2>3, <2>4 DEF ElementExact
<1>7. Elements'
  BY <1>6 DEF Elements
<1>8. ReaderInTime(w)'
  BY <1>0, <1>1 DEF ReaderInTime, Reading
<1>. QED BY <1>0, <1>1, <1>2, <1>3, <1>5, <1>7, <1>8, WorkerStays DEF findVars

(* The count is stored: what the others counted meanwhile may be lost, but  *)
(* not this report.                                                         *)
LEMMA StatsStore ==
    ASSUME StatsInv, LookupInv', NEW w \in Workers, StoreCount(w)
    PROVE  StatsInv'
<1>0. PICK b \in Services, k \in Indices : b = board[w] /\ k = index[w]
  BY DEF StoreCount, Goto, StatsInv, BusyOnBoard, Counting
<1>1. pc[w] = "store" /\ pc'[w] = "idle"
  BY DEF StoreCount, Goto, StatsInv, LookupInv, LookupTypeOK
<1>2. /\ UNCHANGED <<timerVars, readVars, due, raced>>
      /\ pc' = [pc EXCEPT ![w] = "idle"]
      /\ slots' = [slots EXCEPT ![b][k] = seen[w] + 1]
      /\ index' = [index EXCEPT ![w] = 0]
      /\ seen' = [seen EXCEPT ![w] = 0]
      /\ Forget(w)
  BY <1>0 DEF StoreCount, Goto
<1>3. \A v \in Workers : v # w => Hand(v)' = Hand(v)
  BY <1>0, <1>2 DEF Hand, Forget, readVars, StatsInv, StatsTypeOK, LookupInv, LookupTypeOK
<1>31. /\ slots' \in [Services -> [Indices -> Nat]] /\ slots'[b][k] = seen[w] + 1
       /\ \A s \in Services, i \in Indices : s # b \/ i # k => slots'[s][i] = slots[s][i]
  <2>1. slots \in [Services -> [Indices -> Nat]] /\ seen \in [Workers -> Nat]
    BY DEF StatsInv, StatsTypeOK
  <2>2. seen[w] + 1 \in Nat
    BY <2>1
  <2>. QED BY <1>2, <2>1, <2>2, OneElement
<1>4. StatsTypeOK'
  <2>1. slots' \in [Services -> [Indices -> Nat]]
    BY <1>31
  <2>2. index' \in [Workers -> Int] /\ seen' \in [Workers -> Nat]
    BY <1>2, 0 \in Int, 0 \in Nat DEF StatsInv, StatsTypeOK
  <2>. QED BY <1>2, <2>1, <2>2 DEF StatsInv, StatsTypeOK, timerVars, readVars
<1>5. ASSUME NEW s \in Services, NEW i \in Indices, s # b \/ i # k
      PROVE  ElementExact(s, i)'
  <2>1. ElementExact(s, i)
    BY DEF StatsInv, Elements
  <2>2. /\ slots'[s][i] = slots[s][i] /\ due'[s][i] = due[s][i]
        /\ i \in raced'[s] <=> i \in raced[s]
    BY <1>2, <1>31, <1>5 DEF StatsInv, StatsTypeOK
  <2>3. w \notin InElement(s, i) /\ ~(w \in InElement(s, i))'
    BY <1>0, <1>1, <1>5 DEF InElement, Counting
  <2>. QED BY <1>3, <2>1, <2>2, <2>3, ElementStays
<1>6. ElementExact(b, k)'
  <2>. DEFINE R == InElement(b, k)
  <2>1. ElementExact(b, k) /\ w \in R
    BY <1>0, <1>1 DEF StatsInv, Elements, InElement, Counting
  <2>2. InElement(b, k)' = R \ {w}
    <3>1. \A v \in Workers : v \in InElement(b, k)' <=> v \in R \ {w}
      BY <1>0, <1>1, <1>3 DEF InElement, Counting, Hand
    <3>. QED BY <3>1 DEF InElement
  <2>3. /\ IsFiniteSet(R) /\ Cardinality(R) \in Nat
        /\ IsFiniteSet(R \ {w}) /\ Cardinality(R \ {w}) = Cardinality(R) - 1
    BY <2>1, FS_RemoveElement, FS_CardinalityType DEF ElementExact
  <2>4. \A v \in R \ {w} : v \in Workers /\ pc'[v] = pc[v] /\ seen'[v] = seen[v]
    BY <1>3 DEF InElement, Hand
  <2>5. /\ due'[b][k] = due[b][k] /\ slots'[b][k] = seen[w] + 1
        /\ due[b][k] \in Nat /\ slots[b][k] \in Nat
        /\ \A v \in Workers : seen[v] \in Nat
    BY <1>2, <1>31 DEF StatsInv, StatsTypeOK
  <2>6. raced' = raced
    BY <1>2
  <2>. HIDE DEF R
  <2>7. slots'[b][k] + Cardinality(R) - 1 <= due'[b][k]
    BY <1>0, <1>1, <2>1, <2>3, <2>5 DEF ElementExact, R
  <2>8. \A v \in R \ {w} : pc'[v] = "store" => seen'[v] + Cardinality(R) - 1 <= due'[b][k]
    BY <2>1, <2>3, <2>4, <2>5 DEF ElementExact, R
  <2>9. k \notin raced[b] =>
            /\ Cardinality(R) - 1 <= 1
            /\ slots'[b][k] + Cardinality(R) - 1 = due'[b][k]
            /\ Cardinality(R \ {w}) = 0
    <3>. SUFFICES ASSUME k \notin raced[b]
                  PROVE  /\ Cardinality(R) - 1 <= 1
                         /\ slots'[b][k] + Cardinality(R) - 1 = due'[b][k]
                         /\ Cardinality(R \ {w}) = 0
      OBVIOUS
    <3>1. Cardinality(R) <= 1 /\ slots[b][k] + Cardinality(R) = due[b][k] /\ seen[w] = slots[b][k]
      BY <1>0, <1>1, <2>1 DEF ElementExact, R
    <3>2. Cardinality(R) # 0
      BY <2>1, <2>3, FS_EmptySet
    <3>. QED BY <2>3, <2>5, <3>1, <3>2
  <2>10. Cardinality(R \ {w}) = 0 => R \ {w} = {}
    BY <2>3, FS_EmptySet
  <2>13. IsFiniteSet(InElement(b, k)') /\ Cardinality(InElement(b, k)') = Cardinality(R) - 1
    BY <2>2, <2>3
  <2>14. \A v \in InElement(b, k)' :
            pc'[v] = "store" => seen'[v] + Cardinality(InElement(b, k)') <= due'[b][k]
    BY <2>2, <2>3, <2>5, <2>8, <2>13
  <2>15. slots'[b][k] + Cardinality(InElement(b, k)') <= due'[b][k] /\ slots'[b][k] > 0
    BY <2>3, <2>5, <2>7, <2>13
  <2>16. k \notin raced'[b] =>
            /\ Cardinality(InElement(b, k)') <= 1
            /\ slots'[b][k] + Cardinality(InElement(b, k)') = due'[b][k]
            /\ InElement(b, k)' = {}
    BY <2>2, <2>3, <2>5, <2>6, <2>9, <2>10, <2>13
  <2>. QED BY <2>13, <2>14, <2>15, <2>16 DEF ElementExact
<1>7. Elements'
  BY <1>5, <1>6 DEF Elements
<1>8. ReaderInTime(w)'
  BY <1>0, <1>1 DEF ReaderInTime, Reading
<1>. QED BY <1>0, <1>1, <1>2, <1>3, <1>4, <1>7, <1>8, WorkerStays DEF Counting
(* LatestStats() starts at the slot before the current one. *)
LEMMA ReadingStarts ==
    ASSUME StatsTypeOK, NEW s \in Services, RingOrder(s), NEW i,
           i = slotIndex[s] - 1 \/ (slotIndex[s] = 0 /\ i = SlotCount - 1)
    PROVE  /\ i \in Int /\ Current(s) \in Int
           /\ i >= 0 => i \in Indices /\ owner[s][i] = Current(s) - 1
<1>1. PICK x \in Indices : x = slotIndex[s]
  BY DEF StatsTypeOK
<1>2. x \in Int /\ i \in Int
  BY <1>1 DEF Indices
<1>3. Current(s) \in Int
  BY DEF StatsTypeOK, Current
<1>4. ASSUME i >= 0 PROVE i \in Indices /\ owner[s][i] = Current(s) - 1
  <2>1. i \in Indices /\ i # After(x) /\ Age(x, i) = 1
    BY <1>1, <1>4 DEF Indices, After, Age
  <2>. QED BY <1>1, <2>1 DEF RingOrder
<1>. QED BY <1>2, <1>3, <1>4

(* The number of slots is set, and the first index if it needs no second    *)
(* look at the current one.                                                 *)
LEMMA StatsTest ==
    ASSUME StatsInv, LookupInv', NEW w \in Workers, NEW period \in Periods, TestIndex(w, period)
    PROVE  StatsInv'
<1>. DEFINE L == GetRealPeriod(period)
<1>0. PICK b \in Services : b = board[w] /\ b \in Measured
  BY DEF TestIndex
<1>1. L \in 1 .. SlotCount - 2
  BY RealPeriod
<1>. HIDE DEF L
<1>2. /\ UNCHANGED <<timerVars, findVars, seen, countVars>>
      /\ left' = [left EXCEPT ![w] = L]
      /\ pc[w] = "found"
  BY DEF TestIndex, Goto, L
<1>3. RingOrder(b) /\ StatsTypeOK /\ LookupTypeOK
  BY DEF StatsInv, Rings, LookupInv
<1>4. PICK i \in Int : i = SlotCount - 1
  OBVIOUS
<1>5. \/ /\ slotIndex[b] = 0
         /\ pc' = [pc EXCEPT ![w] = "read_id"]
         /\ index' = [index EXCEPT ![w] = i]
         /\ since' = [since EXCEPT ![w] = Current(b)]
         /\ want' = [want EXCEPT ![w] = Current(b) - 1]
      \/ /\ pc' = [pc EXCEPT ![w] = "read_index"]
         /\ UNCHANGED <<index, since, want>>
  BY <1>0, <1>4 DEF TestIndex, Goto, StartReading
<1>6. Current(b) \in Int /\ (slotIndex[b] = 0 => i \in Indices /\ owner[b][i] = Current(b) - 1)
  BY <1>3, <1>4, ReadingStarts
<1>7. StatsTypeOK'
  <2>1. left' \in [Workers -> Int]
    BY <1>1, <1>2, <1>3 DEF StatsTypeOK
  <2>2. index' \in [Workers -> Int]
    BY <1>3, <1>5 DEF StatsTypeOK
  <2>3. since' \in [Workers -> Int] /\ want' \in [Workers -> Int]
    <3>1. Current(b) \in Int /\ Current(b) - 1 \in Int
      BY <1>6
    <3>2. since \in [Workers -> Int] /\ want \in [Workers -> Int]
      BY <1>3 DEF StatsTypeOK
    <3>. QED BY <1>5, <3>1, <3>2
  <2>. QED BY <1>2, <1>3, <2>1, <2>2, <2>3 DEF StatsTypeOK, timerVars, countVars
<1>8. \A v \in Workers : v # w => Hand(v)' = Hand(v)
  BY <1>2, <1>3, <1>5 DEF Hand, findVars, StatsTypeOK, LookupTypeOK
<1>9. pc'[w] \in {"read_id", "read_index"} /\ board'[w] = b
  BY <1>0, <1>2, <1>3, <1>5 DEF LookupTypeOK, findVars
<1>10. Elements'
  BY <1>2, <1>8, <1>9, ElementsStay DEF StatsInv, Counting
<1>11. left'[w] = L /\ L <= SlotCount - 2 /\ L \in Int
  BY <1>1, <1>2, <1>3 DEF StatsTypeOK
<1>12. ReaderInTime(w)'
  <2>1. CASE pc'[w] = "read_index"
    BY <1>11, <2>1 DEF ReaderInTime, Reading
  <2>2. CASE pc'[w] # "read_index"
    <3>1. /\ slotIndex[b] = 0 /\ index'[w] = i /\ since'[w] = Current(b)
          /\ want'[w] = Current(b) - 1 /\ pc'[w] = "read_id"
      BY <1>3, <1>5, <2>2 DEF StatsTypeOK, LookupTypeOK
    <3>2. Current(b)' = Current(b) /\ owner' = owner
      BY <1>2 DEF timerVars, Current
    <3>. QED BY <1>6, <1>9, <1>11, <3>1, <3>2 DEF ReaderInTime, Reading
  <2>. QED BY <2>1, <2>2
<1>. QED BY <1>2, <1>7, <1>8, <1>9, <1>10, <1>12, WorkerStays DEF Counting

(* The second look, which may find another slot than the first. *)
LEMMA StatsReadIndex ==
    ASSUME StatsInv, LookupInv', NEW w \in Workers, ReadIndex(w)
    PROVE  StatsInv'
<1>0. PICK b \in Services : b = board[w]
  BY DEF ReadIndex, Goto, StatsInv, BusyOnBoard
<1>1. RingOrder(b) /\ StatsTypeOK /\ LookupTypeOK /\ ReaderInTime(w)
  BY DEF StatsInv, Rings, LookupInv, Readers
<1>2. PICK i \in Int : i = slotIndex[b] - 1
  BY <1>1 DEF StatsTypeOK, Indices
<1>3. /\ UNCHANGED <<timerVars, findVars, seen, left, id, countVars>>
      /\ pc[w] = "read_index"
      /\ pc' = [pc EXCEPT ![w] = "read_id"]
      /\ index' = [index EXCEPT ![w] = i]
      /\ since' = [since EXCEPT ![w] = Current(b)]
      /\ want' = [want EXCEPT ![w] = Current(b) - 1]
  BY <1>0, <1>2 DEF ReadIndex, Goto, StartReading
<1>4. Current(b) \in Int /\ (i >= 0 => i \in Indices /\ owner[b][i] = Current(b) - 1)
  BY <1>1, <1>2, ReadingStarts
<1>5. StatsTypeOK'
  <2>1. Current(b) \in Int /\ Current(b) - 1 \in Int
    BY <1>4
  <2>2. /\ index' \in [Workers -> Int] /\ since' \in [Workers -> Int]
        /\ want' \in [Workers -> Int]
    BY <1>1, <1>3, <2>1 DEF StatsTypeOK
  <2>. QED BY <1>1, <1>3, <2>2 DEF StatsTypeOK, timerVars, countVars
<1>6. \A v \in Workers : v # w => Hand(v)' = Hand(v)
  BY <1>1, <1>3 DEF Hand, findVars, StatsTypeOK, LookupTypeOK
<1>7. pc'[w] = "read_id" /\ board'[w] = b
  BY <1>0, <1>1, <1>3 DEF LookupTypeOK, findVars
<1>8. Elements'
  BY <1>3, <1>6, <1>7, ElementsStay DEF StatsInv, Counting
<1>9. ReaderInTime(w)'
  <2>1. index'[w] = i /\ since'[w] = Current(b) /\ want'[w] = Current(b) - 1
    BY <1>1, <1>3 DEF StatsTypeOK
  <2>2. Current(b)' = Current(b) /\ owner' = owner
    BY <1>3 DEF timerVars, Current
  <2>3. left'[w] = left[w] /\ left[w] \in Int /\ left[w] <= SlotCount - 2
    BY <1>1, <1>3 DEF StatsTypeOK, ReaderInTime
  <2>. QED BY <1>4, <1>7, <2>1, <2>2, <2>3 DEF ReaderInTime, Reading
<1>. QED BY <1>3, <1>5, <1>6, <1>7, <1>8, <1>9, WorkerStays DEF Counting

(* The number of the slots so far is loaded. *)
LEMMA StatsReadId ==
    ASSUME StatsInv, LookupInv', NEW w \in Workers, ReadId(w)
    PROVE  StatsInv'
<1>1. StatsTypeOK /\ LookupTypeOK /\ ReaderInTime(w)
  BY DEF StatsInv, LookupInv, Readers
<1>2. /\ UNCHANGED <<timerVars, findVars, slotVars, left, want, since, countVars>>
      /\ pc[w] = "read_id"
      /\ pc' = [pc EXCEPT ![w] = "read_slot"]
  BY DEF ReadId, Goto
<1>3. pc'[w] = "read_slot" /\ board[w] \in Services
  BY <1>1, <1>2 DEF LookupTypeOK, StatsInv, BusyOnBoard
<1>4. StatsTypeOK'
  BY <1>1, <1>2 DEF StatsTypeOK, timerVars, slotVars, countVars
<1>5. \A v \in Workers : v # w => Hand(v)' = Hand(v)
  BY <1>1, <1>2 DEF Hand, findVars, slotVars, LookupTypeOK
<1>6. Elements'
  BY <1>2, <1>3, <1>5, ElementsStay DEF StatsInv, Counting
<1>7. ReaderInTime(w)'
  BY <1>1, <1>2, <1>3 DEF ReaderInTime, Reading, Current, Ahead, timerVars, findVars, slotVars
<1>. QED BY <1>2, <1>3, <1>4, <1>5, <1>6, <1>7, WorkerStays DEF Counting, findVars

(* The slot before one that was cleared in time was cleared just before it. *)
LEMMA OneSlotBack ==
    ASSUME StatsTypeOK, NEW s \in Services, RingOrder(s), NEW i \in Indices,
           NEW from \in Int, Current(s) \in {from, from + 1}, Ahead(s) => Current(s) = from,
           owner[s][i] > from - SlotCount + 2, owner[s][i] < from
    PROVE  owner[s][Before(i)] = owner[s][i] - 1
<1>1. PICK x \in Indices : x = slotIndex[s]
  BY DEF StatsTypeOK
<1>2. PICK c \in Int : c = Current(s)
  BY DEF StatsTypeOK, Current
<1>3. Before(i) \in Indices
  BY Neighbours
<1>4. owner[s][i] = IF Ahead(s) /\ i = After(x) THEN c + 1 ELSE c - Age(x, i)
  BY <1>1, <1>2 DEF RingOrder
<1>5. owner[s][Before(i)] = IF Ahead(s) /\ Before(i) = After(x) THEN c + 1 ELSE c - Age(x, Before(i))
  BY <1>1, <1>2, <1>3 DEF RingOrder
<1>6. ~(Ahead(s) /\ i = After(x)) /\ owner[s][i] = c - Age(x, i)
  BY <1>2, <1>4
<1>7. Age(x, i) <= SlotCount - 2
  BY <1>1, <1>2, <1>6 DEF Age, Indices
<1>8. Age(x, Before(i)) = Age(x, i) + 1
  BY <1>1, <1>7 DEF Age, Before, Indices
<1>9. ~(Ahead(s) /\ Before(i) = After(x))
  BY <1>1, <1>2, <1>6, <1>7 DEF Age, Before, After, Indices
<1>. QED BY <1>2, <1>5, <1>6, <1>8, <1>9 DEF Age, Indices
(* A slot is read: what the reader expects of the next one is there. *)
LEMMA StatsReadSlot ==
    ASSUME StatsInv, LookupInv', NEW w \in Workers, ReadSlot(w)
    PROVE  StatsInv'
<1>0. PICK b \in Services : b = board[w]
  BY DEF ReadSlot, StatsInv, BusyOnBoard
<1>1. RingOrder(b) /\ StatsTypeOK /\ LookupTypeOK /\ ReaderInTime(w)
  BY DEF StatsInv, Rings, LookupInv, Readers
<1>2. PICK i \in Int, l \in Int, e \in Int, f \in Int :
         i = index[w] /\ l = left[w] /\ e = want[w] /\ f = since[w]
  BY <1>1 DEF StatsTypeOK
<1>3. Before(i) \in Int /\ (i < 0 => Before(i) < 0)
  BY DEF Before
<1>4. /\ UNCHANGED <<timerVars, pc, findVars, seen, since, countVars>>
      /\ pc[w] = "read_slot" /\ l > 0
      /\ left' = [left EXCEPT ![w] = l - 1]
      /\ index' = [index EXCEPT ![w] = Before(i)]
      /\ want' = [want EXCEPT ![w] = e - 1]
  BY <1>2 DEF ReadSlot, MoreSlots
<1>5. StatsTypeOK'
  <2>1. left' \in [Workers -> Int]
    BY <1>1, <1>4 DEF StatsTypeOK
  <2>2. index' \in [Workers -> Int]
    BY <1>1, <1>3, <1>4 DEF StatsTypeOK
  <2>3. want' \in [Workers -> Int]
    BY <1>1, <1>4 DEF StatsTypeOK
  <2>. QED BY <1>1, <1>4, <2>1, <2>2, <2>3 DEF StatsTypeOK, timerVars, countVars
<1>6. \A v \in Workers : v # w => Hand(v)' = Hand(v)
  BY <1>1, <1>4 DEF Hand, findVars, StatsTypeOK
<1>7. Elements'
  BY <1>4, <1>6, ElementsStay DEF StatsInv, Counting
<1>8. /\ left'[w] = l - 1 /\ index'[w] = Before(i) /\ want'[w] = e - 1
      /\ since'[w] = f /\ board'[w] = b /\ pc'[w] = "read_slot"
  BY <1>0, <1>1, <1>2, <1>4 DEF StatsTypeOK, findVars
<1>9. /\ Current(b) \in {f, f + 1}
      /\ Ahead(b) => Current(b) = f
      /\ e <= f - 1
      /\ l + (f - 1 - e) <= SlotCount - 2
      /\ i >= 0 => i \in Indices /\ owner[b][i] = e
  BY <1>0, <1>1, <1>2, <1>4 DEF ReaderInTime, Reading
<1>10. ASSUME l - 1 > 0, Before(i) >= 0
       PROVE  Before(i) \in Indices /\ owner[b][Before(i)] = e - 1
  <2>1. i \in Indices /\ owner[b][i] = e
    BY <1>3, <1>9, <1>10
  <2>2. e > f - SlotCount + 2 /\ e < f
    BY <1>9, <1>10
  <2>. QED BY <1>1, <1>9, <2>1, <2>2, OneSlotBack, Neighbours
<1>11. Current(b)' = Current(b) /\ owner' = owner /\ (Ahead(b)' <=> Ahead(b))
  BY <1>4 DEF timerVars, Current, Ahead
<1>12. ReaderInTime(w)'
  <2>1. e - 1 <= f - 1 /\ l - 1 + (f - 1 - (e - 1)) <= SlotCount - 2
    BY <1>9
  <2>. QED BY <1>8, <1>9, <1>10, <1>11, <2>1 DEF ReaderInTime, Reading
<1>. QED BY <1>4, <1>5, <1>6, <1>7, <1>8, <1>12, WorkerStays DEF Counting

(* The reader has read its slots, or all there were. *)
LEMMA StatsEnd ==
    ASSUME StatsInv, LookupInv', NEW w \in Workers, EndReading(w)
    PROVE  StatsInv'
<1>1. StatsTypeOK /\ LookupTypeOK
  BY DEF StatsInv, LookupInv
<1>2. /\ UNCHANGED <<timerVars, seen, countVars>>
      /\ pc[w] = "read_slot"
      /\ pc' = [pc EXCEPT ![w] = "idle"]
      /\ index' = [index EXCEPT ![w] = 0]
      /\ left' = [left EXCEPT ![w] = 0]
      /\ want' = [want EXCEPT ![w] = 0]
      /\ since' = [since EXCEPT ![w] = 0]
      /\ Forget(w)
  BY DEF EndReading, Goto
<1>3. pc'[w] = "idle"
  BY <1>1, <1>2 DEF LookupTypeOK
<1>4. StatsTypeOK'
  <2>0. \A f \in [Workers -> Int] : [f EXCEPT ![w] = 0] \in [Workers -> Int]
    OBVIOUS
  <2>1. index' \in [Workers -> Int] /\ left' \in [Workers -> Int]
    BY <1>1, <1>2, <2>0 DEF StatsTypeOK
  <2>2. want' \in [Workers -> Int] /\ since' \in [Workers -> Int]
    BY <1>1, <1>2, <2>0 DEF StatsTypeOK
  <2>. QED BY <1>1, <1>2, <2>1, <2>2 DEF StatsTypeOK, timerVars, countVars
<1>5. \A v \in Workers : v # w => Hand(v)' = Hand(v)
  BY <1>1, <1>2 DEF Hand, Forget, StatsTypeOK, LookupTypeOK
<1>6. Elements'
  BY <1>2, <1>3, <1>5, ElementsStay DEF StatsInv, Counting
<1>7. ReaderInTime(w)'
  BY <1>3 DEF ReaderInTime, Reading
<1>. QED BY <1>2, <1>3, <1>4, <1>5, <1>6, <1>7, WorkerStays DEF Counting

(* The maintenance thread leaves the hands of the workers alone. *)
LEMMA TimerStays ==
    ASSUME StatsInv, LookupInv', UNCHANGED <<pc, findVars, slotVars, readVars>>,
           StatsTypeOK', Elements', Rings', Readers'
    PROVE  StatsInv'
BY DEF StatsInv, BusyOnBoard, Counting, findVars, slotVars

(* Steps of NextSlot() between two boards. *)
LEMMA StatsTimer ==
    ASSUME StatsInv, LookupInv', StartNextSlot \/ StoreId
    PROVE  StatsInv'
<1>1. StatsTypeOK /\ chain \in Seq(Services)
  BY DEF StatsInv, LookupInv, LookupTypeOK
<1>2. UNCHANGED <<slotIndex, owner, pc, findVars, slotVars, readVars, countVars>>
  BY DEF StartNextSlot, StoreId
<1>3. tpc # "index" /\ tpc' # "index" /\ tpc' \in {"idle", "clear"}
  BY DEF StartNextSlot, StoreId
<1>4. rest' \in Seq(Services) /\ (tpc' # "idle" => rest' # <<>>)
  <2>1. CASE StartNextSlot
    BY <1>1, <2>1 DEF StartNextSlot
  <2>2. CASE StoreId
    <3>1. rest \in Seq(Services) /\ rest # <<>> /\ rest' = Tail(rest)
      BY <1>1, <2>2 DEF StoreId, StatsTypeOK
    <3>2. Len(Tail(rest)) = Len(rest) - 1 /\ Tail(rest) \in Seq(Services) /\ Len(rest) \in Nat
      BY <3>1
    <3>3. Len(rest) # 1 => Tail(rest) # <<>>
      <4>1. Len(rest) # 0
        BY <3>1
      <4>2. Len(Tail(rest)) # 0 => Tail(rest) # <<>>
        <5>1. Len(<<>>) = 0
          OBVIOUS
        <5>. QED BY <5>1, Zenon
      <4>. QED BY <3>2, <4>1, <4>2
    <3>. QED BY <2>2, <3>1, <3>2, <3>3 DEF StoreId
  <2>. QED BY <2>1, <2>2
<1>5. StatsTypeOK'
  BY <1>1, <1>2, <1>3, <1>4 DEF StatsTypeOK, slotVars, readVars, countVars
<1>6. \A v \in Workers : Hand(v)' = Hand(v)
  BY <1>2 DEF Hand, findVars, slotVars, readVars
<1>7. Elements'
  BY <1>2, <1>6, ElementsStay DEF StatsInv
<1>8. Rings' /\ Readers'
  BY <1>2, <1>3, <1>6, RingsStay, ReaderStays DEF StatsInv, Readers, Ahead
<1>. QED BY <1>2, <1>5, <1>7, <1>8, TimerStays
(* The next slot is cleared: nobody counts in it, and it is too old for     *)
(* anybody who reads.                                                       *)
LEMMA StatsClear ==
    ASSUME StatsInv, LookupInv', ClearNext
    PROVE  StatsInv'
<1>1. StatsTypeOK /\ Elements /\ Rings /\ Readers /\ BusyOnBoard
  BY DEF StatsInv
<1>2. PICK b \in Services, x \in Indices : b = Head(rest) /\ x = slotIndex[b]
  <2>1. rest \in Seq(Services) /\ rest # <<>>
    BY <1>1 DEF ClearNext, StatsTypeOK
  <2>2. Head(rest) \in Services
    BY <2>1
  <2>. QED BY <1>1, <2>2 DEF StatsTypeOK
<1>3. PICK k \in Indices : k = After(x) /\ k # x
  BY Neighbours
<1>4. PICK c \in Int : c = Current(b)
  BY <1>1, CurrentType
<1>5. /\ UNCHANGED <<slotIndex, slotId, rest, pc, findVars, slotVars, readVars>>
      /\ tpc = "clear" /\ tpc' = "index"
      /\ NobodyCounts(b, k) /\ NobodyLags(b)
      /\ owner' = [owner EXCEPT ![b][k] = c + 1]
      /\ slots' = [slots EXCEPT ![b][k] = 0]
      /\ due' = [due EXCEPT ![b][k] = 0]
      /\ raced' = [raced EXCEPT ![b] = @ \ {k}]
  BY <1>2, <1>3, <1>4 DEF ClearNext, ClearSlot
<1>6. /\ owner' \in [Services -> [Indices -> Int]] /\ owner'[b][k] = c + 1
      /\ \A s \in Services, i \in Indices : s # b \/ i # k => owner'[s][i] = owner[s][i]
  <2>1. owner \in [Services -> [Indices -> Int]] /\ c + 1 \in Int
    BY <1>1 DEF StatsTypeOK
  <2>. QED BY <1>5, <2>1, OneElement
<1>7. /\ slots' \in [Services -> [Indices -> Nat]] /\ slots'[b][k] = 0
      /\ \A s \in Services, i \in Indices : s # b \/ i # k => slots'[s][i] = slots[s][i]
  <2>1. slots \in [Services -> [Indices -> Nat]] /\ 0 \in Nat
    BY <1>1 DEF StatsTypeOK
  <2>. QED BY <1>5, <2>1, OneElement
<1>8. /\ due' \in [Services -> [Indices -> Nat]] /\ due'[b][k] = 0
      /\ \A s \in Services, i \in Indices : s # b \/ i # k => due'[s][i] = due[s][i]
  <2>1. due \in [Services -> [Indices -> Nat]] /\ 0 \in Nat
    BY <1>1 DEF StatsTypeOK
  <2>. QED BY <1>5, <2>1, OneElement
<1>9. /\ raced' \in [Services -> SUBSET Indices]
      /\ \A s \in Services, i \in Indices : s # b \/ i # k => (i \in raced'[s] <=> i \in raced[s])
  BY <1>1, <1>5 DEF StatsTypeOK
<1>10. StatsTypeOK'
  BY <1>1, <1>5, <1>6, <1>7, <1>8, <1>9 DEF StatsTypeOK, slotVars, readVars
<1>11. \A v \in Workers : Hand(v)' = Hand(v)
  BY <1>5 DEF Hand, findVars, slotVars, readVars
<1>12. Elements'
  <2>1. ASSUME NEW s \in Services, NEW i \in Indices, s # b \/ i # k
        PROVE  ElementExact(s, i)'
    <3>1. ElementExact(s, i)
      BY <1>1 DEF Elements
    <3>. QED BY <1>7, <1>8, <1>9, <1>11, <2>1, <3>1, ElementStays
  <2>2. ElementExact(b, k)'
    <3>1. InElement(b, k)' = {}
      BY <1>5 DEF NobodyCounts, InElement, Counting, findVars, slotVars
    <3>2. IsFiniteSet({}) /\ Cardinality({}) = 0
      BY FS_EmptySet
    <3>. QED BY <1>7, <1>8, <3>1, <3>2 DEF ElementExact
  <2>. QED BY <2>1, <2>2 DEF Elements
<1>13. \A s \in Services : Current(s)' = Current(s)
  <2>1. \A s \in Services : slotIndex[s] \in Indices /\ (s = b => slotIndex[s] # k)
    BY <1>1, <1>2, <1>3, CurrentType
  <2>2. \A s \in Services : owner'[s][slotIndex[s]] = owner[s][slotIndex[s]]
    BY <1>6, <2>1
  <2>. QED BY <1>5, <2>2 DEF Current
<1>14. \A s : ~Ahead(s) /\ (Ahead(s)' <=> s = b)
  BY <1>2, <1>5 DEF Ahead
<1>15. Rings'
  <2>. SUFFICES ASSUME NEW s \in Services, NEW i \in Indices
                PROVE  owner'[s][i] = IF s = b /\ i = After(slotIndex[s]) THEN Current(s) + 1
                                      ELSE Current(s) - Age(slotIndex[s], i)
    BY <1>5, <1>13, <1>14 DEF Rings, RingOrder
  <2>1. owner[s][i] = Current(s) - Age(slotIndex[s], i)
    BY <1>1, <1>14 DEF Rings, RingOrder
  <2>. QED BY <1>2, <1>3, <1>4, <1>6, <2>1
<1>16. ASSUME NEW w \in Workers PROVE ReaderInTime(w)'
  <2>1. ReaderInTime(w)
    BY <1>1 DEF Readers
  <2>2. CASE ~Reading(w)
    BY <1>5, <2>1, <2>2 DEF ReaderInTime, Reading, readVars
  <2>3. CASE Reading(w)
    <3>1. PICK s \in Services : s = board[w]
      BY <1>1, <2>3 DEF BusyOnBoard, Reading
    <3>2. PICK i \in Int, l \in Int, e \in Int, f \in Int :
             i = index[w] /\ l = left[w] /\ e = want[w] /\ f = since[w]
      BY <1>1 DEF StatsTypeOK
    <3>3. /\ Current(s) \in {f, f + 1}
          /\ e <= f - 1
          /\ l + (f - 1 - e) <= SlotCount - 2
          /\ l > 0 /\ i >= 0 => i \in Indices /\ owner[s][i] = e
      BY <2>1, <2>3, <3>1, <3>2 DEF ReaderInTime
    <3>4. s = b => Current(s) = f
      BY <1>5, <2>3, <3>1, <3>2 DEF NobodyLags, Reading
    <3>5. ASSUME l > 0, i >= 0 PROVE owner'[s][i] = e
      <4>1. i \in Indices /\ owner[s][i] = e
        BY <3>3, <3>5
      <4>2. ASSUME s = b, i = k PROVE FALSE
        <5>1. owner[b][k] = c - Age(x, k)
          BY <1>1, <1>2, <1>4, <1>14 DEF Rings, RingOrder
        <5>2. Age(x, k) = SlotCount - 1
          BY <1>3 DEF Age, After, Indices
        <5>. QED BY <1>4, <3>3, <3>4, <3>5, <4>1, <4>2, <5>1, <5>2
      <4>. QED BY <1>6, <4>1, <4>2
    <3>6. /\ pc'[w] = pc[w] /\ board'[w] = s /\ index'[w] = i /\ left'[w] = l
          /\ want'[w] = e /\ since'[w] = f
      BY <1>11, <3>1, <3>2 DEF Hand
    <3>. QED BY <1>13, <1>14, <2>3, <3>3, <3>4, <3>5, <3>6 DEF ReaderInTime, Reading
  <2>. QED BY <2>2, <2>3
<1>. QED BY <1>5, <1>10, <1>12, <1>15, <1>16, TimerStays DEF Readers

(* The board moves to the slot it has cleared: everything in the ring is    *)
(* one move older.                                                          *)
LEMMA StatsMove ==
    ASSUME StatsInv, LookupInv', StoreIndex
    PROVE  StatsInv'
<1>1. StatsTypeOK /\ Elements /\ Rings /\ Readers /\ BusyOnBoard
  BY DEF StatsInv
<1>2. PICK b \in Services, x \in Indices : b = Head(rest) /\ x = slotIndex[b]
  <2>1. rest \in Seq(Services) /\ rest # <<>>
    BY <1>1 DEF StoreIndex, StatsTypeOK
  <2>2. Head(rest) \in Services
    BY <2>1
  <2>. QED BY <1>1, <2>2 DEF StatsTypeOK
<1>3. PICK k \in Indices : k = After(x) /\ k # x
  BY Neighbours
<1>4. PICK c \in Int : c = Current(b)
  BY <1>1, CurrentType
<1>5. /\ UNCHANGED <<slotId, rest, owner, pc, findVars, slotVars, readVars, countVars>>
      /\ tpc = "index" /\ tpc' = "id"
      /\ slotIndex' = [slotIndex EXCEPT ![b] = k]
  BY <1>2, <1>3 DEF StoreIndex
<1>6. /\ slotIndex' \in [Services -> Indices] /\ slotIndex'[b] = k
      /\ \A s \in Services : s # b => slotIndex'[s] = slotIndex[s]
  BY <1>1, <1>5 DEF StatsTypeOK
<1>7. StatsTypeOK'
  BY <1>1, <1>5, <1>6 DEF StatsTypeOK, slotVars, readVars, countVars
<1>8. \A v \in Workers : Hand(v)' = Hand(v)
  BY <1>5 DEF Hand, findVars, slotVars, readVars
<1>9. Elements'
  BY <1>1, <1>5, <1>8, ElementsStay
<1>10. \A s : ~Ahead(s)' /\ (Ahead(s) <=> s = b)
  BY <1>2, <1>5 DEF Ahead
<1>11. /\ owner[b][k] = c + 1
       /\ \A i \in Indices : i # k => owner[b][i] = c - Age(x, i)
  BY <1>1, <1>2, <1>3, <1>4, <1>10 DEF Rings, RingOrder
<1>12. /\ Current(b)' = c + 1
       /\ \A s \in Services : s # b => Current(s)' = Current(s)
  BY <1>5, <1>6, <1>11 DEF Current
<1>13. Rings'
  <2>1. ASSUME NEW s \in Services, s # b PROVE RingOrder(s)'
    BY <1>1, <1>5, <1>6, <1>10, <1>12, <2>1 DEF Rings, RingOrder
  <2>2. ASSUME NEW i \in Indices PROVE owner[b][i] = (c + 1) - Age(k, i)
    <3>1. CASE i = k
      BY <1>11, <3>1 DEF Age, Indices
    <3>2. CASE i # k
      <4>1. Age(k, i) = Age(x, i) + 1
        BY <1>3, <3>2 DEF Age, After, Indices
      <4>2. Age(x, i) \in Int
        BY DEF Age, Indices
      <4>. QED BY <1>11, <3>2, <4>1, <4>2
    <3>. QED BY <3>1, <3>2
  <2>3. RingOrder(b)'
    <3>1. \A i \in Indices : owner'[b][i] = Current(b)' - Age(slotIndex'[b], i)
      BY <1>5, <1>6, <1>12, <2>2
    <3>. QED BY <1>10, <3>1 DEF RingOrder
  <2>. QED BY <2>1, <2>3 DEF Rings
<1>14. ASSUME NEW w \in Workers PROVE ReaderInTime(w)'
  <2>1. ReaderInTime(w) /\ Hand(w)' = Hand(w)
    BY <1>1, <1>8 DEF Readers
  <2>2. CASE ~Reading(w)
    BY <2>1, <2>2 DEF ReaderInTime, Reading, Hand
  <2>3. CASE Reading(w)
    <3>1. PICK s \in Services : s = board[w]
      BY <1>1, <2>3 DEF BusyOnBoard, Reading
    <3>2. Current(s)' \in {since[w], since[w] + 1}
      <4>1. CASE s = b
        BY <1>4, <1>10, <1>12, <2>1, <2>3, <3>1, <4>1 DEF ReaderInTime
      <4>2. CASE s # b
        BY <1>12, <2>1, <2>3, <3>1, <4>2 DEF ReaderInTime
      <4>. QED BY <4>1, <4>2
    <3>3. /\ pc'[w] = pc[w] /\ board'[w] = s /\ index'[w] = index[w] /\ left'[w] = left[w]
          /\ want'[w] = want[w] /\ since'[w] = since[w] /\ owner' = owner
      BY <1>5, <2>1, <3>1 DEF Hand
    <3>. QED BY <1>10, <2>1, <2>3, <3>1, <3>2, <3>3 DEF ReaderInTime, Reading
  <2>. QED BY <2>2, <2>3
<1>. QED BY <1>5, <1>7, <1>9, <1>13, <1>14, TimerStays DEF Readers

(* Every step keeps the invariant. *)
LEMMA StatsStep == StatsInv /\ [Next]_vars => StatsInv'
<1>. SUFFICES ASSUME StatsInv, [Next]_vars PROVE StatsInv'
  OBVIOUS
<1>1. LookupInv'
  BY LookupStep DEF StatsInv
<1>2. ASSUME NEW w \in Workers,
             \/ \E s \in Services : RegisterService(w, s) \/ FindInCache(w, s) \/ ListService(w, s)
             \/ LinkBoard(w) \/ CacheBoard(w) \/ FindInMap(w) \/ GiveUp(w)
      PROVE  StatsInv'
  BY <1>1, <1>2, StatsPool
<1>3. ASSUME NEW w \in Workers, ChooseSlot(w) \/ LoadCount(w) \/ StoreCount(w)
      PROVE  StatsInv'
  BY <1>1, <1>3, StatsChoose, StatsLoad, StatsStore
<1>4. ASSUME NEW w \in Workers,
             \/ \E period \in Periods : TestIndex(w, period)
             \/ ReadIndex(w) \/ ReadId(w) \/ ReadSlot(w) \/ EndReading(w)
      PROVE  StatsInv'
  BY <1>1, <1>4, StatsTest, StatsReadIndex, StatsReadId, StatsReadSlot, StatsEnd
<1>5. CASE StartNextSlot \/ ClearNext \/ StoreIndex \/ StoreId
  BY <1>1, <1>5, StatsTimer, StatsClear, StatsMove
<1>6. CASE UNCHANGED vars
  <2>1. UNCHANGED <<timerVars, pc, findVars, slotVars, readVars, countVars>>
    BY <1>6 DEF vars
  <2>2. \A v \in Workers : Hand(v)' = Hand(v)
    BY <2>1 DEF Hand, findVars, slotVars, readVars
  <2>3. StatsTypeOK'
    BY <2>1 DEF StatsInv, StatsTypeOK, timerVars, slotVars, readVars, countVars
  <2>4. Elements' /\ Rings' /\ Readers'
    BY <2>1, <2>2, ElementsStay, RingsStay, ReaderStays DEF StatsInv, Readers, Ahead, timerVars
  <2>. QED BY <1>1, <2>1, <2>3, <2>4, TimerStays
<1>. QED BY <1>2, <1>3, <1>4, <1>5, <1>6 DEF Next

(* The statistics are what was reported: see StatsExact. *)
THEOREM StatsCorrect == Spec => []StatsExact
<1>1. StatsInv => StatsExact
  <2>. SUFFICES ASSUME StatsInv PROVE StatsExact
    OBVIOUS
  <2>1. ASSUME NEW s \in Services, NEW i \in Indices PROVE Counted(s, i)
    <3>1. ElementExact(s, i) /\ slots[s][i] \in Nat /\ due[s][i] \in Nat
      BY DEF StatsInv, Elements, StatsTypeOK
    <3>2. Cardinality({}) = 0
      BY FS_EmptySet
    <3>. QED BY <3>1, <3>2 DEF ElementExact, Counted
  <2>2. ASSUME NEW w \in Workers, pc[w] = "read_slot", MoreSlots(w), index[w] >= 0
        PROVE  owner[board[w]][index[w]] = want[w]
    BY <2>2 DEF StatsInv, Readers, ReaderInTime, Reading, MoreSlots
  <2>. QED BY <2>1, <2>2 DEF StatsExact
<1>. QED BY <1>1, StatsInit, StatsStep, PTL DEF Spec
=============================================================================
