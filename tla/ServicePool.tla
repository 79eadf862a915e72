---------------------------- MODULE ServicePool ----------------------------
(***************************************************************************)
(* service_pool.h: the services of a server and their statistics.          *)
(*                                                                         *)
(* RegisterService() runs under _service_map_lock, FindService() looks     *)
(* into the cache before it takes that lock, and the maintenance thread    *)
(* and the pages that list the services follow _head without it.           *)
(*                                                                         *)
(* Each board keeps a ring of statistics slots that has no lock at all:    *)
(* workers that end a call count it, the maintenance thread moves on to    *)
(* the next slot once a second, and workers that answer a request for      *)
(* statistics sum up the slots before the current one.  A service has one  *)
(* method here and a slot one counter; the other fields are written in     *)
(* the same way by the same steps.                                         *)
(***************************************************************************)
EXTENDS Integers, Sequences, FiniteSetsExt, Functions

CONSTANTS
    Services,     \* service names; a board is identified with its name
    NoService,    \* NULL
    Workers,      \* threads that register, serve requests and read statistics
    NoWorker,
    CacheIndex,   \* CacheIndex(), the hash of a name
    SlotCount,    \* STAT_SLOT_COUNT
    Periods,      \* the periods asked for
    Measured,     \* bound: services whose calls are reported and read
    MaxSlots,     \* bound: how often each board moves to its next slot
    MaxReports    \* bound: calls reported

ASSUME NameAssumption == NoService \notin Services /\ NoWorker \notin Workers
ASSUME CacheAssumption == CacheIndex \in [Services -> Nat]
ASSUME SlotAssumption ==
    /\ SlotCount \in Nat /\ SlotCount > 2
    /\ Periods \subseteq Int /\ Measured \subseteq Services
    /\ MaxSlots \in Nat /\ MaxReports \in Nat

Indices == 0 .. SlotCount - 1
Buckets == Range(CacheIndex)

VARIABLES
    services,   \* names in _service_map
    lock,       \* holder of _service_map_lock
    chain,      \* the boards linked from _head
    cache,      \* _cache
    published,  \* services whose RegisterService() has returned (history)
    slotIndex,  \* _slot_index of each board
    slotId,     \* _slot_id
    slots,      \* succeed_count in each of _stat_slots
    rest,       \* the boards that NextSlot() of the pool has yet to move
    tpc,        \* step of NextSlot() of the board at the head of rest
    pc,         \* step of each worker
    asked,      \* the name it registers, looks up or has found a board for
    board,      \* the board it has found
    index,      \* slot it counts in or reads
    seen,       \* the count it has loaded
    left,       \* slot_count in LatestStats()
    id,         \* slot_id in LatestStats()
    missing,    \* its lookup began when the service was published, and has
                \* not found it (history)
    want,       \* which slot the reader should see at index (history)
    since,      \* the slot the board was in when the reader began (history)
    owner,      \* which slot each element of the ring was cleared for (history)
    due,        \* reports begun in each element since (history)
    reports,    \* calls reported so far (history)
    raced       \* elements in which reports have overlapped (history)

poolVars == <<services, lock, chain, cache, published>>
timerVars == <<slotIndex, slotId, rest, tpc, owner>>
findVars == <<asked, board, missing>>
slotVars == <<index, seen>>
readVars == <<left, id, want, since>>
countVars == <<slots, due, raced, reports>>
vars == <<poolVars, timerVars, pc, findVars, slotVars, readVars, countVars>>

Init ==
    /\ services = {} /\ lock = NoWorker /\ chain = <<>> /\ published = {}
    /\ cache = [i \in Buckets |-> NoService]
    /\ slotIndex = [s \in Services |-> 0]
    /\ slotId = [s \in Services |-> 0]
    /\ slots = [s \in Services |-> [i \in Indices |-> 0]]
    /\ rest = <<>> /\ tpc = "idle"
    /\ pc = [w \in Workers |-> "idle"]
    /\ asked = [w \in Workers |-> NoService]
    /\ board = [w \in Workers |-> NoService]
    /\ missing = [w \in Workers |-> FALSE]
    /\ index = [w \in Workers |-> 0]
    /\ seen = [w \in Workers |-> 0]
    /\ left = [w \in Workers |-> 0]
    /\ id = [w \in Workers |-> 0]
    /\ want = [w \in Workers |-> 0]
    /\ since = [w \in Workers |-> 0]
    /\ owner = [s \in Services |-> [i \in Indices |-> IF i = 0 THEN 0 ELSE i - SlotCount]]
    /\ due = slots
    /\ raced = [s \in Services |-> {}]
    /\ reports = 0

Goto(w, from, to) == pc[w] = from /\ pc' = [pc EXCEPT ![w] = to]

\* The worker is done; what it held is of no further use.
Forget(w) ==
    /\ asked' = [asked EXCEPT ![w] = NoService]
    /\ board' = [board EXCEPT ![w] = NoService]
    /\ missing' = [missing EXCEPT ![w] = FALSE]
-----------------------------------------------------------------------------
(* RegisterService() *)

\* Mutant: the name is not looked up first.
RegisterService_Again(w, s) ==
    /\ lock = NoWorker
    /\ s \notin services \/ Len(chain) < 3
    /\ services' = services \cup {s}
    /\ lock' = w
    /\ Goto(w, "idle", "link")
    /\ asked' = [asked EXCEPT ![w] = s]
    /\ UNCHANGED <<chain, cache, published, timerVars, board, missing, slotVars, readVars, countVars>>

\* A name that is in the map already changes nothing.
RegisterService(w, s) ==
    /\ lock = NoWorker
    /\ s \notin services
    /\ services' = services \cup {s}
    /\ lock' = w
    /\ Goto(w, "idle", "link")
    /\ asked' = [asked EXCEPT ![w] = s]
    /\ UNCHANGED <<chain, cache, published, timerVars, board, missing, slotVars, readVars, countVars>>

LinkBoard(w) ==
    /\ Goto(w, "link", "cache")
    /\ chain' = <<asked[w]>> \o chain
    /\ UNCHANGED <<services, lock, cache, published, timerVars, findVars, slotVars, readVars, countVars>>

CacheBoard(w) ==
    /\ Goto(w, "cache", "idle")
    /\ cache' = [cache EXCEPT ![CacheIndex[asked[w]]] = IF @ = NoService THEN asked[w] ELSE @]
    /\ lock' = NoWorker
    /\ published' = published \cup {asked[w]}
    /\ Forget(w)
    /\ UNCHANGED <<services, chain, timerVars, slotVars, readVars, countVars>>
-----------------------------------------------------------------------------
(* FindService() and ListService() *)

Found(w, b, before) ==
    /\ board' = [board EXCEPT ![w] = b]
    /\ missing' = [missing EXCEPT ![w] = before /\ b = NoService]
    /\ pc' = [pc EXCEPT ![w] = "found"]

\* Mutant: whatever is cached is taken.
FindInCache_NoCompare(w, s) ==
    /\ pc[w] = "idle"
    /\ asked' = [asked EXCEPT ![w] = s]
    /\ LET b == cache[CacheIndex[s]]
       IN  IF b # NoService THEN Found(w, b, s \in published)
           ELSE /\ Goto(w, "idle", "find")
                /\ missing' = [missing EXCEPT ![w] = s \in published]
                /\ UNCHANGED board
    /\ UNCHANGED <<poolVars, timerVars, slotVars, readVars, countVars>>

\* An element of the cache, once set, does not change.
FindInCache(w, s) ==
    /\ pc[w] = "idle"
    /\ asked' = [asked EXCEPT ![w] = s]
    /\ LET b == cache[CacheIndex[s]]
       IN  IF b = s THEN Found(w, b, s \in published)
           ELSE /\ Goto(w, "idle", "find")
                /\ missing' = [missing EXCEPT ![w] = s \in published]
                /\ UNCHANGED board
    /\ UNCHANGED <<poolVars, timerVars, slotVars, readVars, countVars>>

FindInMap(w) ==
    /\ pc[w] = "find"
    /\ lock = NoWorker
    /\ Found(w, IF asked[w] \in services THEN asked[w] ELSE NoService, missing[w])
    /\ UNCHANGED <<poolVars, timerVars, asked, slotVars, readVars, countVars>>

\* One board of the list that a page shows.
ListService(w, s) ==
    /\ pc[w] = "idle"
    /\ s \in Range(chain)
    /\ asked' = [asked EXCEPT ![w] = s]
    /\ Found(w, s, FALSE)
    /\ UNCHANGED <<poolVars, timerVars, slotVars, readVars, countVars>>

\* There is no such service, or the call never ends.
GiveUp(w) ==
    /\ Goto(w, "found", "idle")
    /\ Forget(w)
    /\ UNCHANGED <<poolVars, timerVars, slotVars, readVars, countVars>>
-----------------------------------------------------------------------------
(* ReportProcessEnd(): the counter is incremented by a load and a store. *)

Counting(w) == pc[w] \in {"load", "store"}

InElement(s, i) == {w \in Workers : Counting(w) /\ board[w] = s /\ index[w] = i}

ChooseSlot(w) ==
    LET s == board[w]
        i == slotIndex[s]
    IN  /\ s \in Measured
        /\ Goto(w, "found", "load")
        /\ index' = [index EXCEPT ![w] = i]
        /\ reports < MaxReports
        /\ reports' = reports + 1
        /\ due' = [due EXCEPT ![s][i] = @ + 1]
        /\ raced' = IF InElement(s, i) = {} THEN raced ELSE [raced EXCEPT ![s] = @ \cup {i}]
        /\ UNCHANGED <<poolVars, timerVars, findVars, seen, readVars, slots>>

LoadCount(w) ==
    /\ Goto(w, "load", "store")
    /\ seen' = [seen EXCEPT ![w] = slots[board[w]][index[w]]]
    /\ UNCHANGED <<poolVars, timerVars, findVars, index, readVars, countVars>>

StoreCount(w) ==
    /\ Goto(w, "store", "idle")
    /\ slots' = [slots EXCEPT ![board[w]][index[w]] = seen[w] + 1]
    /\ index' = [index EXCEPT ![w] = 0]
    /\ seen' = [seen EXCEPT ![w] = 0]
    /\ Forget(w)
    /\ UNCHANGED <<poolVars, timerVars, readVars, due, raced, reports>>
-----------------------------------------------------------------------------
(* LatestStats() *)

\* Mutant: one slot more than GetRealPeriod() allows.
GetRealPeriod_More(expect) == Min({Max({expect, 1}), SlotCount - 1})

GetRealPeriod(expect) == Min({Max({expect, 1}), SlotCount - 2})

Before(i) == IF i = 0 THEN SlotCount - 1 ELSE i - 1

\* The slot the board is in, counted from its registration.
Current(s) == owner[s][slotIndex[s]]

StartReading(w, i) ==
    LET now == Current(board[w])
    IN  /\ index' = [index EXCEPT ![w] = i]
        /\ since' = [since EXCEPT ![w] = now]
        /\ want' = [want EXCEPT ![w] = now - 1]

\* _slot_index == 0 ? STAT_SLOT_COUNT - 1 : _slot_index - 1 ...
TestIndex(w, period) ==
    /\ board[w] \in Measured
    /\ left' = [left EXCEPT ![w] = GetRealPeriod(period)]
    /\ IF slotIndex[board[w]] = 0
       THEN Goto(w, "found", "read_id") /\ StartReading(w, SlotCount - 1)
       ELSE Goto(w, "found", "read_index") /\ UNCHANGED <<index, since, want>>
    /\ UNCHANGED <<poolVars, timerVars, findVars, seen, id, countVars>>

\* ... reads it a second time, and may then find 0 after all.
ReadIndex(w) ==
    /\ Goto(w, "read_index", "read_id")
    /\ StartReading(w, slotIndex[board[w]] - 1)
    /\ UNCHANGED <<poolVars, timerVars, findVars, seen, left, id, countVars>>

ReadId(w) ==
    /\ Goto(w, "read_id", "read_slot")
    /\ id' = [id EXCEPT ![w] = slotId[board[w]] - 1]
    /\ UNCHANGED <<poolVars, timerVars, findVars, slotVars, left, want, since, countVars>>

MoreSlots(w) == left[w] > 0 /\ id[w] >= 0

ReadSlot(w) ==
    /\ pc[w] = "read_slot" /\ MoreSlots(w)
    /\ left' = [left EXCEPT ![w] = @ - 1]
    /\ id' = [id EXCEPT ![w] = @ - 1]
    /\ index' = [index EXCEPT ![w] = Before(@)]
    /\ want' = [want EXCEPT ![w] = @ - 1]
    /\ UNCHANGED <<poolVars, timerVars, pc, findVars, seen, since, countVars>>

EndReading(w) ==
    /\ ~MoreSlots(w)
    /\ Goto(w, "read_slot", "idle")
    /\ Forget(w)
    /\ index' = [index EXCEPT ![w] = 0]
    /\ left' = [left EXCEPT ![w] = 0]
    /\ id' = [id EXCEPT ![w] = 0]
    /\ want' = [want EXCEPT ![w] = 0]
    /\ since' = [since EXCEPT ![w] = 0]
    /\ UNCHANGED <<poolVars, timerVars, seen, countVars>>
-----------------------------------------------------------------------------
(* NextSlot(), from TimerMaintain once a second *)

StartNextSlot ==
    /\ tpc = "idle" /\ chain # <<>>
    /\ rest' = chain
    /\ tpc' = "clear"
    /\ UNCHANGED <<poolVars, slotIndex, slotId, owner, pc, findVars, slotVars, readVars, countVars>>

After(i) == IF i + 1 = SlotCount THEN 0 ELSE i + 1

\* Bound: nobody takes SlotCount - 1 seconds to count one call ...
NobodyCounts(s, i) == InElement(s, i) = {}

\* ... or more than a second to read.
NobodyLags(s) ==
    \A w \in Workers :
        pc[w] \in {"read_id", "read_slot"} /\ board[w] = s => since[w] = Current(s)

\* Mutant: the element keeps what was counted a round earlier.
ClearSlot_Kept(s, i) ==
    /\ owner' = [owner EXCEPT ![s][i] = Current(s) + 1]
    /\ due' = [due EXCEPT ![s][i] = 0]
    /\ raced' = [raced EXCEPT ![s] = @ \ {i}]
    /\ UNCHANGED <<slots, reports>>

ClearSlot(s, i) ==
    /\ owner' = [owner EXCEPT ![s][i] = Current(s) + 1]
    /\ slots' = [slots EXCEPT ![s][i] = 0]
    /\ due' = [due EXCEPT ![s][i] = 0]
    /\ raced' = [raced EXCEPT ![s] = @ \ {i}]
    /\ UNCHANGED reports

ClearNext ==
    /\ tpc = "clear"
    /\ LET s == Head(rest)
           i == After(slotIndex[s])
       IN  /\ slotId[s] < MaxSlots
           /\ NobodyCounts(s, i) /\ NobodyLags(s)
           /\ ClearSlot(s, i)
    /\ tpc' = "index"
    /\ UNCHANGED <<poolVars, slotIndex, slotId, rest, pc, findVars, slotVars, readVars>>

StoreIndex ==
    /\ tpc = "index"
    /\ slotIndex' = [slotIndex EXCEPT ![Head(rest)] = After(@)]
    /\ tpc' = "id"
    /\ UNCHANGED <<poolVars, slotId, rest, owner, pc, findVars, slotVars, readVars, countVars>>

StoreId ==
    /\ tpc = "id"
    /\ slotId' = [slotId EXCEPT ![Head(rest)] = @ + 1]
    /\ rest' = Tail(rest)
    /\ tpc' = IF Len(rest) = 1 THEN "idle" ELSE "clear"
    /\ UNCHANGED <<poolVars, slotIndex, owner, pc, findVars, slotVars, readVars, countVars>>
-----------------------------------------------------------------------------
Next ==
    \/ \E w \in Workers :
          \/ \E s \in Services : RegisterService(w, s) \/ FindInCache(w, s) \/ ListService(w, s)
          \/ LinkBoard(w) \/ CacheBoard(w) \/ FindInMap(w) \/ GiveUp(w)
          \/ ChooseSlot(w) \/ LoadCount(w) \/ StoreCount(w)
          \/ \E period \in Periods : TestIndex(w, period)
          \/ ReadIndex(w) \/ ReadId(w) \/ ReadSlot(w) \/ EndReading(w)
    \/ StartNextSlot \/ ClearNext \/ StoreIndex \/ StoreId

Spec == Init /\ [][Next]_vars
-----------------------------------------------------------------------------
(* A lookup returns the board of the name that was asked for, though names  *)
(* share elements of the cache and the cache is read without the lock, and  *)
(* finds every service whose registration had returned before it began.     *)
(* Such a service is linked, exactly once, for the maintenance thread and   *)
(* the pages.                                                               *)
LookupExact ==
    /\ \A w \in Workers : board[w] # NoService => board[w] = asked[w]
    /\ \A w \in Workers : ~(pc[w] = "found" /\ missing[w])
    /\ published \subseteq Range(chain)
    /\ IsInjective(chain)

\* What an element of the ring says once nobody is counting in it: lost
\* increments leave too little, never nothing and never too much.
Counted(s, i) ==
    InElement(s, i) = {} =>
        /\ slots[s][i] <= due[s][i]
        /\ due[s][i] > 0 => slots[s][i] > 0
        /\ i \notin raced[s] => slots[s][i] = due[s][i]

(* The slots a reader sums up are the last ones before the current slot at  *)
(* the time it began, none of them cleared for a later one although the     *)
(* maintenance thread has moved on meanwhile, and each holds the calls that *)
(* were reported in it, also by workers that began just before the move.    *)
(* A reader that got an index below 0 (see SlotInRange) is left out.        *)
StatsExact ==
    /\ \A s \in Services, i \in Indices : Counted(s, i)
    /\ \A w \in Workers :
          (pc[w] = "read_slot" /\ MoreSlots(w) /\ index[w] >= 0)
              => owner[board[w]][index[w]] = want[w]

(* LatestStats() reads elements of the ring only.                           *)
SlotInRange == \A w \in Workers : pc[w] = "read_slot" /\ MoreSlots(w) => index[w] \in Indices
=============================================================================
