---------------------------- MODULE BufferProofs ----------------------------
(* Proofs about ReadPath and WritePath, for any frames, sizes of heads,      *)
(* metas and bodies, blocks, reads and writes.                               *)
EXTENDS ReadPath, WritePath, FiniteSetTheorems, SequenceTheorems, WellFoundedInduction, TLAPS
-----------------------------------------------------------------------------
(* Sums of sizes and recursion along a list *)

(* A set of numbers has a least one. *)
LEMMA LeastNat ==
    ASSUME NEW T \in SUBSET Nat, T # {}
    PROVE  \E n \in T : \A m \in T : n <= m
<1>. DEFINE R == OpToRel(<, Nat)
<1>1. IsWellFoundedOn(R, Nat)
  BY NatLessThanWellFounded
<1>2. PICK n \in T : \A m \in T : <<m, n>> \notin R
  BY <1>1, WFMin, Zenon
<1>3. \A m \in T : ~(m < n)
  BY <1>2, Zenon DEF OpToRel
<1>. HIDE DEF R
<1>. QED BY <1>3

(* Induction up to a bound. *)
LEMMA UpTo ==
    ASSUME NEW n \in Nat, NEW T, 0 \in T, \A i \in 1 .. n : i - 1 \in T => i \in T
    PROVE  \A i \in 0 .. n : i \in T
<1>. DEFINE Bad == { i \in 0 .. n : i \notin T }
<1>1. ASSUME Bad # {} PROVE FALSE
  <2>1. PICK i \in Bad : \A m \in Bad : i <= m
    <3>1. Bad \in SUBSET Nat
      OBVIOUS
    <3>. QED BY <1>1, <3>1, LeastNat
  <2>2. i # 0 /\ i \in 1 .. n
    BY <2>1
  <2>3. i - 1 \in 0 .. n /\ i - 1 \notin Bad
    BY <2>1, <2>2
  <2>. QED BY <2>1, <2>2, <2>3
<1>. QED BY <1>1

(* Values from a first one on, each computed from the one before. *)
Solvable(S, e, n, F) ==
    \E g \in [0 .. n -> S] : g[0] = e /\ \A i \in 1 .. n : g[i] = F[i][g[i - 1]]

(* A recursive definition along the numbers up to a bound has a solution. *)
LEMMA RecursionExists ==
    ASSUME NEW S, NEW e \in S, NEW n \in Nat, NEW F \in [1 .. n -> [S -> S]]
    PROVE  Solvable(S, e, n, F)
<1>. DEFINE Good(m) == \E g \in [0 .. m -> S] :
                          g[0] = e /\ \A i \in 1 .. m : g[i] = F[i][g[i - 1]]
            T == { m \in 0 .. n : Good(m) }
<1>1. Good(0)
  <2>. DEFINE g == [i \in 0 .. 0 |-> e]
  <2>1. g \in [0 .. 0 -> S] /\ g[0] = e /\ \A i \in 1 .. 0 : g[i] = F[i][g[i - 1]]
    OBVIOUS
  <2>. QED BY <2>1
<1>2. ASSUME NEW m \in 1 .. n, Good(m - 1) PROVE Good(m)
  <2>1. PICK g \in [0 .. m - 1 -> S] :
           g[0] = e /\ \A i \in 1 .. m - 1 : g[i] = F[i][g[i - 1]]
    BY <1>2
  <2>. DEFINE h == [i \in 0 .. m |-> IF i = m THEN F[m][g[m - 1]] ELSE g[i]]
  <2>2. g[m - 1] \in S
    BY <2>1
  <2>3. F[m][g[m - 1]] \in S
    BY <2>2
  <2>4. h \in [0 .. m -> S] /\ h[0] = e
    BY <2>1, <2>3
  <2>5. ASSUME NEW i \in 1 .. m PROVE h[i] = F[i][h[i - 1]]
    <3>1. i - 1 \in 0 .. m /\ i - 1 # m /\ h[i - 1] = g[i - 1]
      OBVIOUS
    <3>2. CASE i = m
      BY <3>1, <3>2
    <3>3. CASE i # m
      <4>1. i \in 1 .. m - 1 /\ h[i] = g[i]
        BY <3>3
      <4>. HIDE DEF h
      <4>. QED BY <2>1, <3>1, <4>1
    <3>. QED BY <3>2, <3>3
  <2>. HIDE DEF h
  <2>. QED BY <2>4, <2>5
<1>3. \A m \in 0 .. n : m \in T
  <2>. HIDE DEF Good
  <2>1. 0 \in T /\ \A m \in 1 .. n : m - 1 \in T => m \in T
    BY <1>1, <1>2
  <2>. HIDE DEF T
  <2>. QED BY <2>1, UpTo
<1>4. n \in T
  BY <1>3
<1>5. Good(n)
  <2>. HIDE DEF Good
  <2>. QED BY <1>4
<1>. QED BY <1>5 DEF Solvable

(* The sums of sizes: each adds one size to the one before. *)
LEMMA SumsValue ==
    ASSUME NEW d \in Seq(Nat)
    PROVE  /\ Sums(d) \in [0 .. Len(d) -> Nat]
           /\ Sums(d)[0] = 0
           /\ \A i \in 1 .. Len(d) : Sums(d)[i] = Sums(d)[i - 1] + d[i]
<1>. DEFINE n == Len(d)
            F == [i \in 1 .. n |-> [x \in Nat |-> x + d[i]]]
            f == CHOOSE g : g = [i \in 0 .. n |-> IF i = 0 THEN 0 ELSE g[i - 1] + d[i]]
<1>0. n \in Nat /\ \A i \in 1 .. n : d[i] \in Nat
  OBVIOUS
<1>. HIDE DEF n
<1>1. F \in [1 .. n -> [Nat -> Nat]]
  BY <1>0
<1>2. PICK g \in [0 .. n -> Nat] : g[0] = 0 /\ \A i \in 1 .. n : g[i] = F[i][g[i - 1]]
  <2>. HIDE DEF F
  <2>1. Solvable(Nat, 0, n, F)
    BY <1>0, <1>1, RecursionExists
  <2>. QED BY <2>1 DEF Solvable
<1>3. ASSUME NEW i \in 1 .. n PROVE g[i] = g[i - 1] + d[i]
  <2>1. g[i - 1] \in Nat
    BY <1>0
  <2>2. F[i][g[i - 1]] = g[i - 1] + d[i]
    BY <2>1
  <2>. QED BY <1>2, <2>2
<1>4. g = [i \in 0 .. n |-> IF i = 0 THEN 0 ELSE g[i - 1] + d[i]]
  <2>. HIDE DEF F
  <2>. QED BY <1>0, <1>2, <1>3
<1>5. f = [i \in 0 .. n |-> IF i = 0 THEN 0 ELSE f[i - 1] + d[i]]
  BY <1>4, Zenon
<1>6. Sums(d) = f
  BY DEF Sums, n
<1>. HIDE DEF f, F
<1>7. f[0] = 0 /\ \A i \in 1 .. n : f[i] = f[i - 1] + d[i]
  BY <1>0, <1>5
<1>8. \A i \in 0 .. n : f[i] \in Nat
  <2>. DEFINE T == { i \in 0 .. n : f[i] \in Nat }
  <2>0. ASSUME NEW i \in 1 .. n, i - 1 \in T PROVE i \in T
    <3>1. f[i - 1] \in Nat /\ d[i] \in Nat /\ f[i] = f[i - 1] + d[i] /\ i \in 0 .. n
      BY <1>0, <1>7, <2>0
    <3>. QED BY <3>1
  <2>1. 0 \in T /\ \A i \in 1 .. n : i - 1 \in T => i \in T
    BY <1>0, <1>7, <2>0
  <2>2. \A i \in 0 .. n : i \in T
    <3>. HIDE DEF T
    <3>. QED BY <1>0, <2>1, UpTo
  <2>. QED BY <2>2
<1>. QED BY <1>5, <1>6, <1>7, <1>8 DEF n

(* Sums of sequences that agree up to some place agree up to there. *)
LEMMA SumsAgree ==
    ASSUME NEW d \in Seq(Nat), NEW c \in Seq(Nat), NEW n \in Nat, n <= Len(d), n <= Len(c),
           \A i \in 1 .. n : d[i] = c[i]
    PROVE  \A i \in 0 .. n : Sums(d)[i] = Sums(c)[i]
<1>. DEFINE T == { i \in 0 .. n : Sums(d)[i] = Sums(c)[i] }
<1>1. 0 \in T
  BY SumsValue
<1>2. ASSUME NEW i \in 1 .. n, i - 1 \in T PROVE i \in T
  <2>1. i \in 1 .. Len(d) /\ i \in 1 .. Len(c)
    OBVIOUS
  <2>2. Sums(d)[i] = Sums(d)[i - 1] + d[i] /\ Sums(c)[i] = Sums(c)[i - 1] + c[i]
    BY <2>1, SumsValue
  <2>3. Sums(d)[i - 1] = Sums(c)[i - 1]
    BY <1>2
  <2>. QED BY <2>2, <2>3
<1>3. \A i \in 0 .. n : i \in T
  <2>. HIDE DEF T
  <2>. QED BY <1>1, <1>2, UpTo
<1>. QED BY <1>3

(* Without the first size every sum is smaller by it. *)
LEMMA SumsTail ==
    ASSUME NEW d \in Seq(Nat), d # <<>>
    PROVE  \A i \in 1 .. Len(d) : Sums(d)[i] = Head(d) + Sums(Tail(d))[i - 1]
<1>. DEFINE n == Len(d) - 1
            T == { i \in 0 .. n : Sums(d)[i + 1] = Head(d) + Sums(Tail(d))[i] }
<1>1. /\ n \in Nat /\ Len(d) \in Nat /\ Tail(d) \in Seq(Nat) /\ Len(Tail(d)) = n
      /\ \A i \in 1 .. n : Tail(d)[i] = d[i + 1]
      /\ Head(d) = d[1] /\ d[1] \in Nat
  BY EmptySeq, HeadTailProperties
<1>2. /\ \A i \in 0 .. n : Sums(Tail(d))[i] \in Nat
      /\ Sums(Tail(d))[0] = 0
      /\ \A i \in 1 .. n : Sums(Tail(d))[i] = Sums(Tail(d))[i - 1] + Tail(d)[i]
  BY <1>1, SumsValue
<1>3. /\ \A i \in 0 .. n + 1 : Sums(d)[i] \in Nat
      /\ Sums(d)[0] = 0
      /\ \A i \in 1 .. n + 1 : Sums(d)[i] = Sums(d)[i - 1] + d[i]
  <2>1. n + 1 = Len(d)
    BY <1>1
  <2>. QED BY <2>1, SumsValue
<1>. HIDE DEF n
<1>4. 0 \in T
  BY <1>1, <1>2, <1>3
<1>5. ASSUME NEW i \in 1 .. n, i - 1 \in T PROVE i \in T
  <2>1. Sums(d)[(i - 1) + 1] = Head(d) + Sums(Tail(d))[i - 1]
    BY <1>5
  <2>2. i + 1 \in 1 .. n + 1 /\ (i - 1) + 1 = i /\ (i + 1) - 1 = i
    BY <1>1
  <2>3. Sums(d)[i + 1] = Sums(d)[i] + d[i + 1]
    BY <1>3, <2>2
  <2>4. Sums(Tail(d))[i] = Sums(Tail(d))[i - 1] + d[i + 1]
    BY <1>1, <1>2
  <2>5. Sums(Tail(d))[i - 1] \in Nat /\ d[i + 1] \in Nat
    <3>1. i + 1 \in 1 .. Len(d)
      BY <1>1, <2>2 DEF n
    <3>. QED BY <1>1, <1>2, <3>1
  <2>. QED BY <1>1, <2>1, <2>2, <2>3, <2>4, <2>5
<1>6. \A i \in 0 .. n : i \in T
  <2>. HIDE DEF T
  <2>. QED BY <1>1, <1>4, <1>5, UpTo
<1>7. ASSUME NEW i \in 1 .. Len(d) PROVE Sums(d)[i] = Head(d) + Sums(Tail(d))[i - 1]
  <2>1. i - 1 \in 0 .. n /\ (i - 1) + 1 = i
    BY <1>1 DEF n
  <2>2. Sums(d)[(i - 1) + 1] = Head(d) + Sums(Tail(d))[i - 1]
    BY <1>6, <2>1
  <2>. QED BY <2>1, <2>2
<1>. QED BY <1>7

(* The handles of one sequence in one block. *)
LEMMA InBlockFinite ==
    ASSUME NEW S, NEW ps \in Seq(S), NEW b
    PROVE  IsFiniteSet(InBlock(ps, b)) /\ Cardinality(InBlock(ps, b)) \in Nat
<1>1. InBlock(ps, b) \in SUBSET (1 .. Len(ps)) /\ Len(ps) \in Nat
  BY DEF InBlock
<1>2. IsFiniteSet(1 .. Len(ps))
  BY <1>1, FS_Interval
<1>. QED BY <1>1, <1>2, FS_Subset, FS_CardinalityType

(* No handles are in no block. *)
LEMMA InBlockEmpty == \A b : InBlock(<<>>, b) = {} /\ Cardinality(InBlock(<<>>, b)) = 0
<1>1. \A b : InBlock(<<>>, b) = {}
  BY DEF InBlock
<1>. QED BY <1>1, FS_EmptySet

(* A handle appended counts once, for its block. *)
LEMMA InBlockAppend ==
    ASSUME NEW S, NEW ps \in Seq(S), NEW h \in S, NEW b
    PROVE  Cardinality(InBlock(Append(ps, h), b))
              = Cardinality(InBlock(ps, b)) + (IF h.block = b THEN 1 ELSE 0)
<1>. DEFINE n == Len(ps) + 1
            old == InBlock(ps, b)
            new == InBlock(Append(ps, h), b)
<1>1. /\ Append(ps, h) \in Seq(S) /\ Len(Append(ps, h)) = n /\ n \in Nat /\ n >= 1
      /\ \A i \in 1 .. Len(ps) : Append(ps, h)[i] = ps[i]
      /\ Append(ps, h)[n] = h
  BY AppendProperties
<1>2. DOMAIN Append(ps, h) = 1 .. n /\ DOMAIN ps = 1 .. n - 1 /\ 1 .. n = (1 .. n - 1) \cup {n}
  BY <1>1
<1>3. n \notin old
  BY <1>2 DEF InBlock
<1>4. new = IF h.block = b THEN old \cup {n} ELSE old
  <2>1. \A i \in 1 .. n - 1 : i \in new <=> i \in old
    BY <1>1, <1>2 DEF InBlock
  <2>2. n \in new <=> h.block = b
    BY <1>1, <1>2 DEF InBlock
  <2>3. new \subseteq 1 .. n /\ old \subseteq 1 .. n - 1
    BY <1>2 DEF InBlock
  <2>. HIDE DEF new, old
  <2>4. \A i : i \in new <=> i \in old \/ (i = n /\ h.block = b)
    BY <1>2, <1>3, <2>1, <2>2, <2>3
  <2>5. CASE h.block = b
    <3>1. new = old \cup {n}
      BY <2>4, <2>5
    <3>. QED BY <2>5, <3>1
  <2>6. CASE h.block # b
    <3>1. new = old
      BY <2>4, <2>6
    <3>. QED BY <2>6, <3>1
  <2>. QED BY <2>5, <2>6
<1>5. IsFiniteSet(old) /\ Cardinality(old) \in Nat
  BY InBlockFinite
<1>. HIDE DEF new, old
<1>6. CASE h.block = b
  <2>1. Cardinality(new) = Cardinality(old) + 1
    BY <1>3, <1>4, <1>5, <1>6, FS_AddElement
  <2>. QED BY <1>6, <2>1 DEF new, old
<1>7. CASE h.block # b
  BY <1>4, <1>5, <1>7 DEF new, old
<1>. QED BY <1>6, <1>7
-----------------------------------------------------------------------------
(* Writing: the invariant *)

WriteHandles == [block : Blocks, size : Nat]

Said == {<<>>} \cup Int \cup { <<m, d>> : m \in Int, d \in Int }
Byte == {Junk} \cup { <<n, part, i, says>> : n \in Nat, i \in Nat, says \in Said,
                         part \in {"header", "meta", "head", "body", "chunk"} }

WriteSteps == {"idle", "append", "reserve", "meta", "compress", "flush", "body", "head", "seal",
               "aborted"}

AsmOK ==
    /\ step \in WriteSteps
    /\ begun \in Nat
    /\ msg \in [kind : MessageKinds \cup {"plain"}, meta : Nat, body : Nat]
    /\ factor \in Nat /\ from \in Nat /\ left \in Nat /\ raw \in Nat /\ chunk \in Nat
    /\ metaSize \in Int
    /\ eager \in BOOLEAN
    /\ out \in Seq(Byte) /\ encoded \in Seq(Byte)

BufOK ==
    /\ buf \in Seq(WriteHandles) /\ content \in Seq(WriteHandles)
    /\ writeBytes \in Nat /\ lastBytes \in Nat /\ room \in Nat
    /\ writeBytes = Total(buf)
    /\ room > 0 => buf # <<>> /\ room <= lastBytes /\ room <= LastHandle.size

Sendable(hs) == hs # <<>> /\ \A i \in DOMAIN hs : hs[i].size > 0

(* No empty block is sent, and the bytes sent are counted. *)
NetOK ==
    /\ queue \in Seq(Seq(WriteHandles)) /\ sending \in Seq(WriteHandles)
    /\ cur \in Nat /\ sendingSize \in Nat /\ sentSize \in Nat /\ closed \in BOOLEAN
    /\ \A k \in DOMAIN queue : Sendable(queue[k])
    /\ sending # <<>> =>
          /\ Sendable(sending)
          /\ cur \in DOMAIN sending
          /\ sendingSize > 0
          /\ sentSize + sendingSize = Offset(sending, cur + 1)

RangeOf(hs) == { hs[i] : i \in DOMAIN hs }
HandlesOf(bs, cs, q, ss) ==
    RangeOf(bs) \cup RangeOf(cs) \cup RangeOf(ss) \cup UNION { RangeOf(q[k]) : k \in DOMAIN q }
OwnedBy(bs, cs, q, ss, b) == RefsOf(bs)[b] + RefsOf(cs)[b] + QueueRefs(q)[b] + RefsOf(ss)[b]

AllHandles == HandlesOf(buf, content, queue, sending)
Owned(b) == OwnedBy(buf, content, queue, sending, b)

(* Every block has one owner and is as large as its handle says. *)
MemOK ==
    /\ mem \in [Blocks -> Seq(Byte)]
    /\ refCount \in [Blocks -> Nat]
    /\ OneOwner
    /\ \A h \in AllHandles : h.size <= Len(mem[h.block])

(* How far the message has come. *)
Stage ==
    /\ step \in {"idle", "append", "reserve", "seal"} => room = 0
    /\ step = "idle" => buf = <<>>
    /\ step \in {"idle", "append", "reserve"} => content = <<>>
    /\ step \in {"append", "head"} => msg.kind = "page" /\ msg.meta > 0
    /\ step = "reserve" => writeBytes + left = HeaderSize
    /\ step \in {"meta", "compress", "flush", "body"} => writeBytes - room >= HeaderSize
    /\ step = "head" => writeBytes - room + Len(out) = msg.meta
    /\ step = "seal" => writeBytes > 0

ListsOK == buf \in Seq(WriteHandles) /\ content \in Seq(WriteHandles)
           /\ queue \in Seq(Seq(WriteHandles)) /\ sending \in Seq(WriteHandles)

CountsInv == AsmOK /\ BufOK /\ NetOK /\ MemOK /\ Stage
-----------------------------------------------------------------------------
(* Handles, their offsets and references *)

(* The sizes of the handles are numbers to add up. *)
LEMMA SizesType ==
    ASSUME NEW hs \in Seq(WriteHandles)
    PROVE  /\ Sizes(hs) \in Seq(Nat) /\ Len(Sizes(hs)) = Len(hs) /\ Len(hs) \in Nat
           /\ DOMAIN hs = 1 .. Len(hs)
           /\ \A i \in 1 .. Len(hs) : Sizes(hs)[i] = hs[i].size /\ hs[i] \in WriteHandles
<1>1. Len(hs) \in Nat /\ DOMAIN hs = 1 .. Len(hs) /\ \A i \in 1 .. Len(hs) : hs[i] \in WriteHandles
  OBVIOUS
<1>2. Sizes(hs) = [i \in 1 .. Len(hs) |-> hs[i].size]
  BY <1>1 DEF Sizes
<1>3. \A i \in 1 .. Len(hs) : hs[i].size \in Nat
  BY <1>1 DEF WriteHandles
<1>. QED BY <1>1, <1>2, <1>3

(* Each handle begins where the one before ends, and the last ends the     *)
(* buffer.                                                                  *)
LEMMA Offsets ==
    ASSUME NEW hs \in Seq(WriteHandles)
    PROVE  /\ Offset(hs, 1) = 0
           /\ \A i \in 1 .. Len(hs) + 1 : Offset(hs, i) \in Nat
           /\ \A i \in 1 .. Len(hs) : Offset(hs, i + 1) = Offset(hs, i) + hs[i].size
           /\ Total(hs) = Offset(hs, Len(hs) + 1) /\ Total(hs) \in Nat
<1>. DEFINE d == Sizes(hs)
            n == Len(hs)
<1>1. d \in Seq(Nat) /\ Len(d) = n /\ n \in Nat /\ \A i \in 1 .. n : d[i] = hs[i].size
  BY SizesType
<1>2. /\ Sums(d) \in [0 .. n -> Nat] /\ Sums(d)[0] = 0
      /\ \A i \in 1 .. n : Sums(d)[i] = Sums(d)[i - 1] + d[i]
  BY <1>1, SumsValue
<1>3. \A i : Offset(hs, i) = Sums(d)[i - 1]
  BY DEF Offset
<1>4. Total(hs) = Sums(d)[n]
  BY DEF Total
<1>. HIDE DEF d, n
<1>5. ASSUME NEW i \in 1 .. n PROVE Offset(hs, i + 1) = Offset(hs, i) + hs[i].size
  <2>1. Offset(hs, i + 1) = Sums(d)[i]
    BY <1>1, <1>3
  <2>. QED BY <1>1, <1>2, <1>3, <2>1
<1>6. Total(hs) = Offset(hs, n + 1) /\ Total(hs) \in Nat /\ Offset(hs, 1) = 0
  <2>1. (n + 1) - 1 = n /\ n \in 0 .. n /\ 1 - 1 = 0
    BY <1>1
  <2>2. Offset(hs, n + 1) = Sums(d)[n]
    BY <1>3, <2>1
  <2>3. Offset(hs, 1) = Sums(d)[0]
    BY <1>3, <2>1
  <2>. QED BY <1>2, <1>4, <2>1, <2>2, <2>3
<1>7. \A i \in 1 .. n + 1 : Offset(hs, i) \in Nat
  <2>1. \A i \in 1 .. n + 1 : i - 1 \in 0 .. n
    BY <1>1
  <2>. QED BY <1>2, <1>3, <2>1
<1>. QED BY <1>5, <1>6, <1>7 DEF n

(* Lists whose first handles have the same sizes have the same offsets.    *)
LEMMA OffsetsAgree ==
    ASSUME NEW hs \in Seq(WriteHandles), NEW gs \in Seq(WriteHandles), NEW n \in Nat,
           n <= Len(hs), n <= Len(gs), \A i \in 1 .. n : hs[i].size = gs[i].size
    PROVE  \A i \in 1 .. n + 1 : Offset(hs, i) = Offset(gs, i)
<1>1. /\ Sizes(hs) \in Seq(Nat) /\ Len(Sizes(hs)) = Len(hs)
      /\ Sizes(gs) \in Seq(Nat) /\ Len(Sizes(gs)) = Len(gs)
      /\ \A i \in 1 .. n : Sizes(hs)[i] = Sizes(gs)[i]
  <2>1. \A i \in 1 .. n : i \in 1 .. Len(hs) /\ i \in 1 .. Len(gs)
    BY SizesType
  <2>. QED BY <2>1, SizesType
<1>2. \A i \in 0 .. n : Sums(Sizes(hs))[i] = Sums(Sizes(gs))[i]
  BY <1>1, SumsAgree
<1>3. \A i \in 1 .. n + 1 : i - 1 \in 0 .. n
  OBVIOUS
<1>. QED BY <1>2, <1>3 DEF Offset

(* A handle appended comes after all others. *)
LEMMA OffsetsAppend ==
    ASSUME NEW hs \in Seq(WriteHandles), NEW h \in WriteHandles
    PROVE  /\ Append(hs, h) \in Seq(WriteHandles) /\ Len(Append(hs, h)) = Len(hs) + 1
           /\ \A i \in 1 .. Len(hs) : Append(hs, h)[i] = hs[i]
           /\ Append(hs, h)[Len(hs) + 1] = h
           /\ \A i \in 1 .. Len(hs) + 1 : Offset(Append(hs, h), i) = Offset(hs, i)
           /\ Total(Append(hs, h)) = Total(hs) + h.size
<1>. DEFINE gs == Append(hs, h)
            n == Len(hs)
<1>1. /\ gs \in Seq(WriteHandles) /\ Len(gs) = n + 1 /\ n \in Nat
      /\ \A i \in 1 .. n : gs[i] = hs[i]
      /\ gs[n + 1] = h
  OBVIOUS
<1>. HIDE DEF gs
<1>2. \A i \in 1 .. n + 1 : Offset(gs, i) = Offset(hs, i)
  BY <1>1, OffsetsAgree
<1>3. Total(gs) = Offset(gs, n + 1) + gs[n + 1].size
  <2>1. n + 1 \in 1 .. Len(gs)
    BY <1>1
  <2>2. Offset(gs, (n + 1) + 1) = Offset(gs, n + 1) + gs[n + 1].size
    BY <1>1, <2>1, Offsets
  <2>. QED BY <1>1, <2>2, Offsets
<1>4. Offset(gs, n + 1) = Total(hs)
  <2>1. n + 1 \in 1 .. n + 1
    BY <1>1
  <2>. QED BY <1>2, <2>1, Offsets
<1>. QED BY <1>1, <1>2, <1>3, <1>4 DEF gs

(* The handles after the size of the last one was set to n. *)
Resized(hs, n) ==
    [i \in 1 .. Len(hs) |-> IF i = Len(hs) THEN [block |-> hs[i].block, size |-> n] ELSE hs[i]]

(* The last handle may grow or shrink: the others stay where they are. *)
LEMMA OffsetsResize ==
    ASSUME NEW hs \in Seq(WriteHandles), hs # <<>>, NEW n \in Nat, NEW gs,
           gs = Resized(hs, n)
    PROVE  /\ gs \in Seq(WriteHandles) /\ Len(gs) = Len(hs) /\ gs # <<>>
           /\ \A i \in 1 .. Len(hs) : gs[i].block = hs[i].block
           /\ \A i \in 1 .. Len(hs) - 1 : gs[i] = hs[i]
           /\ gs[Len(hs)] = [block |-> hs[Len(hs)].block, size |-> n]
           /\ \A i \in 1 .. Len(hs) : Offset(gs, i) = Offset(hs, i)
           /\ Total(gs) = Total(hs) - hs[Len(hs)].size + n
<1>. DEFINE k == Len(hs)
<1>0. k \in Nat /\ k >= 1 /\ DOMAIN hs = 1 .. k /\ \A i \in 1 .. k : hs[i] \in WriteHandles
  OBVIOUS
<1>1. gs = [i \in 1 .. k |-> IF i = k THEN [block |-> hs[k].block, size |-> n] ELSE hs[i]]
  BY <1>0 DEF Resized
<1>. HIDE DEF k
<1>2. \A i \in 1 .. k : gs[i] \in WriteHandles
  BY <1>0, <1>1 DEF WriteHandles
<1>3. gs \in Seq(WriteHandles) /\ Len(gs) = k /\ gs # <<>>
  <2>1. gs \in [1 .. k -> WriteHandles]
    BY <1>1, <1>2
  <2>. QED BY <1>0, <2>1
<1>4. /\ \A i \in 1 .. k : gs[i].block = hs[i].block
      /\ \A i \in 1 .. k - 1 : gs[i] = hs[i]
      /\ gs[k] = [block |-> hs[k].block, size |-> n]
  <2>1. k \in 1 .. k /\ gs[k] = [block |-> hs[k].block, size |-> n]
    BY <1>0, <1>1
  <2>2. \A i \in 1 .. k : i # k => gs[i] = hs[i]
    BY <1>1
  <2>3. \A i \in 1 .. k - 1 : i \in 1 .. k /\ i # k
    BY <1>0
  <2>4. gs[k].block = hs[k].block
    BY <2>1
  <2>5. \A i \in 1 .. k : gs[i].block = hs[i].block
    BY <2>2, <2>4
  <2>. QED BY <2>1, <2>2, <2>3, <2>5
<1>5. \A i \in 1 .. k : Offset(gs, i) = Offset(hs, i)
  <2>1. k - 1 \in Nat /\ k - 1 <= Len(hs) /\ k - 1 <= Len(gs) /\ (k - 1) + 1 = k
    BY <1>0, <1>3 DEF k
  <2>2. \A i \in 1 .. (k - 1) + 1 : Offset(gs, i) = Offset(hs, i)
    <3>. DEFINE j == k - 1
    <3>1. j \in Nat /\ j <= Len(hs) /\ j <= Len(gs) /\ \A i \in 1 .. j : hs[i].size = gs[i].size
      BY <1>4, <2>1
    <3>. HIDE DEF j
    <3>2. \A i \in 1 .. j + 1 : Offset(hs, i) = Offset(gs, i)
      BY <1>3, <3>1, OffsetsAgree
    <3>. QED BY <3>2 DEF j
  <2>. QED BY <2>1, <2>2
<1>6. Total(gs) = Total(hs) - hs[k].size + n
  <2>1. k \in 1 .. k
    BY <1>0
  <2>2. Total(hs) = Offset(hs, k) + hs[k].size /\ Offset(hs, k) \in Nat
    BY <1>0, <2>1, Offsets DEF k
  <2>3. Total(gs) = Offset(gs, k) + gs[k].size
    BY <1>3, <2>1, Offsets
  <2>4. gs[k].size = n /\ Offset(gs, k) = Offset(hs, k) /\ hs[k].size \in Nat
    <3>1. hs[k] \in WriteHandles /\ Offset(gs, k) = Offset(hs, k)
      BY <1>0, <1>5, <2>1
    <3>2. gs[k].size = n
      BY <1>4
    <3>. QED BY <3>1, <3>2 DEF WriteHandles
  <2>. QED BY <2>2, <2>3, <2>4
<1>. QED BY <1>3, <1>4, <1>5, <1>6 DEF k

(* References are counted handle by handle. *)
LEMMA RefsType ==
    ASSUME NEW hs \in Seq(WriteHandles), NEW b \in Blocks
    PROVE  /\ RefsOf(hs)[b] = Cardinality(InBlock(hs, b)) /\ RefsOf(hs)[b] \in Nat
           /\ IsFiniteSet(InBlock(hs, b))
BY InBlockFinite DEF RefsOf

(* No handles hold no references. *)
LEMMA RefsEmpty == \A b \in Blocks : RefsOf(<<>>)[b] = 0
BY InBlockEmpty DEF RefsOf

(* A handle appended takes one reference, to its block. *)
LEMMA RefsAppend ==
    ASSUME NEW hs \in Seq(WriteHandles), NEW h \in WriteHandles, NEW b \in Blocks
    PROVE  RefsOf(Append(hs, h))[b] = RefsOf(hs)[b] + (IF h.block = b THEN 1 ELSE 0)
<1>1. Append(hs, h) \in Seq(WriteHandles)
  OBVIOUS
<1>2. Cardinality(InBlock(Append(hs, h), b))
         = Cardinality(InBlock(hs, b)) + (IF h.block = b THEN 1 ELSE 0)
  BY InBlockAppend
<1>. QED BY <1>1, <1>2, RefsType

(* They do not depend on the sizes. *)
LEMMA RefsSame ==
    ASSUME NEW hs, NEW gs, DOMAIN hs = DOMAIN gs,
           \A i \in DOMAIN hs : hs[i].block = gs[i].block
    PROVE  RefsOf(hs) = RefsOf(gs)
<1>1. \A b : InBlock(hs, b) = InBlock(gs, b)
  BY DEF InBlock
<1>. QED BY <1>1 DEF RefsOf

(* A block with a handle has a reference. *)
LEMMA RefsSome ==
    ASSUME NEW hs \in Seq(WriteHandles), NEW i \in DOMAIN hs
    PROVE  hs[i].block \in Blocks /\ RefsOf(hs)[hs[i].block] >= 1
<1>1. hs[i] \in WriteHandles
  OBVIOUS
<1>2. hs[i].block \in Blocks
  BY <1>1 DEF WriteHandles
<1>. DEFINE b == hs[i].block
<1>3. i \in InBlock(hs, b)
  BY DEF InBlock
<1>4. IsFiniteSet(InBlock(hs, b)) /\ Cardinality(InBlock(hs, b)) = RefsOf(hs)[b]
      /\ RefsOf(hs)[b] \in Nat
  BY <1>2, RefsType
<1>5. Cardinality(InBlock(hs, b)) # 0
  BY <1>3, <1>4, FS_EmptySet
<1>. QED BY <1>2, <1>4, <1>5

(* And two handles in a block make two references. *)
LEMMA RefsTwo ==
    ASSUME NEW hs \in Seq(WriteHandles), NEW i \in DOMAIN hs, NEW j \in DOMAIN hs, i # j,
           hs[i].block = hs[j].block
    PROVE  RefsOf(hs)[hs[i].block] >= 2
<1>. DEFINE b == hs[i].block
            S == InBlock(hs, b)
<1>1. b \in Blocks
  BY RefsSome
<1>2. IsFiniteSet(S) /\ Cardinality(S) = RefsOf(hs)[b] /\ RefsOf(hs)[b] \in Nat
  BY <1>1, RefsType
<1>3. i \in S /\ j \in S
  BY DEF InBlock
<1>. HIDE DEF S
<1>4. IsFiniteSet(S \ {i}) /\ Cardinality(S \ {i}) = Cardinality(S) - 1
  BY <1>2, <1>3, FS_RemoveElement
<1>5. Cardinality(S \ {i}) # 0 /\ Cardinality(S \ {i}) \in Nat
  <2>1. S \ {i} # {}
    BY <1>3
  <2>. QED BY <1>4, <2>1, FS_EmptySet, FS_CardinalityType
<1>. QED BY <1>2, <1>4, <1>5

(* The references of two lists add up. *)
LEMMA RefsConcat ==
    ASSUME NEW hs \in Seq(WriteHandles), NEW gs \in Seq(WriteHandles), NEW b \in Blocks
    PROVE  hs \o gs \in Seq(WriteHandles) /\ RefsOf(hs \o gs)[b] = RefsOf(hs)[b] + RefsOf(gs)[b]
<1>. DEFINE S == InBlock(hs, b)
            T == InBlock(gs, b)
            n == Len(hs)
            U == { n + j : j \in T }
            f == [j \in T |-> n + j]
<1>1. /\ n \in Nat /\ Len(gs) \in Nat
      /\ hs \o gs \in Seq(WriteHandles) /\ Len(hs \o gs) = n + Len(gs)
      /\ \A i \in 1 .. n : (hs \o gs)[i] = hs[i]
      /\ \A j \in 1 .. Len(gs) : (hs \o gs)[n + j] = gs[j]
      /\ DOMAIN hs = 1 .. n /\ DOMAIN gs = 1 .. Len(gs)
  BY ConcatProperties
<1>1a. DOMAIN (hs \o gs) = 1 .. n + Len(gs)
  BY <1>1
<1>. HIDE DEF n
<1>2. S \subseteq 1 .. n /\ T \subseteq 1 .. Len(gs)
  BY <1>1 DEF InBlock
<1>3. InBlock(hs \o gs, b) = S \cup U
  <2>1. ASSUME NEW i \in InBlock(hs \o gs, b) PROVE i \in S \cup U
    <3>1. i \in 1 .. n + Len(gs) /\ (hs \o gs)[i].block = b
      BY <1>1a DEF InBlock
    <3>2. CASE i <= n
      <4>1. i \in 1 .. n /\ hs[i].block = b
        BY <1>1, <3>1, <3>2
      <4>. QED BY <1>1, <4>1 DEF InBlock
    <3>3. CASE ~(i <= n)
      <4>1. i - n \in 1 .. Len(gs) /\ i = n + (i - n)
        BY <1>1, <3>1, <3>3
      <4>2. gs[i - n].block = b
        BY <1>1, <3>1, <4>1
      <4>3. i - n \in T
        BY <1>1, <4>1, <4>2 DEF InBlock
      <4>. HIDE DEF T
      <4>. QED BY <4>1, <4>3
    <3>. QED BY <3>2, <3>3
  <2>2. ASSUME NEW i \in S PROVE i \in InBlock(hs \o gs, b)
    <3>1. i \in 1 .. n /\ hs[i].block = b
      BY <1>2 DEF InBlock
    <3>2. i \in 1 .. n + Len(gs) /\ (hs \o gs)[i].block = b
      BY <1>1, <3>1
    <3>. QED BY <1>1a, <3>2 DEF InBlock
  <2>3. ASSUME NEW j \in T PROVE n + j \in InBlock(hs \o gs, b)
    <3>1. j \in 1 .. Len(gs) /\ gs[j].block = b
      BY <1>2 DEF InBlock
    <3>2. n + j \in 1 .. n + Len(gs) /\ (hs \o gs)[n + j].block = b
      BY <1>1, <3>1
    <3>. QED BY <1>1a, <3>2 DEF InBlock
  <2>. QED BY <2>1, <2>2, <2>3
<1>4. IsFiniteSet(S) /\ IsFiniteSet(T)
  BY RefsType
<1>. HIDE DEF S, T
<1>5. f \in Bijection(T, U)
  <2>1. f \in [T -> U] /\ \A x \in U : \E j \in T : f[j] = x
    OBVIOUS
  <2>2. \A i, j \in T : f[i] = f[j] => i = j
    BY <1>1, <1>2
  <2>. HIDE DEF f, U
  <2>. QED BY <2>1, <2>2 DEF Bijection, Injection, Surjection, IsInjective
<1>6. IsFiniteSet(U) /\ Cardinality(U) = Cardinality(T)
  <2>1. ExistsBijection(T, U)
    BY <1>5 DEF ExistsBijection
  <2>. HIDE DEF U
  <2>. QED BY <1>4, <2>1, FS_Bijection
<1>7. S \cap U = {}
  <2>1. ASSUME NEW i \in S, NEW j \in T, i = n + j PROVE FALSE
    BY <1>1, <1>2, <2>1
  <2>. QED BY <2>1
<1>. HIDE DEF U
<1>8. Cardinality(S \cup U) = Cardinality(S) + Cardinality(U) - Cardinality(S \cap U)
  BY <1>4, <1>6, FS_Union
<1>9. Cardinality(S \cap U) = 0 /\ Cardinality(S) \in Nat /\ Cardinality(U) \in Nat
  BY <1>4, <1>6, <1>7, FS_EmptySet, FS_CardinalityType
<1>10. Cardinality(InBlock(hs \o gs, b)) = Cardinality(S) + Cardinality(T)
  BY <1>3, <1>6, <1>8, <1>9
<1>11. /\ RefsOf(hs \o gs)[b] = Cardinality(InBlock(hs \o gs, b))
       /\ RefsOf(hs)[b] = Cardinality(S) /\ RefsOf(gs)[b] = Cardinality(T)
  BY <1>1, RefsType DEF S, T
<1>. QED BY <1>1, <1>10, <1>11

(* What the messages of a queue hold, as it grows and shrinks. *)
QueueCounts(lists, b) == [k \in DOMAIN lists |-> RefsOf(lists[k])[b]]

(* What each list holds of a block is a number to add up. *)
LEMMA CountsType ==
    ASSUME NEW lists \in Seq(Seq(WriteHandles)), NEW b \in Blocks
    PROVE  /\ QueueCounts(lists, b) \in Seq(Nat) /\ Len(QueueCounts(lists, b)) = Len(lists)
           /\ Len(lists) \in Nat
           /\ \A k \in 1 .. Len(lists) : QueueCounts(lists, b)[k] = RefsOf(lists[k])[b]
           /\ Sums(QueueCounts(lists, b))[Len(lists)] \in Nat
<1>. DEFINE d == QueueCounts(lists, b)
<1>1. Len(lists) \in Nat /\ DOMAIN lists = 1 .. Len(lists)
      /\ \A k \in 1 .. Len(lists) : lists[k] \in Seq(WriteHandles)
  OBVIOUS
<1>2. d = [k \in 1 .. Len(lists) |-> RefsOf(lists[k])[b]]
  BY <1>1 DEF QueueCounts
<1>3. \A k \in 1 .. Len(lists) : RefsOf(lists[k])[b] \in Nat
  BY <1>1, RefsType
<1>. HIDE DEF d
<1>4. d \in Seq(Nat) /\ Len(d) = Len(lists)
  BY <1>1, <1>2, <1>3
<1>5. Sums(d)[Len(d)] \in Nat
  BY <1>4, SumsValue
<1>. QED BY <1>1, <1>2, <1>4, <1>5 DEF d

(* What the queue holds of a block is the sum over its lists. *)
LEMMA QueueRefsType ==
    ASSUME NEW q \in Seq(Seq(WriteHandles)), NEW b \in Blocks
    PROVE  QueueRefs(q)[b] = Sums(QueueCounts(q, b))[Len(q)] /\ QueueRefs(q)[b] \in Nat
<1>1. QueueRefs(q)[b] = Sums(QueueCounts(q, b))[Len(q)]
  BY DEF QueueRefs, QueueCounts
<1>. QED BY <1>1, CountsType

(* An empty queue holds no references. *)
LEMMA QueueRefsEmpty == \A b \in Blocks : QueueRefs(<<>>)[b] = 0
<1>. TAKE b \in Blocks
<1>1. <<>> \in Seq(Seq(WriteHandles)) /\ Len(<<>>) = 0
  OBVIOUS
<1>2. QueueCounts(<<>>, b) \in Seq(Nat)
  BY <1>1, CountsType
<1>3. Sums(QueueCounts(<<>>, b))[0] = 0
  BY <1>2, SumsValue
<1>. QED BY <1>1, <1>3, QueueRefsType

(* A list queued adds its references. *)
LEMMA QueueRefsAppend ==
    ASSUME NEW p \in Seq(Seq(WriteHandles)), NEW hs \in Seq(WriteHandles), NEW b \in Blocks
    PROVE  QueueRefs(Append(p, hs))[b] = QueueRefs(p)[b] + RefsOf(hs)[b]
<1>. DEFINE q == Append(p, hs)
            d == QueueCounts(p, b)
            e == QueueCounts(q, b)
            n == Len(p)
<1>1. /\ q \in Seq(Seq(WriteHandles)) /\ Len(q) = n + 1 /\ n \in Nat
      /\ \A k \in 1 .. n : q[k] = p[k]
      /\ q[n + 1] = hs
  OBVIOUS
<1>. HIDE DEF q
<1>2. /\ d \in Seq(Nat) /\ Len(d) = n /\ e \in Seq(Nat) /\ Len(e) = n + 1
      /\ \A k \in 1 .. n : d[k] = RefsOf(p[k])[b]
      /\ \A k \in 1 .. n + 1 : e[k] = RefsOf(q[k])[b]
  BY <1>1, CountsType
<1>3. QueueRefs(p)[b] = Sums(d)[n] /\ QueueRefs(q)[b] = Sums(e)[n + 1]
  BY <1>1, QueueRefsType
<1>. HIDE DEF d, e, n
<1>4. \A k \in 1 .. n : e[k] = d[k]
  <2>1. \A k \in 1 .. n : k \in 1 .. n + 1
    BY <1>1
  <2>. QED BY <1>1, <1>2, <2>1
<1>5. \A i \in 0 .. n : Sums(e)[i] = Sums(d)[i]
  <2>1. n <= Len(d) /\ n <= Len(e)
    BY <1>1, <1>2
  <2>. QED BY <1>1, <1>2, <1>4, <2>1, SumsAgree
<1>6. Sums(e)[n + 1] = Sums(e)[(n + 1) - 1] + e[n + 1]
  <2>1. n + 1 \in 1 .. Len(e)
    BY <1>1, <1>2
  <2>. QED BY <1>2, <2>1, SumsValue
<1>7. e[n + 1] = RefsOf(hs)[b] /\ (n + 1) - 1 = n /\ n \in 0 .. n
  BY <1>1, <1>2
<1>8. Sums(e)[n + 1] = Sums(d)[n] + RefsOf(hs)[b]
  BY <1>5, <1>6, <1>7
<1>. QED BY <1>3, <1>8 DEF q

(* The first list and the rest hold what the queue holds. *)
LEMMA QueueRefsTail ==
    ASSUME NEW p \in Seq(Seq(WriteHandles)), p # <<>>, NEW b \in Blocks
    PROVE  QueueRefs(p)[b] = RefsOf(Head(p))[b] + QueueRefs(Tail(p))[b]
<1>. DEFINE q == Tail(p)
            d == QueueCounts(p, b)
            e == QueueCounts(q, b)
            n == Len(p)
<1>1. /\ q \in Seq(Seq(WriteHandles)) /\ n \in Nat /\ n >= 1 /\ Len(q) = n - 1
      /\ \A k \in 1 .. n - 1 : q[k] = p[k + 1]
      /\ Head(p) = p[1]
  BY EmptySeq, HeadTailProperties
<1>. HIDE DEF q
<1>2. /\ d \in Seq(Nat) /\ Len(d) = n /\ e \in Seq(Nat) /\ Len(e) = n - 1
      /\ \A k \in 1 .. n : d[k] = RefsOf(p[k])[b]
      /\ \A k \in 1 .. n - 1 : e[k] = RefsOf(q[k])[b]
  BY <1>1, CountsType
<1>3. QueueRefs(p)[b] = Sums(d)[n] /\ QueueRefs(q)[b] = Sums(e)[n - 1]
  BY <1>1, QueueRefsType
<1>. HIDE DEF d, e, n
<1>4. d # <<>> /\ Head(d) = d[1] /\ Tail(d) \in Seq(Nat) /\ Len(Tail(d)) = n - 1
      /\ \A k \in 1 .. n - 1 : Tail(d)[k] = d[k + 1]
  BY <1>1, <1>2, EmptySeq, HeadTailProperties
<1>5. \A k \in 1 .. n - 1 : Tail(d)[k] = e[k]
  <2>1. \A k \in 1 .. n - 1 : k + 1 \in 1 .. n
    BY <1>1
  <2>. QED BY <1>1, <1>2, <1>4, <2>1
<1>6. Sums(d)[n] = Head(d) + Sums(Tail(d))[n - 1]
  <2>1. n \in 1 .. Len(d)
    BY <1>1, <1>2
  <2>. QED BY <1>2, <1>4, <2>1, SumsTail
<1>7. \A i \in 0 .. n - 1 : Sums(Tail(d))[i] = Sums(e)[i]
  <2>1. n - 1 \in Nat /\ n - 1 <= Len(Tail(d)) /\ n - 1 <= Len(e)
    BY <1>1, <1>2, <1>4
  <2>. QED BY <1>2, <1>4, <1>5, <2>1, SumsAgree
<1>8. Sums(d)[n] = RefsOf(Head(p))[b] + Sums(e)[n - 1]
  <2>1. n - 1 \in 0 .. n - 1 /\ 1 \in 1 .. n
    BY <1>1
  <2>. QED BY <1>1, <1>2, <1>4, <1>6, <1>7, <2>1
<1>. QED BY <1>3, <1>8 DEF q

(* Blocks are larger than their own header. *)
LEMMA BlockSizes == \A f \in 0 .. MaxFactor : BlockSize[f] \in Nat /\ BlockSize[f] > HiddenSize
<1>. DEFINE n == MaxFactor
            F == [i \in 1 .. n |-> [x \in Nat |-> 2 * x]]
            bs == CHOOSE g : g = [f \in 0 .. MaxFactor |-> IF f = 0 THEN BaseSize ELSE 2 * g[f - 1]]
<1>0. n \in Nat /\ BaseSize \in Nat /\ HiddenSize \in Nat /\ BaseSize > HiddenSize
  BY WriteSizeAssumption
<1>1. F \in [1 .. n -> [Nat -> Nat]]
  OBVIOUS
<1>. HIDE DEF n
<1>2. PICK g \in [0 .. n -> Nat] : g[0] = BaseSize /\ \A i \in 1 .. n : g[i] = F[i][g[i - 1]]
  <2>. HIDE DEF F
  <2>1. Solvable(Nat, BaseSize, n, F)
    BY <1>0, <1>1, RecursionExists
  <2>. QED BY <2>1 DEF Solvable
<1>3. ASSUME NEW i \in 1 .. n PROVE g[i] = 2 * g[i - 1]
  <2>1. g[i - 1] \in Nat
    BY <1>0
  <2>2. F[i][g[i - 1]] = 2 * g[i - 1]
    BY <2>1
  <2>. QED BY <1>2, <2>2
<1>4. g = [i \in 0 .. n |-> IF i = 0 THEN BaseSize ELSE 2 * g[i - 1]]
  <2>. HIDE DEF F
  <2>. QED BY <1>0, <1>2, <1>3
<1>5. bs = [f \in 0 .. n |-> IF f = 0 THEN BaseSize ELSE 2 * bs[f - 1]]
  BY <1>4, Zenon DEF n
<1>6. BlockSize = bs
  BY DEF BlockSize
<1>. HIDE DEF bs, F
<1>7. bs[0] = BaseSize /\ \A i \in 1 .. n : bs[i] = 2 * bs[i - 1]
  BY <1>0, <1>5
<1>. DEFINE T == { i \in 0 .. n : bs[i] \in Nat /\ bs[i] > HiddenSize }
<1>8. ASSUME NEW i \in 1 .. n, i - 1 \in T PROVE i \in T
  <2>1. bs[i - 1] \in Nat /\ bs[i - 1] > HiddenSize /\ bs[i] = 2 * bs[i - 1] /\ i \in 0 .. n
    BY <1>0, <1>7, <1>8
  <2>. QED BY <1>0, <2>1
<1>9. 0 \in T
  BY <1>0, <1>7
<1>10. \A i \in 0 .. n : i \in T
  <2>. HIDE DEF T
  <2>. QED BY <1>0, <1>8, <1>9, UpTo
<1>. QED BY <1>6, <1>10 DEF n

(* SwapOut() keeps the handles that have bytes, each at its offset. *)
KeptFrom(ks, hs, n) ==
    /\ ks \in Seq(WriteHandles)
    /\ \A j \in 1 .. Len(ks) :
          /\ ks[j].size > 0
          /\ \E i \in 1 .. n : ks[j] = hs[i] /\ Offset(ks, j) = Offset(hs, i)
    /\ Total(ks) = Offset(hs, n + 1)
    /\ \A b \in Blocks : RefsOf(ks)[b] <= RefsOf(SubSeq(hs, 1, n))[b]

(* SwapOut() keeps the handles with bytes, in their order. *)
LEMMA SwapOutKeeps ==
    ASSUME NEW hs \in Seq(WriteHandles)
    PROVE  KeptFrom(SwapOut(hs), hs, Len(hs))
<1>. DEFINE n == Len(hs)
            S == Seq(WriteHandles)
            F == [i \in 1 .. n |-> [ks \in S |-> IF hs[i].size > 0 THEN Append(ks, hs[i]) ELSE ks]]
            kept == CHOOSE g : g = [i \in 0 .. Len(hs) |->
                       IF i = 0 THEN <<>>
                       ELSE IF hs[i].size > 0 THEN Append(g[i - 1], hs[i])
                       ELSE g[i - 1]]
<1>0. n \in Nat /\ DOMAIN hs = 1 .. n /\ (\A i \in 1 .. n : hs[i] \in WriteHandles) /\ <<>> \in S
  OBVIOUS
<1>. HIDE DEF n
<1>1. F \in [1 .. n -> [S -> S]]
  <2>1. ASSUME NEW i \in 1 .. n, NEW ks \in S
        PROVE  (IF hs[i].size > 0 THEN Append(ks, hs[i]) ELSE ks) \in S
    BY <1>0
  <2>. HIDE DEF S
  <2>. QED BY <2>1
<1>2. PICK g \in [0 .. n -> S] : g[0] = <<>> /\ \A i \in 1 .. n : g[i] = F[i][g[i - 1]]
  <2>. HIDE DEF F, S
  <2>1. Solvable(S, <<>>, n, F)
    BY <1>0, <1>1, RecursionExists
  <2>. QED BY <2>1 DEF Solvable
<1>3. ASSUME NEW i \in 1 .. n
      PROVE  g[i] = IF hs[i].size > 0 THEN Append(g[i - 1], hs[i]) ELSE g[i - 1]
  <2>. HIDE DEF S
  <2>1. g[i - 1] \in S
    BY <1>0
  <2>2. F[i][g[i - 1]] = IF hs[i].size > 0 THEN Append(g[i - 1], hs[i]) ELSE g[i - 1]
    BY <2>1
  <2>. QED BY <1>2, <2>2
<1>4. g = [i \in 0 .. n |-> IF i = 0 THEN <<>>
                            ELSE IF hs[i].size > 0 THEN Append(g[i - 1], hs[i])
                            ELSE g[i - 1]]
  <2>. HIDE DEF F, S
  <2>1. ASSUME NEW i \in 0 .. n
        PROVE  g[i] = IF i = 0 THEN <<>>
                      ELSE IF hs[i].size > 0 THEN Append(g[i - 1], hs[i])
                      ELSE g[i - 1]
    <3>1. CASE i = 0
      BY <1>2, <3>1
    <3>2. CASE i # 0
      <4>1. i \in 1 .. n
        BY <1>0, <3>2
      <4>. QED BY <1>3, <3>2, <4>1
    <3>. QED BY <3>1, <3>2
  <2>. QED BY <2>1
<1>5. kept = [i \in 0 .. n |-> IF i = 0 THEN <<>>
                               ELSE IF hs[i].size > 0 THEN Append(kept[i - 1], hs[i])
                               ELSE kept[i - 1]]
  BY <1>4, Zenon DEF n
<1>6. SwapOut(hs) = kept[n]
  BY DEF SwapOut, n
<1>. HIDE DEF kept, F, S
<1>7. /\ kept[0] = <<>>
      /\ \A i \in 1 .. n : kept[i] = IF hs[i].size > 0 THEN Append(kept[i - 1], hs[i])
                                     ELSE kept[i - 1]
  <2>1. \A i \in 0 .. n : kept[i] = IF i = 0 THEN <<>>
                                    ELSE IF hs[i].size > 0 THEN Append(kept[i - 1], hs[i])
                                    ELSE kept[i - 1]
    BY <1>5, Zenon
  <2>2. 0 \in 0 .. n /\ \A i \in 1 .. n : i \in 0 .. n /\ i # 0
    BY <1>0
  <2>. QED BY <2>1, <2>2, Zenon
<1>. DEFINE T == { i \in 0 .. n : KeptFrom(kept[i], hs, i) }
<1>8. KeptFrom(<<>>, hs, 0)
  <2>1. <<>> \in Seq(WriteHandles) /\ Len(<<>>) = 0
    OBVIOUS
  <2>2. Total(<<>>) = 0 /\ Offset(hs, 0 + 1) = 0
    <3>1. Offset(<<>>, 1) = 0 /\ Total(<<>>) = Offset(<<>>, 0 + 1)
      BY <2>1, Offsets
    <3>2. Offset(hs, 1) = 0
      BY Offsets
    <3>. QED BY <3>1, <3>2
  <2>3. SubSeq(hs, 1, 0) = <<>>
    OBVIOUS
  <2>4. \A b \in Blocks : RefsOf(<<>>)[b] <= RefsOf(<<>>)[b]
    BY RefsEmpty
  <2>5. ASSUME NEW j \in 1 .. Len(<<>>) PROVE FALSE
    BY <2>1
  <2>6. \A b \in Blocks : RefsOf(<<>>)[b] <= RefsOf(SubSeq(hs, 1, 0))[b]
    BY <2>3, <2>4
  <2>7. Total(<<>>) = Offset(hs, 0 + 1)
    BY <2>2
  <2>. QED BY <2>1, <2>5, <2>6, <2>7, Zenon DEF KeptFrom
<1>9. ASSUME NEW i \in 1 .. n, KeptFrom(kept[i - 1], hs, i - 1) PROVE KeptFrom(kept[i], hs, i)
  <2>. DEFINE ks == kept[i - 1]
              h == hs[i]
              before == SubSeq(hs, 1, i - 1)
              upto == SubSeq(hs, 1, i)
  <2>1. /\ ks \in Seq(WriteHandles)
        /\ \A j \in 1 .. Len(ks) : /\ ks[j].size > 0
                                   /\ \E m \in 1 .. i - 1 : /\ ks[j] = hs[m]
                                                            /\ Offset(ks, j) = Offset(hs, m)
        /\ Total(ks) = Offset(hs, i)
        /\ \A b \in Blocks : RefsOf(ks)[b] <= RefsOf(before)[b]
    BY <1>9 DEF KeptFrom
  <2>2. h \in WriteHandles /\ h.size \in Nat /\ h.block \in Blocks
    BY <1>0 DEF WriteHandles
  <2>3. before \in Seq(WriteHandles) /\ upto \in Seq(WriteHandles) /\ upto = Append(before, h)
    BY <1>0 DEF n
  <2>4. ASSUME NEW b \in Blocks
        PROVE  /\ RefsOf(upto)[b] = RefsOf(before)[b] + (IF h.block = b THEN 1 ELSE 0)
               /\ RefsOf(before)[b] \in Nat /\ RefsOf(ks)[b] \in Nat
               /\ RefsOf(ks)[b] <= RefsOf(before)[b]
    <3>. HIDE DEF ks, h, before, upto
    <3>1. RefsOf(before)[b] \in Nat /\ RefsOf(ks)[b] \in Nat
      BY <2>1, <2>3, RefsType
    <3>2. RefsOf(Append(before, h))[b] = RefsOf(before)[b] + (IF h.block = b THEN 1 ELSE 0)
      BY <2>2, <2>3, RefsAppend
    <3>. QED BY <2>1, <2>3, <3>1, <3>2
  <2>5. Offset(hs, i + 1) = Offset(hs, i) + h.size /\ Offset(hs, i) \in Nat
    BY <1>0, Offsets DEF n
  <2>6. \A m \in 1 .. i - 1 : m \in 1 .. i
    BY <1>0
  <2>7. CASE h.size > 0
    <3>. DEFINE ls == Append(ks, h)
    <3>1. kept[i] = ls
      BY <1>7, <2>7
    <3>2. /\ ls \in Seq(WriteHandles) /\ Len(ls) = Len(ks) + 1 /\ Len(ks) \in Nat
          /\ \A j \in 1 .. Len(ks) : ls[j] = ks[j]
          /\ ls[Len(ks) + 1] = h
          /\ \A j \in 1 .. Len(ks) + 1 : Offset(ls, j) = Offset(ks, j)
          /\ Total(ls) = Total(ks) + h.size
      BY <2>1, <2>2, OffsetsAppend
    <3>3. Total(ks) = Offset(ks, Len(ks) + 1)
      BY <2>1, Offsets
    <3>. HIDE DEF ls, ks, h, before, upto
    <3>4. ASSUME NEW j \in 1 .. Len(ls)
          PROVE  ls[j].size > 0 /\ \E m \in 1 .. i : ls[j] = hs[m] /\ Offset(ls, j) = Offset(hs, m)
      <4>1. CASE j \in 1 .. Len(ks)
        <5>1. PICK m \in 1 .. i - 1 : ks[j] = hs[m] /\ Offset(ks, j) = Offset(hs, m)
          BY <2>1, <4>1
        <5>2. ls[j] = ks[j] /\ Offset(ls, j) = Offset(ks, j) /\ ks[j].size > 0
          BY <2>1, <3>2, <4>1
        <5>. QED BY <2>6, <5>1, <5>2
      <4>2. CASE j = Len(ks) + 1
        <5>1. ls[j] = hs[i] /\ Offset(ls, j) = Offset(hs, i) /\ ls[j].size > 0
          BY <2>1, <2>7, <3>2, <3>3, <4>2 DEF h
        <5>. QED BY <5>1
      <4>. QED BY <3>2, <4>1, <4>2
    <3>5. Total(ls) = Offset(hs, i + 1)
      BY <2>1, <2>5, <3>2
    <3>6. ASSUME NEW b \in Blocks PROVE RefsOf(ls)[b] <= RefsOf(upto)[b]
      <4>1. RefsOf(ls)[b] = RefsOf(ks)[b] + (IF h.block = b THEN 1 ELSE 0)
        BY <2>1, <2>2, RefsAppend DEF ls
      <4>. QED BY <2>4, <4>1
    <3>. QED BY <3>1, <3>2, <3>4, <3>5, <3>6 DEF KeptFrom, upto
  <2>8. CASE ~(h.size > 0)
    <3>1. kept[i] = ks /\ h.size = 0
      BY <1>7, <2>2, <2>8
    <3>. HIDE DEF ks, h, before, upto
    <3>2. ASSUME NEW j \in 1 .. Len(ks)
          PROVE  ks[j].size > 0 /\ \E m \in 1 .. i : ks[j] = hs[m] /\ Offset(ks, j) = Offset(hs, m)
      BY <2>1, <2>6
    <3>3. Total(ks) = Offset(hs, i + 1)
      BY <2>1, <2>5, <3>1
    <3>4. ASSUME NEW b \in Blocks PROVE RefsOf(ks)[b] <= RefsOf(upto)[b]
      BY <2>4
    <3>. QED BY <2>1, <3>1, <3>2, <3>3, <3>4 DEF KeptFrom, upto
  <2>. QED BY <2>7, <2>8
<1>10. \A i \in 0 .. n : i \in T
  <2>1. 0 \in T
    BY <1>0, <1>7, <1>8
  <2>2. ASSUME NEW i \in 1 .. n, i - 1 \in T PROVE i \in T
    <3>1. KeptFrom(kept[i - 1], hs, i - 1)
      BY <2>2
    <3>. QED BY <1>9, <3>1
  <2>. HIDE DEF T
  <2>. QED BY <1>0, <2>1, <2>2, UpTo
<1>11. KeptFrom(kept[n], hs, n)
  BY <1>0, <1>10
<1>. QED BY <1>6, <1>11 DEF n
-----------------------------------------------------------------------------
(* Steps of the buffer *)

(* The parts of a frame are sequences of bytes. *)
LEMMA BytesType ==
    ASSUME begun \in Nat, NEW part \in {"header", "meta", "head", "body", "chunk"}, NEW n \in Nat,
           NEW says \in Said
    PROVE  Bytes(part, n, says) \in Seq(Byte) /\ Len(Bytes(part, n, says)) = n
<1>1. \A i \in 1 .. n : <<begun, part, i, says>> \in Byte
  BY DEF Byte
<1>2. Bytes(part, n, says) = [i \in 1 .. n |-> <<begun, part, i, says>>]
  BY DEF Bytes
<1>. HIDE DEF Bytes
<1>. QED BY <1>1, <1>2

(* A message that waits holds no more than all that wait. *)
LEMMA QueueRefsOne ==
    ASSUME NEW q \in Seq(Seq(WriteHandles)), NEW b \in Blocks, NEW k \in DOMAIN q
    PROVE  RefsOf(q[k])[b] <= QueueRefs(q)[b]
<1>. DEFINE d == QueueCounts(q, b)
            n == Len(q)
            T == { i \in 0 .. n : k <= i => d[k] <= Sums(d)[i] }
<1>1. /\ d \in Seq(Nat) /\ Len(d) = n /\ n \in Nat /\ k \in 1 .. n
      /\ d[k] = RefsOf(q[k])[b] /\ QueueRefs(q)[b] = Sums(d)[n]
  <2>1. d \in Seq(Nat) /\ Len(d) = n /\ n \in Nat /\ \A i \in 1 .. n : d[i] = RefsOf(q[i])[b]
    BY CountsType
  <2>2. k \in 1 .. n
    OBVIOUS
  <2>3. QueueRefs(q)[b] = Sums(d)[n]
    BY QueueRefsType
  <2>. QED BY <2>1, <2>2, <2>3
<1>2. /\ \A i \in 0 .. n : Sums(d)[i] \in Nat
      /\ \A i \in 1 .. n : Sums(d)[i] = Sums(d)[i - 1] + d[i] /\ d[i] \in Nat
  <2>. HIDE DEF d, n
  <2>1. \A i \in 1 .. n : d[i] \in Nat
    BY <1>1
  <2>. QED BY <1>1, <2>1, SumsValue
<1>. HIDE DEF d, n
<1>3. 0 \in T
  BY <1>1
<1>4. ASSUME NEW i \in 1 .. n, i - 1 \in T PROVE i \in T
  <2>1. i - 1 \in 0 .. n /\ i \in 0 .. n /\ Sums(d)[i - 1] \in Nat /\ d[i] \in Nat
        /\ Sums(d)[i] = Sums(d)[i - 1] + d[i] /\ d[k] \in Nat
    BY <1>1, <1>2
  <2>2. CASE k = i
    BY <2>1, <2>2
  <2>3. CASE k # i
    <3>1. k <= i => k <= i - 1
      BY <1>1, <2>1, <2>3
    <3>2. k <= i - 1 => d[k] <= Sums(d)[i - 1]
      BY <1>4
    <3>. QED BY <2>1, <3>1, <3>2
  <2>. QED BY <2>2, <2>3
<1>5. \A i \in 0 .. n : i \in T
  <2>. HIDE DEF T
  <2>. QED BY <1>1, <1>3, <1>4, UpTo
<1>6. d[k] <= Sums(d)[n]
  BY <1>1, <1>5
<1>. QED BY <1>1, <1>6

(* The blocks of all handles have references. *)
LEMMA HandlesOwned ==
    ASSUME NEW bs \in Seq(WriteHandles), NEW cs \in Seq(WriteHandles),
           NEW q \in Seq(Seq(WriteHandles)), NEW ss \in Seq(WriteHandles),
           NEW h \in HandlesOf(bs, cs, q, ss)
    PROVE  /\ h \in WriteHandles
           /\ OwnedBy(bs, cs, q, ss, h.block) \in Nat /\ OwnedBy(bs, cs, q, ss, h.block) >= 1
<1>1. ASSUME NEW b \in Blocks
      PROVE  /\ RefsOf(bs)[b] \in Nat /\ RefsOf(cs)[b] \in Nat /\ QueueRefs(q)[b] \in Nat
             /\ RefsOf(ss)[b] \in Nat
             /\ OwnedBy(bs, cs, q, ss, b) \in Nat
             /\ RefsOf(bs)[b] <= OwnedBy(bs, cs, q, ss, b) /\ RefsOf(cs)[b] <= OwnedBy(bs, cs, q, ss, b)
             /\ QueueRefs(q)[b] <= OwnedBy(bs, cs, q, ss, b) /\ RefsOf(ss)[b] <= OwnedBy(bs, cs, q, ss, b)
  <2>1. RefsOf(bs)[b] \in Nat /\ RefsOf(cs)[b] \in Nat /\ QueueRefs(q)[b] \in Nat
        /\ RefsOf(ss)[b] \in Nat
    BY RefsType, QueueRefsType
  <2>2. OwnedBy(bs, cs, q, ss, b) = RefsOf(bs)[b] + RefsOf(cs)[b] + QueueRefs(q)[b] + RefsOf(ss)[b]
    BY DEF OwnedBy
  <2>. QED BY <2>1, <2>2
<1>2. ASSUME NEW hs \in Seq(WriteHandles), h \in RangeOf(hs),
             \A b \in Blocks : RefsOf(hs)[b] <= OwnedBy(bs, cs, q, ss, b)
      PROVE  h \in WriteHandles /\ OwnedBy(bs, cs, q, ss, h.block) \in Nat /\ OwnedBy(bs, cs, q, ss, h.block) >= 1
  <2>1. PICK i \in DOMAIN hs : h = hs[i]
    BY <1>2 DEF RangeOf
  <2>2. h.block \in Blocks /\ RefsOf(hs)[h.block] >= 1
    BY <2>1, RefsSome
  <2>3. RefsOf(hs)[h.block] \in Nat
    BY <2>2, RefsType
  <2>4. h \in WriteHandles
    BY <2>1
  <2>5. RefsOf(hs)[h.block] <= OwnedBy(bs, cs, q, ss, h.block) /\ OwnedBy(bs, cs, q, ss, h.block) \in Nat
    BY <1>1, <1>2, <2>2
  <2>. QED BY <2>2, <2>3, <2>4, <2>5
<1>3. CASE h \in RangeOf(bs)
  <2>1. \A b \in Blocks : RefsOf(bs)[b] <= OwnedBy(bs, cs, q, ss, b)
    BY <1>1
  <2>. QED BY <1>2, <1>3, <2>1
<1>4. CASE h \in RangeOf(cs)
  <2>1. \A b \in Blocks : RefsOf(cs)[b] <= OwnedBy(bs, cs, q, ss, b)
    BY <1>1
  <2>. QED BY <1>2, <1>4, <2>1
<1>5. CASE h \in RangeOf(ss)
  <2>1. \A b \in Blocks : RefsOf(ss)[b] <= OwnedBy(bs, cs, q, ss, b)
    BY <1>1
  <2>. QED BY <1>2, <1>5, <2>1
<1>6. ASSUME NEW k \in DOMAIN q, h \in RangeOf(q[k])
      PROVE  h \in WriteHandles /\ OwnedBy(bs, cs, q, ss, h.block) \in Nat /\ OwnedBy(bs, cs, q, ss, h.block) >= 1
  <2>1. q[k] \in Seq(WriteHandles)
    OBVIOUS
  <2>2. ASSUME NEW b \in Blocks PROVE RefsOf(q[k])[b] <= OwnedBy(bs, cs, q, ss, b)
    <3>1. RefsOf(q[k])[b] <= QueueRefs(q)[b]
      BY QueueRefsOne
    <3>2. RefsOf(q[k])[b] \in Nat
      BY <2>1, RefsType
    <3>. QED BY <1>1, <3>1, <3>2
  <2>. QED BY <1>2, <1>6, <2>1, <2>2
<1>. QED BY <1>3, <1>4, <1>5, <1>6 DEF HandlesOf

(* What the lists hold of a block is a number. *)
LEMMA OwnedType ==
    ASSUME NEW bs \in Seq(WriteHandles), NEW cs \in Seq(WriteHandles),
           NEW q \in Seq(Seq(WriteHandles)), NEW ss \in Seq(WriteHandles), NEW b \in Blocks
    PROVE  OwnedBy(bs, cs, q, ss, b) \in Nat
BY RefsType, QueueRefsType DEF OwnedBy

(* A step that gives blocks away, and changes the bytes of others at most, *)
(* leaves every block in use with one owner.                                *)
LEMMA MemStep ==
    ASSUME ListsOK, ListsOK', MemOK, mem' \in [Blocks -> Seq(Byte)],
           \A b \in Blocks : refCount'[b] = Owned(b)' /\ refCount'[b] <= refCount[b],
           DOMAIN refCount' = Blocks, refCount' = [b \in Blocks |-> refCount'[b]],
           \A b \in Blocks : refCount'[b] > 0 => Len(mem'[b]) = Len(mem[b]),
           \A h \in AllHandles' : h.size <= Len(mem[h.block])
    PROVE  MemOK'
<1>1. ASSUME NEW b \in Blocks PROVE Owned(b)' \in Nat
  BY OwnedType DEF ListsOK, Owned
<1>2. refCount' \in [Blocks -> Nat]
  BY <1>1
<1>3. OneOwner'
  BY <1>1 DEF OneOwner, Owned, OwnedBy, MemOK
<1>4. ASSUME NEW h \in AllHandles' PROVE h.size <= Len(mem'[h.block])
  <2>1. h \in WriteHandles /\ Owned(h.block)' \in Nat /\ Owned(h.block)' >= 1
    BY HandlesOwned DEF ListsOK, Owned, AllHandles
  <2>2. h.block \in Blocks
    BY <2>1 DEF WriteHandles
  <2>. QED BY <2>1, <2>2
<1>. QED BY <1>2, <1>3, <1>4 DEF MemOK

(* The offsets grow. *)
LEMMA OffsetsGrow ==
    ASSUME NEW hs \in Seq(WriteHandles), NEW i \in 1 .. Len(hs) + 1
    PROVE  \A j \in i .. Len(hs) + 1 : Offset(hs, i) <= Offset(hs, j)
<1>. DEFINE n == Len(hs)
            T == { k \in 0 .. n : i <= k + 1 => Offset(hs, i) <= Offset(hs, k + 1) }
<1>1. /\ n \in Nat
      /\ \A k \in 1 .. n + 1 : Offset(hs, k) \in Nat
      /\ \A k \in 1 .. n : Offset(hs, k + 1) = Offset(hs, k) + hs[k].size /\ hs[k].size \in Nat
  BY Offsets, SizesType DEF WriteHandles
<1>. HIDE DEF n
<1>2. 0 \in T
  <2>1. i <= 0 + 1 => i = 0 + 1
    BY <1>1 DEF n
  <2>. QED BY <1>1, <2>1 DEF n
<1>3. ASSUME NEW k \in 1 .. n, k - 1 \in T PROVE k \in T
  <2>1. /\ (k - 1) + 1 = k /\ k \in 0 .. n /\ k + 1 \in 1 .. n + 1 /\ k \in 1 .. n + 1
        /\ i \in Nat /\ i \in 1 .. n + 1
    BY <1>1 DEF n
  <2>2. i <= k => Offset(hs, i) <= Offset(hs, k)
    BY <1>3, <2>1
  <2>3. /\ Offset(hs, k + 1) = Offset(hs, k) + hs[k].size /\ hs[k].size \in Nat
        /\ Offset(hs, k) \in Nat /\ Offset(hs, i) \in Nat /\ Offset(hs, k + 1) \in Nat
    BY <1>1, <2>1
  <2>4. CASE i = k + 1
    BY <2>1, <2>3, <2>4
  <2>5. CASE i # k + 1
    <3>1. i <= k + 1 => i <= k
      BY <1>1, <2>1, <2>5
    <3>. QED BY <2>1, <2>2, <2>3, <3>1
  <2>. QED BY <2>4, <2>5
<1>4. \A k \in 0 .. n : k \in T
  <2>. HIDE DEF T
  <2>. QED BY <1>1, <1>2, <1>3, UpTo
<1>5. ASSUME NEW j \in i .. n + 1 PROVE Offset(hs, i) <= Offset(hs, j)
  <2>1. j - 1 \in 0 .. n /\ (j - 1) + 1 = j /\ i <= j
    BY <1>1 DEF n
  <2>. QED BY <1>4, <2>1
<1>. QED BY <1>5 DEF n

(* What is left of the last block, and the size of a new one. *)
LEMMA RoomType ==
    ASSUME AsmOK, BufOK, MemOK
    PROVE  /\ Unused \in Nat /\ FreshSize \in Nat /\ FreshSize > 0
           /\ Room \in Nat /\ Room > 0
           /\ ~Full => /\ buf # <<>> /\ Len(buf) \in DOMAIN buf
                       /\ LastHandle \in WriteHandles /\ LastHandle \in AllHandles
                       /\ Room = Len(mem[LastHandle.block]) - LastHandle.size
           /\ Full => Room = FreshSize
<1>1. FreshSize \in Nat /\ FreshSize > 0
  <2>. DEFINE f == Least(MaxFactor, Len(buf) + factor)
  <2>1. Len(buf) \in Nat /\ factor \in Nat /\ MaxFactor \in Nat
    BY WriteSizeAssumption DEF AsmOK, BufOK
  <2>2. f \in 0 .. MaxFactor
    BY <2>1 DEF Least
  <2>. HIDE DEF f
  <2>3. BlockSize[f] \in Nat /\ BlockSize[f] > HiddenSize /\ HiddenSize \in Nat
    BY <2>2, BlockSizes, WriteSizeAssumption
  <2>4. FreshSize = BlockSize[f] - HiddenSize
    BY DEF FreshSize, f
  <2>. QED BY <2>3, <2>4
<1>2. ASSUME buf # <<>>
      PROVE  /\ Len(buf) \in DOMAIN buf /\ LastHandle \in WriteHandles /\ LastHandle \in AllHandles
             /\ Unused = Len(mem[LastHandle.block]) - LastHandle.size
             /\ Unused \in Nat
  <2>1. Len(buf) \in DOMAIN buf /\ LastHandle \in WriteHandles
    BY <1>2 DEF BufOK, LastHandle
  <2>2. LastHandle \in AllHandles
    BY <2>1 DEF AllHandles, HandlesOf, RangeOf, LastHandle
  <2>3. LastHandle.size <= Len(mem[LastHandle.block])
    BY <2>2 DEF MemOK
  <2>4. LastHandle.block \in Blocks /\ LastHandle.size \in Nat
    BY <2>1 DEF WriteHandles
  <2>5. Len(mem[LastHandle.block]) \in Nat
    BY <2>4 DEF MemOK
  <2>6. Unused = Len(mem[LastHandle.block]) - LastHandle.size
    BY <1>2 DEF Unused
  <2>. HIDE DEF LastHandle, Unused
  <2>. QED BY <2>1, <2>2, <2>3, <2>4, <2>5, <2>6
<1>3. buf = <<>> => Unused = 0
  BY DEF Unused
<1>4. Unused \in Nat
  BY <1>2, <1>3
<1>. QED BY <1>1, <1>2, <1>3, <1>4 DEF Room, Full

(* SetData() changes bytes and no lengths. *)
LEMMA SetDataType ==
    ASSUME MemOK, NEW at \in Nat, NEW bs \in Seq(Byte)
    PROVE  /\ SetData(at, bs) \in [Blocks -> Seq(Byte)]
           /\ \A b \in Blocks : Len(SetData(at, bs)[b]) = Len(mem[b])
<1>. DEFINE Places(b, o) == { i \in DOMAIN buf : /\ buf[i].block = b /\ o <= buf[i].size
                                                 /\ Offset(buf, i) + o - at \in DOMAIN bs }
            new(b, o) == IF Places(b, o) = {} THEN mem[b][o]
                         ELSE bs[Offset(buf, CHOOSE i \in Places(b, o) : TRUE) + o - at]
<1>1. SetData(at, bs) = [b \in Blocks |-> [o \in DOMAIN mem[b] |-> new(b, o)]]
  BY Zenon DEF SetData
<1>2. ASSUME NEW b \in Blocks, NEW o \in DOMAIN mem[b] PROVE new(b, o) \in Byte
  <2>1. CASE Places(b, o) = {}
    <3>1. mem[b][o] \in Byte
      BY DEF MemOK
    <3>. QED BY <2>1, <3>1
  <2>2. CASE Places(b, o) # {}
    <3>. DEFINE i == CHOOSE i \in Places(b, o) : TRUE
    <3>1. i \in Places(b, o)
      BY <2>2, Zenon
    <3>2. Offset(buf, i) + o - at \in DOMAIN bs
      BY <3>1
    <3>. HIDE DEF i
    <3>3. bs[Offset(buf, i) + o - at] \in Byte
      BY <3>2
    <3>. HIDE DEF Places
    <3>4. new(b, o) = bs[Offset(buf, i) + o - at]
      BY <2>2 DEF i
    <3>. HIDE DEF new
    <3>. QED BY <3>3, <3>4
  <2>. QED BY <2>1, <2>2
<1>. HIDE DEF new
<1>3. ASSUME NEW b \in Blocks
      PROVE  SetData(at, bs)[b] \in Seq(Byte) /\ Len(SetData(at, bs)[b]) = Len(mem[b])
  <2>1. mem[b] \in Seq(Byte)
    BY DEF MemOK
  <2>2. DOMAIN mem[b] = 1 .. Len(mem[b]) /\ Len(mem[b]) \in Nat
    BY <2>1
  <2>3. SetData(at, bs)[b] = [o \in 1 .. Len(mem[b]) |-> new(b, o)]
    BY <1>1, <2>2
  <2>4. [o \in 1 .. Len(mem[b]) |-> new(b, o)] \in [1 .. Len(mem[b]) -> Byte]
    BY <1>2, <2>2
  <2>. QED BY <2>2, <2>3, <2>4
<1>. QED BY <1>1, <1>3

(* A step that leaves the handles alone, and the sizes of the blocks. *)
LEMMA MemSame ==
    ASSUME MemOK, UNCHANGED <<refCount, buf, content, queue, sending>>,
           mem' \in [Blocks -> Seq(Byte)], \A b \in Blocks : Len(mem'[b]) = Len(mem[b]), ListsOK
    PROVE  MemOK'
<1>1. ASSUME NEW h \in AllHandles' PROVE h.size <= Len(mem'[h.block])
  <2>1. h \in AllHandles
    BY DEF AllHandles
  <2>2. h \in WriteHandles
    BY <2>1, HandlesOwned DEF AllHandles, ListsOK
  <2>3. h.block \in Blocks
    BY <2>2 DEF WriteHandles
  <2>4. h.size <= Len(mem[h.block])
    BY <2>1 DEF MemOK
  <2>. QED BY <2>3, <2>4
<1>2. OneOwner'
  BY DEF MemOK, OneOwner
<1>. QED BY <1>1, <1>2 DEF MemOK

(* The last handle of the buffer grows or shrinks. *)
LEMMA BufResized ==
    ASSUME buf \in Seq(WriteHandles), buf # <<>>, NEW m \in Nat,
           buf' = [buf EXCEPT ![Len(buf)].size = m]
    PROVE  /\ buf' \in Seq(WriteHandles) /\ buf' # <<>>
           /\ LastHandle' = [block |-> LastHandle.block, size |-> m]
           /\ Total(buf') = Total(buf) - LastHandle.size + m /\ Total(buf') \in Nat
           /\ RefsOf(buf') = RefsOf(buf)
           /\ AllHandles' \subseteq HandlesOf(buf, content', queue', sending') \cup {LastHandle'}
<1>. DEFINE k == Len(buf)
            gs == [buf EXCEPT ![k].size = m]
<1>2. buf' = gs
  OBVIOUS
<1>2a. gs = Resized(buf, m)
  <2>1. k \in Nat /\ DOMAIN buf = 1 .. k /\ k \in 1 .. k /\ buf[k] \in WriteHandles
    OBVIOUS
  <2>2. [buf[k] EXCEPT !.size = m] = [block |-> buf[k].block, size |-> m]
    BY <2>1 DEF WriteHandles
  <2>3. gs = [i \in 1 .. k |-> IF i = k THEN [buf[k] EXCEPT !.size = m] ELSE buf[i]]
    BY <2>1
  <2>. QED BY <2>2, <2>3 DEF Resized
<1>. HIDE DEF gs
<1>1. /\ gs \in Seq(WriteHandles) /\ Len(gs) = k /\ gs # <<>>
      /\ \A i \in 1 .. k : gs[i].block = buf[i].block
      /\ \A i \in 1 .. k - 1 : gs[i] = buf[i]
      /\ gs[k] = [block |-> buf[k].block, size |-> m]
      /\ Total(gs) = Total(buf) - buf[k].size + m
  BY <1>2a, OffsetsResize
<1>3. k \in Nat /\ DOMAIN buf = 1 .. k /\ DOMAIN gs = 1 .. k
  BY <1>1
<1>4. Total(gs) \in Nat
  BY <1>1, Offsets
<1>5. LastHandle = buf[k] /\ LastHandle' = gs[k]
  BY <1>1, <1>2 DEF LastHandle
<1>6. RefsOf(gs) = RefsOf(buf)
  <2>. HIDE DEF k
  <2>. QED BY <1>1, <1>3, RefsSame
<1>. HIDE DEF k
<1>7. RangeOf(gs) \subseteq RangeOf(buf) \cup {gs[k]}
  <2>1. ASSUME NEW i \in 1 .. k PROVE gs[i] \in RangeOf(buf) \cup {gs[k]}
    <3>1. i # k => i \in 1 .. k - 1
      BY <1>3
    <3>2. i # k => gs[i] = buf[i]
      BY <1>1, <3>1
    <3>3. buf[i] \in RangeOf(buf)
      BY <1>3 DEF RangeOf
    <3>. QED BY <3>2, <3>3
  <2>. QED BY <1>3, <2>1 DEF RangeOf
<1>8. AllHandles' \subseteq HandlesOf(buf, content', queue', sending') \cup {LastHandle'}
  BY <1>2, <1>5, <1>7 DEF AllHandles, HandlesOf
<1>. QED BY <1>1, <1>2, <1>4, <1>5, <1>6, <1>8

(* Next() and BackUp() give the buffer the bytes it asks for. *)
LEMMA TakeKeeps ==
    ASSUME AsmOK, BufOK, ListsOK, MemOK, NEW n \in Nat, n <= Room, Take(n),
           UNCHANGED <<content, queue, sending>>
    PROVE  /\ MemOK'
           /\ buf' \in Seq(WriteHandles) /\ buf' # <<>>
           /\ writeBytes' = writeBytes + n /\ writeBytes' = Total(buf')
           /\ LastHandle'.size \in Nat /\ n <= LastHandle'.size
<1>1. /\ buf \in Seq(WriteHandles) /\ writeBytes \in Nat /\ writeBytes = Total(buf)
      /\ content \in Seq(WriteHandles) /\ queue \in Seq(Seq(WriteHandles))
      /\ sending \in Seq(WriteHandles)
  BY DEF BufOK, ListsOK
<1>2. writeBytes' = writeBytes + n
  BY DEF Take
<1>3. CASE Full
  <2>. DEFINE h == [block |-> Fresh, size |-> n]
  <2>1. /\ { b \in Blocks : refCount[b] = 0 } # {}
        /\ buf' = Append(buf, h)
        /\ refCount' = [refCount EXCEPT ![Fresh] = 1]
        /\ mem' = [mem EXCEPT ![Fresh] = [i \in 1 .. FreshSize |-> Junk]]
    BY <1>3 DEF Take
  <2>2. Fresh \in Blocks /\ refCount[Fresh] = 0
    BY <2>1, Zenon DEF Fresh
  <2>3. h \in WriteHandles /\ h.size = n /\ h.block = Fresh
    BY <2>2 DEF WriteHandles
  <2>4. FreshSize \in Nat /\ n <= FreshSize
    BY <1>3, RoomType
  <2>. HIDE DEF h
  <2>5. /\ buf' \in Seq(WriteHandles) /\ Len(buf') = Len(buf) + 1 /\ Len(buf) \in Nat
        /\ \A i \in 1 .. Len(buf) : buf'[i] = buf[i]
        /\ buf'[Len(buf) + 1] = h
        /\ Total(buf') = Total(buf) + n
    <3>1. Len(buf) \in Nat
      BY <1>1
    <3>. QED BY <1>1, <2>1, <2>3, <3>1, OffsetsAppend
  <2>6. buf' # <<>> /\ LastHandle' = h
    BY <2>5 DEF LastHandle
  <2>7. \A b \in Blocks : RefsOf(buf')[b] = RefsOf(buf)[b] + (IF b = Fresh THEN 1 ELSE 0)
    BY <1>1, <2>1, <2>3, RefsAppend
  <2>8. refCount' \in [Blocks -> Nat] /\ refCount \in [Blocks -> Nat]
    BY <2>1 DEF MemOK
  <2>9. OneOwner'
    <3>1. ASSUME NEW b \in Blocks
          PROVE  /\ refCount'[b] = RefsOf(buf')[b] + RefsOf(content)[b] + QueueRefs(queue)[b]
                                     + RefsOf(sending)[b]
                 /\ refCount'[b] <= 1
      <4>1. /\ refCount[b] = RefsOf(buf)[b] + RefsOf(content)[b] + QueueRefs(queue)[b]
                               + RefsOf(sending)[b]
            /\ refCount[b] <= 1
        BY DEF MemOK, OneOwner
      <4>2. /\ RefsOf(buf)[b] \in Nat /\ RefsOf(content)[b] \in Nat
            /\ QueueRefs(queue)[b] \in Nat /\ RefsOf(sending)[b] \in Nat
        BY <1>1, RefsType, QueueRefsType
      <4>3. CASE b = Fresh
        <5>1. refCount'[b] = 1 /\ refCount[b] = 0 /\ RefsOf(buf')[b] = RefsOf(buf)[b] + 1
          BY <2>1, <2>2, <2>7, <2>8, <4>3
        <5>. QED BY <4>1, <4>2, <5>1
      <4>4. CASE b # Fresh
        <5>1. refCount'[b] = refCount[b] /\ RefsOf(buf')[b] = RefsOf(buf)[b] + 0
          BY <2>1, <2>7, <4>4
        <5>. QED BY <4>1, <4>2, <5>1
      <4>. QED BY <4>3, <4>4
    <3>. QED BY <3>1 DEF OneOwner
  <2>10. mem' \in [Blocks -> Seq(Byte)] /\ Len(mem'[Fresh]) = FreshSize
    <3>. DEFINE new == [i \in 1 .. FreshSize |-> Junk]
    <3>1. new \in Seq(Byte) /\ Len(new) = FreshSize
      <4>1. new \in [1 .. FreshSize -> Byte]
        BY DEF Byte
      <4>. QED BY <2>4, <4>1
    <3>. HIDE DEF new
    <3>2. mem' = [mem EXCEPT ![Fresh] = new]
      BY <2>1 DEF new
    <3>3. mem \in [Blocks -> Seq(Byte)]
      BY DEF MemOK
    <3>. QED BY <2>2, <3>1, <3>2, <3>3
  <2>11. ASSUME NEW g \in AllHandles' PROVE g.size <= Len(mem'[g.block])
    <3>1. g \in AllHandles \/ g = h
      <4>1. RangeOf(buf') \subseteq RangeOf(buf) \cup {h}
        <5>1. ASSUME NEW i \in DOMAIN buf' PROVE buf'[i] \in RangeOf(buf) \cup {h}
          <6>1. i \in 1 .. Len(buf) + 1
            BY <2>5
          <6>2. i \in 1 .. Len(buf) \/ i = Len(buf) + 1
            BY <2>5, <6>1
          <6>3. i \in 1 .. Len(buf) => buf[i] \in RangeOf(buf)
            BY <1>1 DEF RangeOf
          <6>. QED BY <2>5, <6>2, <6>3
        <5>. QED BY <5>1 DEF RangeOf
      <4>. QED BY <4>1 DEF AllHandles, HandlesOf
    <3>2. CASE g = h
      BY <2>3, <2>4, <2>10, <3>2
    <3>3. CASE g \in AllHandles
      <4>1. /\ g \in WriteHandles
            /\ OwnedBy(buf, content, queue, sending, g.block) >= 1
            /\ OwnedBy(buf, content, queue, sending, g.block) \in Nat
        BY <1>1, <3>3, HandlesOwned DEF AllHandles
      <4>2. g.block \in Blocks
        BY <4>1 DEF WriteHandles
      <4>3. refCount[g.block] = OwnedBy(buf, content, queue, sending, g.block)
        BY <4>2 DEF MemOK, OneOwner, OwnedBy
      <4>4. g.block # Fresh
        BY <2>2, <4>1, <4>3
      <4>5. mem'[g.block] = mem[g.block]
        BY <2>1, <4>2, <4>4 DEF MemOK
      <4>. QED BY <3>3, <4>5 DEF MemOK
    <3>. QED BY <3>1, <3>2, <3>3
  <2>12. MemOK'
    BY <2>8, <2>9, <2>10, <2>11 DEF MemOK
  <2>. QED BY <1>1, <1>2, <2>3, <2>5, <2>6, <2>12
<1>4. CASE ~Full
  <2>. DEFINE h == LastHandle
              m == h.size + n
  <2>1. buf' = [buf EXCEPT ![Len(buf)].size = @ + n] /\ UNCHANGED <<mem, refCount>>
    BY <1>4 DEF Take
  <2>2. buf # <<>> /\ h \in WriteHandles /\ h \in AllHandles /\ Room = Len(mem[h.block]) - h.size
    BY <1>4, RoomType
  <2>3. h.size \in Nat /\ m \in Nat /\ h.block \in Blocks
    BY <2>2 DEF WriteHandles
  <2>4. buf' = [buf EXCEPT ![Len(buf)].size = m]
    BY <2>1 DEF LastHandle
  <2>5. /\ buf' \in Seq(WriteHandles) /\ buf' # <<>>
        /\ LastHandle' = [block |-> h.block, size |-> m]
        /\ Total(buf') = Total(buf) - h.size + m
        /\ RefsOf(buf') = RefsOf(buf)
        /\ AllHandles' \subseteq AllHandles \cup {LastHandle'}
    <3>. HIDE DEF m
    <3>. QED BY <1>1, <2>2, <2>3, <2>4, BufResized DEF AllHandles
  <2>. HIDE DEF h
  <2>6. Total(buf') = writeBytes + n
    BY <1>1, <2>3, <2>5
  <2>7. OneOwner'
    BY <2>1, <2>5 DEF MemOK, OneOwner
  <2>8. ASSUME NEW g \in AllHandles' PROVE g.size <= Len(mem'[g.block])
    <3>1. CASE g \in AllHandles
      BY <2>1, <3>1 DEF MemOK
    <3>2. CASE g = LastHandle'
      <4>1. g.size = m /\ g.block = h.block
        BY <2>5, <3>2
      <4>2. Len(mem[h.block]) \in Nat
        BY <2>3 DEF MemOK
      <4>. QED BY <2>1, <2>2, <2>3, <4>1, <4>2
    <3>. QED BY <2>5, <3>1, <3>2
  <2>9. MemOK'
    BY <2>1, <2>7, <2>8 DEF MemOK
  <2>10. LastHandle'.size \in Nat /\ n <= LastHandle'.size
    BY <2>3, <2>5
  <2>. QED BY <1>2, <2>5, <2>6, <2>9, <2>10
<1>. QED BY <1>3, <1>4

(* BackUp() takes back what the last handle has more than it needs. *)
LEMMA GiveBackKeeps ==
    ASSUME BufOK, ListsOK, MemOK, GiveBack, UNCHANGED <<mem, refCount, content, queue, sending>>
    PROVE  /\ MemOK'
           /\ buf' \in Seq(WriteHandles) /\ lastBytes' \in Nat
           /\ writeBytes' = writeBytes - room /\ writeBytes' \in Nat /\ writeBytes' = Total(buf')
<1>1. /\ buf \in Seq(WriteHandles) /\ writeBytes \in Nat /\ writeBytes = Total(buf)
      /\ room \in Nat /\ lastBytes \in Nat
  BY DEF BufOK
<1>2. CASE room = 0
  <2>1. UNCHANGED <<buf, writeBytes, lastBytes>>
    BY <1>2 DEF GiveBack
  <2>2. MemOK'
    BY <2>1 DEF MemOK, OneOwner, AllHandles
  <2>. QED BY <1>1, <1>2, <2>1, <2>2
<1>3. CASE room # 0
  <2>. DEFINE h == LastHandle
              m == h.size - room
  <2>1. /\ buf' = [buf EXCEPT ![Len(buf)].size = @ - room]
        /\ writeBytes' = writeBytes - room /\ lastBytes' = 0
    BY <1>3 DEF GiveBack
  <2>2. buf # <<>> /\ h \in WriteHandles /\ h \in AllHandles /\ room <= h.size
    <3>1. buf # <<>> /\ room <= h.size
      BY <1>1, <1>3 DEF BufOK
    <3>2. Len(buf) \in DOMAIN buf
      BY <1>1, <3>1
    <3>. QED BY <1>1, <3>1, <3>2 DEF LastHandle, AllHandles, HandlesOf, RangeOf
  <2>3. h.size \in Nat /\ m \in Nat /\ m <= h.size /\ h.block \in Blocks
    BY <1>1, <2>2 DEF WriteHandles
  <2>4. buf' = [buf EXCEPT ![Len(buf)].size = m]
    BY <2>1 DEF LastHandle
  <2>5. /\ buf' \in Seq(WriteHandles) /\ buf' # <<>>
        /\ LastHandle' = [block |-> h.block, size |-> m]
        /\ Total(buf') = Total(buf) - h.size + m /\ Total(buf') \in Nat
        /\ RefsOf(buf') = RefsOf(buf)
        /\ AllHandles' \subseteq AllHandles \cup {LastHandle'}
    <3>. HIDE DEF m
    <3>. QED BY <1>1, <2>2, <2>3, <2>4, BufResized DEF AllHandles
  <2>. HIDE DEF h
  <2>6. Total(buf') = writeBytes - room
    BY <1>1, <2>3, <2>5
  <2>7. OneOwner'
    BY <2>5 DEF MemOK, OneOwner
  <2>8. ASSUME NEW g \in AllHandles' PROVE g.size <= Len(mem'[g.block])
    <3>1. CASE g \in AllHandles
      BY <3>1 DEF MemOK
    <3>2. CASE g = LastHandle'
      <4>1. g.size = m /\ g.block = h.block
        BY <2>5, <3>2
      <4>2. h.size <= Len(mem[h.block])
        BY <2>2 DEF MemOK
      <4>3. Len(mem[h.block]) \in Nat
        BY <2>3 DEF MemOK
      <4>. QED BY <2>3, <4>1, <4>2, <4>3
    <3>. QED BY <2>5, <3>1, <3>2
  <2>9. MemOK'
    BY <2>7, <2>8 DEF MemOK
  <2>. QED BY <2>1, <2>5, <2>6, <2>9
<1>. QED BY <1>2, <1>3

(* No handles have no bytes. *)
LEMMA TotalEmpty == Total(<<>>) = 0
<1>1. <<>> \in Seq(WriteHandles) /\ Len(<<>>) + 1 = 1
  OBVIOUS
<1>. QED BY <1>1, Offsets

(* A piece of a sequence is a sequence. *)
LEMMA PartType ==
    ASSUME NEW S, NEW s \in Seq(S), NEW i \in Nat, i >= 1, NEW j \in Nat, j <= Len(s)
    PROVE  SubSeq(s, i, j) \in Seq(S)
<1>1. \A k \in i .. j : s[k] \in S
  OBVIOUS
<1>. QED BY <1>1, SubSeqProperties

(* The invariant types the four lists of handles. *)
LEMMA ListsTyped == ASSUME CountsInv PROVE ListsOK
BY DEF CountsInv, BufOK, NetOK, ListsOK

(* Steps that leave the lists, the counts and the contents alone. *)
LEMMA MemUnchanged ==
    ASSUME MemOK, UNCHANGED <<mem, refCount, buf, content, queue, sending>>
    PROVE  MemOK'
BY DEF MemOK, OneOwner, AllHandles

(* A step of the assembly leaves what is sent alone. *)
LEMMA NetUnchanged == ASSUME NetOK, UNCHANGED netVars PROVE NetOK'
BY DEF NetOK, netVars, sendVars

(* A new message starts with an empty buffer. *)
LEMMA BeginKeeps == ASSUME CountsInv, Begin PROVE CountsInv'
<1>. USE DEF CountsInv
<1>1. /\ step = "idle" /\ begun' = begun + 1
      /\ msg' \in [kind : MessageKinds, meta : MetaSizes, body : BodySizes]
      /\ factor' \in BaseFactors
      /\ buf' = <<>> /\ writeBytes' = 0 /\ lastBytes' = 0 /\ content' = <<>> /\ from' = 0
      /\ room' = 0 /\ encoded' = <<>> /\ out' = <<>>
      /\ \/ msg'.kind = "page" /\ step' = "append" /\ left' = 0
         \/ step' = "reserve" /\ left' = HeaderSize
      /\ UNCHANGED <<mem, refCount, eager, raw, chunk, metaSize, queue, sending>>
      /\ UNCHANGED netVars
  BY DEF Begin, chunkVars, netVars, sendVars
<1>2. buf = <<>> /\ content = <<>>
  BY <1>1 DEF Stage
<1>3. AsmOK'
  <2>0. msg'.kind \in MessageKinds /\ msg'.meta \in MetaSizes /\ msg'.body \in BodySizes
    BY <1>1
  <2>1. msg'.kind \in MessageKinds /\ msg'.meta \in Nat /\ msg'.body \in Nat /\ factor' \in Nat
        /\ HeaderSize \in Nat
    <3>1. MetaSizes \subseteq Nat /\ BodySizes \subseteq Nat /\ BaseFactors \subseteq Nat
          /\ HeaderSize \in Nat
      BY WriteSizeAssumption
    <3>. QED BY <1>1, <2>0, <3>1
  <2>2. msg' \in [kind : MessageKinds \cup {"plain"}, meta : Nat, body : Nat]
    BY <1>1, <2>1
  <2>3. left' \in Nat /\ step' \in WriteSteps
    BY <1>1, <2>1 DEF WriteSteps
  <2>. QED BY <1>1, <2>1, <2>2, <2>3 DEF AsmOK
<1>4. BufOK'
  BY <1>1, TotalEmpty DEF BufOK
<1>5. NetOK'
  BY <1>1, NetUnchanged
<1>6. MemOK'
  BY <1>1, <1>2, MemUnchanged
<1>7. Stage'
  <2>1. msg'.meta > 0 /\ HeaderSize \in Nat
    <3>1. msg'.meta \in MetaSizes
      BY <1>1
    <3>2. HeaderSize \in Nat /\ \A k \in MetaSizes : k > 0
      BY WriteSizeAssumption
    <3>. QED BY <3>1, <3>2, Zenon
  <2>. QED BY <1>1, <2>1 DEF Stage
<1>. QED BY <1>3, <1>4, <1>5, <1>6, <1>7

(* A piece of a page asks for space only. *)
LEMMA AppendPieceKeeps == ASSUME CountsInv, AppendPiece PROVE CountsInv'
<1>. USE DEF CountsInv
<1>1. /\ step = "append" /\ writeBytes < msg.body
      /\ left' \in 1 .. msg.body - writeBytes /\ from' = writeBytes
      /\ out' = SubSeq(Bytes("body", msg.body, <<>>), writeBytes + 1, writeBytes + left')
      /\ UNCHANGED <<step, begun, msg, mem, refCount, factor, buf, writeBytes, lastBytes, content,
                     room, eager, raw, chunk, metaSize, encoded, queue, sending>>
      /\ UNCHANGED netVars
  BY DEF AppendPiece, chunkVars, netVars, sendVars, writeBufVars
<1>2. begun \in Nat /\ msg.body \in Nat /\ writeBytes \in Nat
  BY DEF AsmOK, BufOK
<1>3. AsmOK'
  <2>1. left' \in Nat /\ writeBytes + left' <= msg.body
    BY <1>1, <1>2
  <2>2. <<>> \in Said
    BY DEF Said
  <2>3. Bytes("body", msg.body, <<>>) \in Seq(Byte) /\ Len(Bytes("body", msg.body, <<>>)) = msg.body
    BY <1>2, <2>2, BytesType
  <2>4. out' \in Seq(Byte)
    <3>. DEFINE bs == Bytes("body", msg.body, <<>>)
                i == writeBytes + 1
                j == writeBytes + left'
    <3>. HIDE DEF bs
    <3>1. bs \in Seq(Byte) /\ Len(bs) = msg.body
      BY <2>3 DEF bs
    <3>2. i \in Nat /\ i >= 1 /\ j \in Nat /\ j <= Len(bs)
      <4>. DEFINE l == left'
      <4>1. l \in Nat /\ writeBytes + l <= msg.body
        BY <2>1
      <4>2. j = writeBytes + l
        OBVIOUS
      <4>. HIDE DEF l, j
      <4>. QED BY <1>2, <3>1, <4>1, <4>2
    <3>3. out' = SubSeq(bs, i, j)
      BY <1>1 DEF bs
    <3>. HIDE DEF i, j
    <3>. QED BY <3>1, <3>2, <3>3, PartType
  <2>. QED BY <1>1, <1>2, <2>1, <2>4 DEF AsmOK
<1>4. BufOK'
  BY <1>1 DEF BufOK, LastHandle
<1>5. NetOK'
  BY <1>1, NetUnchanged
<1>6. MemOK'
  BY <1>1, MemUnchanged
<1>7. Stage'
  BY <1>1 DEF Stage
<1>. QED BY <1>3, <1>4, <1>5, <1>6, <1>7

(* The header was reserved in full, so the buffer has its bytes. *)
LEMMA HeaderReservedKeeps == ASSUME CountsInv, HeaderReserved PROVE CountsInv'
<1>. USE DEF CountsInv
<1>1. /\ step = "reserve" /\ left = 0 /\ step' = "meta"
      /\ out' = Bytes("meta", msg.meta, <<>>) /\ eager' = TRUE
      /\ UNCHANGED <<begun, msg, mem, refCount, factor, buf, writeBytes, lastBytes, content,
                     from, left, room, raw, chunk, metaSize, encoded, queue, sending>>
      /\ UNCHANGED netVars
  BY DEF HeaderReserved, chunkVars, netVars, sendVars, writeBufVars
<1>2. begun \in Nat /\ msg.meta \in Nat /\ writeBytes \in Nat /\ HeaderSize \in Nat
  BY WriteSizeAssumption DEF AsmOK, BufOK
<1>3. AsmOK'
  <2>1. <<>> \in Said
    BY DEF Said
  <2>2. out' \in Seq(Byte)
    BY <1>1, <1>2, <2>1, BytesType
  <2>. QED BY <1>1, <1>2, <2>2 DEF AsmOK, WriteSteps
<1>4. BufOK'
  BY <1>1 DEF BufOK, LastHandle
<1>5. NetOK'
  BY <1>1, NetUnchanged
<1>6. MemOK'
  BY <1>1, MemUnchanged
<1>7. Stage'
  BY <1>1, <1>2 DEF Stage
<1>. QED BY <1>3, <1>4, <1>5, <1>6, <1>7

(* A piece is copied into blocks that keep their sizes. *)
LEMMA PieceReservedKeeps == ASSUME CountsInv, PieceReserved PROVE CountsInv'
<1>. USE DEF CountsInv
<1>1. /\ step = "append" /\ mem' = SetData(from, out) /\ encoded' = encoded \o out
      /\ out' = <<>>
      /\ UNCHANGED <<step, begun, msg, refCount, factor, buf, writeBytes, lastBytes, content,
                     from, left, room, eager, raw, chunk, metaSize, queue, sending>>
      /\ UNCHANGED netVars
  BY DEF PieceReserved, chunkVars, netVars, sendVars, writeBufVars
<1>2. from \in Nat /\ out \in Seq(Byte) /\ encoded \in Seq(Byte)
  BY DEF AsmOK
<1>3. AsmOK'
  BY <1>1, <1>2 DEF AsmOK
<1>4. BufOK'
  BY <1>1 DEF BufOK, LastHandle
<1>5. NetOK'
  BY <1>1, NetUnchanged
<1>6. MemOK'
  <2>1. /\ SetData(from, out) \in [Blocks -> Seq(Byte)]
        /\ \A b \in Blocks : Len(SetData(from, out)[b]) = Len(mem[b])
    BY <1>2, SetDataType
  <2>2. /\ mem' \in [Blocks -> Seq(Byte)]
        /\ \A b \in Blocks : Len(mem'[b]) = Len(mem[b])
    BY <1>1, <2>1
  <2>. QED BY <1>1, <2>2, MemSame, ListsTyped
<1>7. Stage'
  BY <1>1 DEF Stage
<1>. QED BY <1>3, <1>4, <1>5, <1>6, <1>7

(* The input buffer of a compressing stream is filled. *)
LEMMA FillChunkKeeps == ASSUME CountsInv, FillChunk PROVE CountsInv'
<1>. USE DEF CountsInv
<1>1. /\ step = "compress" /\ step' = "flush"
      /\ chunk' = Least(ChunkSize, raw) /\ raw' = raw - chunk'
      /\ UNCHANGED <<begun, msg, mem, refCount, factor, buf, writeBytes, lastBytes, content,
                     from, left, out, room, eager, metaSize, encoded, queue, sending>>
      /\ UNCHANGED netVars
  BY DEF FillChunk, streamVars, netVars, sendVars, writeBufVars
<1>2. AsmOK'
  <2>1. raw \in Nat /\ ChunkSize \in Nat
    BY WriteSizeAssumption DEF AsmOK
  <2>2. chunk' \in Nat /\ raw' \in Nat
    BY <1>1, <2>1 DEF Least
  <2>. QED BY <1>1, <2>2 DEF AsmOK, WriteSteps
<1>3. BufOK'
  BY <1>1 DEF BufOK, LastHandle
<1>4. NetOK'
  BY <1>1, NetUnchanged
<1>5. MemOK'
  BY <1>1, MemUnchanged
<1>6. Stage'
  BY <1>1 DEF Stage
<1>. QED BY <1>2, <1>3, <1>4, <1>5, <1>6

(* Flush() leaves bytes to be written, or aborts. *)
LEMMA FlushKeeps == ASSUME CountsInv, Flush PROVE CountsInv'
<1>. USE DEF CountsInv
<1>1. /\ step = "flush"
      /\ UNCHANGED <<begun, msg, mem, refCount, factor, buf, writeBytes, lastBytes, content,
                     from, left, room, eager, raw, chunk, metaSize, queue, sending>>
      /\ UNCHANGED netVars
  BY DEF Flush, chunkVars, netVars, sendVars, writeBufVars
<1>2. /\ step' \in {"aborted", "compress", "body"}
      /\ out' \in Seq(Byte) /\ encoded' \in Seq(Byte)
  <2>1. /\ begun \in Nat /\ msg.body \in Nat /\ raw \in Nat /\ chunk \in Nat
        /\ out \in Seq(Byte) /\ encoded \in Seq(Byte)
    BY DEF AsmOK
  <2>2. CASE chunk = 0
    BY <2>1, <2>2 DEF Flush
  <2>3. CASE chunk # 0
    <3>1. PICK n \in 1 .. chunk :
             /\ out' = Bytes("chunk", 1 + n, <<msg.body - raw - chunk, chunk>>)
             /\ encoded' = encoded \o out'
             /\ step' = IF raw > 0 THEN "compress" ELSE "body"
      BY <2>3 DEF Flush
    <3>2. <<msg.body - raw - chunk, chunk>> \in Said /\ 1 + n \in Nat
      BY <2>1 DEF Said
    <3>3. out' \in Seq(Byte)
      BY <2>1, <3>1, <3>2, BytesType
    <3>. QED BY <2>1, <3>1, <3>3
  <2>. QED BY <2>2, <2>3
<1>3. AsmOK'
  BY <1>1, <1>2 DEF AsmOK, WriteSteps
<1>4. BufOK'
  BY <1>1 DEF BufOK, LastHandle
<1>5. NetOK'
  BY <1>1, NetUnchanged
<1>6. MemOK'
  BY <1>1, MemUnchanged
<1>7. Stage'
  BY <1>1, <1>2 DEF Stage
<1>. QED BY <1>3, <1>4, <1>5, <1>6, <1>7

(* TranBufPool::free() of references that the lists no longer hold. *)
LEMMA FreeKeeps ==
    ASSUME ListsOK, ListsOK', MemOK, NEW freed, NEW contents \in [Blocks -> Seq(Byte)],
           Free(freed, contents), \A b \in Blocks : Len(contents[b]) = Len(mem[b]),
           \A b \in Blocks : freed[b] \in Nat /\ Owned(b) = Owned(b)' + freed[b],
           \A h \in AllHandles' : h.size <= Len(mem[h.block])
    PROVE  MemOK'
<1>1. /\ refCount' = [b \in Blocks |-> refCount[b] - freed[b]]
      /\ mem' = [b \in Blocks |-> IF refCount'[b] = 0 THEN <<>> ELSE contents[b]]
  BY DEF Free
<1>2. ASSUME NEW b \in Blocks
      PROVE  refCount'[b] = Owned(b)' /\ refCount'[b] <= refCount[b] /\ Owned(b)' \in Nat
  <2>. DEFINE new == Owned(b)'
              old == Owned(b)
  <2>1. new \in Nat /\ old \in Nat
    BY OwnedType DEF ListsOK, Owned
  <2>2. refCount[b] = old
    BY DEF MemOK, OneOwner, Owned, OwnedBy
  <2>3. freed[b] \in Nat /\ old = new + freed[b]
    OBVIOUS
  <2>4. refCount'[b] = refCount[b] - freed[b]
    BY <1>1
  <2>. HIDE DEF new, old
  <2>5. refCount'[b] = new
    <3>. DEFINE f == freed[b]
    <3>1. f \in Nat /\ old = new + f /\ refCount'[b] = old - f
      BY <2>2, <2>3, <2>4
    <3>. HIDE DEF f
    <3>2. old - f = new
      BY <2>1, <3>1
    <3>. QED BY <3>1, <3>2
  <2>6. new <= old
    BY <2>1, <2>3
  <2>. QED BY <2>1, <2>2, <2>5, <2>6 DEF new
<1>3. mem' \in [Blocks -> Seq(Byte)]
  <2>1. <<>> \in Seq(Byte)
    OBVIOUS
  <2>. QED BY <1>1, <2>1
<1>4. \A b \in Blocks : refCount'[b] > 0 => Len(mem'[b]) = Len(mem[b])
  BY <1>1, <1>2
<1>. QED BY <1>1, <1>2, <1>3, <1>4, MemStep

(* What the lists of a buffer and its content, and those of the connection, hold. *)
LEMMA OwnedParts ==
    ASSUME ListsOK, NEW b \in Blocks
    PROVE  /\ Owned(b) = RefsOf(buf)[b] + RefsOf(content)[b] + QueueRefs(queue)[b]
                           + RefsOf(sending)[b]
           /\ RefsOf(buf)[b] \in Nat /\ RefsOf(content)[b] \in Nat
           /\ QueueRefs(queue)[b] \in Nat /\ RefsOf(sending)[b] \in Nat
BY RefsType, QueueRefsType DEF ListsOK, Owned, OwnedBy

(* A message that fails gives back every block its buffers own. *)
LEMMA FailKeeps == ASSUME CountsInv, Fail PROVE CountsInv'
<1>. USE DEF CountsInv
<1>1. /\ Free(RefsOf(buf \o content), mem)
      /\ step' = "idle"
      /\ buf' = <<>> /\ content' = <<>> /\ writeBytes' = 0 /\ lastBytes' = 0
      /\ left' = 0 /\ out' = <<>> /\ room' = 0 /\ raw' = 0
      /\ UNCHANGED <<begun, msg, factor, from, eager, chunk, metaSize, encoded, queue, sending>>
      /\ UNCHANGED netVars
  BY DEF Fail, netVars, sendVars
<1>2. AsmOK'
  BY <1>1 DEF AsmOK, WriteSteps
<1>3. BufOK'
  BY <1>1, TotalEmpty DEF BufOK
<1>4. NetOK'
  BY <1>1, NetUnchanged
<1>5. MemOK'
  <2>1. ListsOK /\ ListsOK'
    <3>1. ListsOK
      BY ListsTyped
    <3>2. ListsOK'
      BY <1>1, <3>1 DEF ListsOK
    <3>. QED BY <3>1, <3>2
  <2>2. mem \in [Blocks -> Seq(Byte)]
    BY DEF MemOK
  <2>3. ASSUME NEW b \in Blocks
        PROVE  RefsOf(buf \o content)[b] \in Nat /\ Owned(b) = Owned(b)' + RefsOf(buf \o content)[b]
    <3>1. /\ RefsOf(buf \o content)[b] = RefsOf(buf)[b] + RefsOf(content)[b]
      BY <2>1, RefsConcat DEF ListsOK
    <3>2. /\ Owned(b) = RefsOf(buf)[b] + RefsOf(content)[b] + QueueRefs(queue)[b]
                          + RefsOf(sending)[b]
          /\ RefsOf(buf)[b] \in Nat /\ RefsOf(content)[b] \in Nat
          /\ QueueRefs(queue)[b] \in Nat /\ RefsOf(sending)[b] \in Nat
      BY <2>1, OwnedParts
    <3>3. Owned(b)' = 0 + 0 + QueueRefs(queue)[b] + RefsOf(sending)[b]
      BY <1>1, RefsEmpty DEF Owned, OwnedBy
    <3>. QED BY <3>1, <3>2, <3>3
  <2>4. ASSUME NEW h \in AllHandles' PROVE h.size <= Len(mem[h.block])
    <3>1. h \in AllHandles
      BY <1>1 DEF AllHandles, HandlesOf, RangeOf
    <3>. QED BY <3>1 DEF MemOK
  <2>. QED BY <1>1, <2>1, <2>2, <2>3, <2>4, FreeKeeps
<1>6. Stage'
  BY <1>1 DEF Stage
<1>. QED BY <1>2, <1>3, <1>4, <1>5, <1>6

(* Reserve() takes the least of what is left and what it needs. *)
LEMMA ReserveKeeps == ASSUME CountsInv, Reserve PROVE CountsInv'
<1>. USE DEF CountsInv
<1>. DEFINE n == Least(Room, left)
<1>1. CASE NoMemory /\ Fail
  BY <1>1, FailKeeps
<1>2. CASE /\ step \in {"reserve", "append"} /\ left > 0
           /\ Take(n)
           /\ lastBytes' = IF Room > left THEN 0 ELSE Room
           /\ left' = left - n
           /\ UNCHANGED <<step, begun, msg, factor, content, from, streamVars, chunkVars, metaSize,
                          encoded, netVars>>
  <2>1. UNCHANGED <<step, begun, msg, factor, content, from, out, room, eager, raw, chunk, metaSize,
                    encoded, queue, sending>> /\ UNCHANGED netVars
    BY <1>2 DEF streamVars, chunkVars, netVars, sendVars
  <2>2. Room \in Nat /\ left \in Nat /\ Room > 0
    BY RoomType DEF AsmOK
  <2>3. n \in Nat /\ n <= Room /\ n <= left /\ left - n \in Nat
    BY <2>2 DEF Least
  <2>. HIDE DEF n
  <2>4. /\ MemOK'
        /\ buf' \in Seq(WriteHandles) /\ buf' # <<>>
        /\ writeBytes' = writeBytes + n /\ writeBytes' = Total(buf')
    BY <1>2, <2>1, <2>3, TakeKeeps, ListsTyped
  <2>5. room = 0 /\ content = <<>> /\ step \in {"reserve", "append"}
    BY <1>2 DEF Stage
  <2>6. AsmOK'
    BY <1>2, <2>1, <2>3 DEF AsmOK
  <2>7. BufOK'
    <3>1. lastBytes' \in Nat /\ writeBytes + n \in Nat
      BY <1>2, <2>2, <2>3 DEF BufOK
    <3>. QED BY <2>1, <2>4, <2>5, <3>1 DEF BufOK
  <2>8. NetOK'
    BY <2>1, NetUnchanged
  <2>9. Stage'
    <3>1. writeBytes' + left' = writeBytes + left
      <4>1. writeBytes \in Nat
        BY DEF BufOK
      <4>2. (writeBytes + n) + (left - n) = writeBytes + left
        BY <2>2, <2>3, <4>1
      <4>. QED BY <1>2, <2>4, <4>2
    <3>2. step = "reserve" => writeBytes + left = HeaderSize
      BY DEF Stage
    <3>. QED BY <2>1, <2>5, <3>1, <3>2 DEF Stage
  <2>. QED BY <2>4, <2>6, <2>7, <2>8, <2>9
<1>. QED BY <1>1, <1>2 DEF Reserve

(* A stream takes a whole block, which it may back up, or forgets a failure. *)
LEMMA RefillKeeps == ASSUME CountsInv, Refill PROVE CountsInv'
<1>. USE DEF CountsInv
<1>1. step \in {"meta", "head", "body", "compress"} /\ room = 0 /\ (eager \/ out # <<>>)
  BY DEF Refill
<1>2. CASE Fail
  BY <1>2, FailKeeps
<1>3. CASE /\ Take(Room)
           /\ room' = Room /\ lastBytes' = Room
           /\ eager' = FALSE
           /\ UNCHANGED <<step, begun, msg, factor, content, from, left, out, chunkVars, metaSize,
                          encoded, netVars>>
  <2>1. UNCHANGED <<step, begun, msg, factor, content, from, left, out, raw, chunk, metaSize,
                    encoded, queue, sending>> /\ UNCHANGED netVars
    BY <1>3 DEF chunkVars, netVars, sendVars
  <2>2. Room \in Nat /\ Room > 0 /\ Room <= Room
    BY RoomType
  <2>3. /\ MemOK'
        /\ buf' \in Seq(WriteHandles) /\ buf' # <<>>
        /\ writeBytes' = writeBytes + Room /\ writeBytes' = Total(buf')
        /\ Room <= LastHandle'.size
    BY <1>3, <2>1, <2>2, TakeKeeps, ListsTyped
  <2>4. AsmOK'
    BY <1>3, <2>1 DEF AsmOK
  <2>5. BufOK'
    <3>1. content' \in Seq(WriteHandles) /\ writeBytes + Room \in Nat
      BY <2>1, <2>2 DEF BufOK
    <3>. QED BY <1>3, <2>2, <2>3, <3>1 DEF BufOK
  <2>6. NetOK'
    BY <2>1, NetUnchanged
  <2>7. Stage'
    <3>1. writeBytes' - room' = writeBytes - room
      <4>1. writeBytes \in Nat
        BY DEF BufOK
      <4>2. (writeBytes + Room) - Room = writeBytes - 0
        BY <2>2, <4>1
      <4>. QED BY <1>1, <1>3, <2>3, <4>2
    <3>. QED BY <1>1, <2>1, <3>1 DEF Stage
  <2>. QED BY <2>3, <2>4, <2>5, <2>6, <2>7
<1>4. CASE /\ eager \/ NeverAsked
           /\ lastBytes' = 0
           /\ out' = IF eager THEN out ELSE <<>>
           /\ eager' = FALSE
           /\ UNCHANGED <<step, begun, msg, mem, refCount, factor, buf, writeBytes, content, from,
                          left, room, chunkVars, metaSize, encoded, netVars>>
  <2>1. UNCHANGED <<step, begun, msg, mem, refCount, factor, buf, writeBytes, content, from,
                    left, room, raw, chunk, metaSize, encoded, queue, sending>> /\ UNCHANGED netVars
    BY <1>4 DEF chunkVars, netVars, sendVars
  <2>2. AsmOK'
    <3>1. out' \in Seq(Byte) /\ eager' \in BOOLEAN
      <4>1. out \in Seq(Byte) /\ <<>> \in Seq(Byte)
        BY DEF AsmOK
      <4>2. out' = out \/ out' = <<>>
        BY <1>4
      <4>. QED BY <1>4, <4>1, <4>2
    <3>. QED BY <2>1, <3>1 DEF AsmOK
  <2>3. BufOK'
    BY <1>1, <1>4, <2>1 DEF BufOK
  <2>4. NetOK'
    BY <2>1, NetUnchanged
  <2>5. MemOK'
    BY <2>1, MemUnchanged
  <2>6. Stage'
    <3>1. step = "head" => out' = out
      BY <1>4 DEF NeverAsked, Stage
    <3>. QED BY <1>1, <2>1, <3>1 DEF Stage
  <2>. QED BY <2>2, <2>3, <2>4, <2>5, <2>6
<1>. QED BY <1>2, <1>3, <1>4 DEF Refill

(* The content of a page moves to a buffer of its own. *)
LEMMA ContentDoneKeeps == ASSUME CountsInv, ContentDone PROVE CountsInv'
<1>. USE DEF CountsInv
<1>1. /\ step = "append" /\ step' = "head" /\ out' = Bytes("head", msg.meta, writeBytes)
      /\ content' = buf /\ buf' = <<>> /\ writeBytes' = 0 /\ lastBytes' = 0
      /\ UNCHANGED <<begun, msg, mem, refCount, factor, from, left, room, eager, raw, chunk,
                     metaSize, encoded, queue, sending>>
      /\ UNCHANGED netVars
  BY DEF ContentDone, chunkVars, netVars, sendVars
<1>2. content = <<>> /\ room = 0 /\ msg.kind = "page" /\ msg.meta > 0
  BY <1>1 DEF Stage
<1>3. begun \in Nat /\ msg.meta \in Nat /\ writeBytes \in Nat
  BY DEF AsmOK, BufOK
<1>4. out' \in Seq(Byte) /\ Len(out') = msg.meta
  <2>1. writeBytes \in Said
    BY <1>3 DEF Said
  <2>. QED BY <1>1, <1>3, <2>1, BytesType
<1>5. AsmOK'
  BY <1>1, <1>4 DEF AsmOK, WriteSteps
<1>6. BufOK'
  BY <1>1, <1>2, TotalEmpty DEF BufOK
<1>7. NetOK'
  BY <1>1, NetUnchanged
<1>8. MemOK'
  <2>1. ListsOK
    BY ListsTyped
  <2>2. ASSUME NEW b \in Blocks
        PROVE  /\ refCount'[b] = RefsOf(buf')[b] + RefsOf(content')[b] + QueueRefs(queue')[b]
                                   + RefsOf(sending')[b]
               /\ refCount'[b] <= 1
    <3>1. /\ refCount[b] = RefsOf(buf)[b] + RefsOf(content)[b] + QueueRefs(queue)[b]
                             + RefsOf(sending)[b]
          /\ refCount[b] <= 1
      BY DEF MemOK, OneOwner
    <3>2. RefsOf(content)[b] = 0 /\ RefsOf(buf')[b] = 0 /\ RefsOf(content')[b] = RefsOf(buf)[b]
      BY <1>1, <1>2, RefsEmpty
    <3>3. RefsOf(buf)[b] \in Nat
      BY <2>1, OwnedParts
    <3>. QED BY <1>1, <3>1, <3>2, <3>3
  <2>3. AllHandles' \subseteq AllHandles
    BY <1>1 DEF AllHandles, HandlesOf, RangeOf
  <2>. QED BY <1>1, <2>2, <2>3 DEF MemOK, OneOwner
<1>9. Stage'
  <2>1. writeBytes' - room' + Len(out') = msg'.meta
    BY <1>1, <1>2, <1>3, <1>4
  <2>. QED BY <1>1, <1>2, <2>1 DEF Stage
<1>. QED BY <1>5, <1>6, <1>7, <1>8, <1>9

(* A stream writes inside the last block. *)
LEMMA PutKeeps == ASSUME CountsInv, Put PROVE CountsInv'
<1>. USE DEF CountsInv
<1>. DEFINE n == Least(room, Len(out))
            h == LastHandle
            first == h.size - room
            new == [o \in DOMAIN mem[h.block] |->
                      IF o - first \in 1 .. n THEN out[o - first] ELSE mem[h.block][o]]
<1>1. /\ room > 0
      /\ mem' = [mem EXCEPT ![h.block] = new]
      /\ out' = SubSeq(out, n + 1, Len(out))
      /\ room' = room - n
      /\ UNCHANGED <<step, begun, msg, refCount, factor, buf, writeBytes, lastBytes, content, from,
                     left, eager, raw, chunk, metaSize, encoded, queue, sending>>
      /\ UNCHANGED netVars
  BY DEF Put, chunkVars, netVars, sendVars, writeBufVars
<1>2. /\ room \in Nat /\ out \in Seq(Byte) /\ Len(out) \in Nat
      /\ h \in WriteHandles /\ h.block \in Blocks /\ h.size \in Nat /\ room <= h.size
      /\ room <= lastBytes /\ lastBytes \in Nat /\ writeBytes \in Nat /\ buf # <<>>
  <2>1. Len(buf) \in DOMAIN buf /\ buf # <<>> /\ room <= h.size
    BY <1>1 DEF BufOK
  <2>2. h \in WriteHandles
    BY <2>1 DEF BufOK, LastHandle
  <2>. HIDE DEF h
  <2>3. h.block \in Blocks /\ h.size \in Nat
    BY <2>2 DEF WriteHandles
  <2>. QED BY <1>1, <2>1, <2>2, <2>3 DEF AsmOK, BufOK
<1>3. n \in Nat /\ n <= room /\ n <= Len(out)
  BY <1>2 DEF Least
<1>. HIDE DEF n, h
<1>4. out' \in Seq(Byte) /\ Len(out') = Len(out) - n
  <2>1. n + 1 \in Int /\ Len(out) \in Int /\ \A i \in n + 1 .. Len(out) : out[i] \in Byte
    BY <1>2, <1>3
  <2>2. /\ SubSeq(out, n + 1, Len(out)) \in Seq(Byte)
        /\ Len(SubSeq(out, n + 1, Len(out)))
              = IF n + 1 <= Len(out) THEN Len(out) - (n + 1) + 1 ELSE 0
    BY <2>1, SubSeqProperties
  <2>3. Len(out) - n = IF n + 1 <= Len(out) THEN Len(out) - (n + 1) + 1 ELSE 0
    BY <1>2, <1>3
  <2>. QED BY <1>1, <2>2, <2>3
<1>5. AsmOK'
  BY <1>1, <1>4 DEF AsmOK
<1>6. BufOK'
  <2>1. room' \in Nat /\ room' <= room /\ room' <= lastBytes /\ room' <= h.size
    <3>1. room - n \in Nat /\ room - n <= room /\ room - n <= lastBytes /\ room - n <= h.size
      BY <1>2, <1>3
    <3>. QED BY <1>1, <3>1
  <2>2. LastHandle' = h
    BY <1>1 DEF LastHandle, h
  <2>. QED BY <1>1, <1>2, <2>1, <2>2 DEF BufOK
<1>7. NetOK'
  BY <1>1, NetUnchanged
<1>8. MemOK'
  <2>1. mem[h.block] \in Seq(Byte)
    BY <1>2 DEF MemOK
  <2>2. new \in Seq(Byte) /\ Len(new) = Len(mem[h.block])
    <3>. DEFINE old == mem[h.block]
                k == Len(old)
    <3>1. old \in Seq(Byte) /\ k \in Nat /\ DOMAIN old = 1 .. k
      BY <2>1
    <3>. HIDE DEF old, k
    <3>2. ASSUME NEW o \in 1 .. k
          PROVE  (IF o - first \in 1 .. n THEN out[o - first] ELSE old[o]) \in Byte
      <4>1. old[o] \in Byte
        BY <3>1
      <4>2. o - first \in 1 .. n => out[o - first] \in Byte
        BY <1>2, <1>3
      <4>. QED BY <4>1, <4>2
    <3>3. new = [o \in 1 .. k |-> IF o - first \in 1 .. n THEN out[o - first] ELSE old[o]]
      BY <3>1 DEF old
    <3>. HIDE DEF first
    <3>4. new \in [1 .. k -> Byte]
      <4>. HIDE DEF new
      <4>. QED BY <3>2, <3>3
    <3>. HIDE DEF new
    <3>5. new \in Seq(Byte) /\ Len(new) = k
      BY <3>1, <3>4
    <3>. QED BY <3>5 DEF k, old
  <2>. HIDE DEF new
  <2>3. mem' \in [Blocks -> Seq(Byte)] /\ \A b \in Blocks : Len(mem'[b]) = Len(mem[b])
    BY <1>1, <1>2, <2>2 DEF MemOK
  <2>. QED BY <1>1, <2>3, MemSame, ListsTyped
<1>9. Stage'
  <2>1. writeBytes' - room' = (writeBytes - room) + n
    <3>1. writeBytes - (room - n) = (writeBytes - room) + n
      BY <1>2, <1>3
    <3>. QED BY <1>1, <3>1
  <2>2. step \notin {"idle", "append", "reserve", "seal"}
    BY <1>1 DEF Stage
  <2>3. CASE step = "head"
    <3>1. writeBytes' - room' + Len(out') = writeBytes - room + Len(out)
      <4>1. (writeBytes - room) + n + (Len(out) - n) = writeBytes - room + Len(out)
        BY <1>2, <1>3
      <4>. QED BY <1>4, <2>1, <4>1
    <3>. QED BY <1>1, <2>2, <2>3, <3>1 DEF Stage
  <2>4. CASE step # "head"
    <3>1. step \in {"meta", "compress", "flush", "body"} => writeBytes' - room' >= HeaderSize
      <4>1. HeaderSize \in Nat
        BY WriteSizeAssumption
      <4>2. step \in {"meta", "compress", "flush", "body"} => writeBytes - room >= HeaderSize
        BY DEF Stage
      <4>3. writeBytes - room >= HeaderSize => writeBytes - room + n >= HeaderSize
        BY <1>2, <1>3, <4>1
      <4>. QED BY <2>1, <4>2, <4>3
    <3>. QED BY <1>1, <2>2, <2>4, <3>1 DEF Stage
  <2>. QED BY <2>3, <2>4
<1>. QED BY <1>5, <1>6, <1>7, <1>8, <1>9

(* The stream of the meta backs up what it has not used, not the header. *)
LEMMA MetaDoneKeeps == ASSUME CountsInv, MetaDone PROVE CountsInv'
<1>. USE DEF CountsInv
<1>1. /\ step = "meta" /\ GiveBack /\ room' = 0 /\ metaSize' = writeBytes' - HeaderSize
      /\ eager' = TRUE
      /\ \/ /\ step' = "compress" /\ raw' = msg.body
            /\ UNCHANGED <<out, encoded>>
         \/ /\ step' = "body"
            /\ out' = Bytes("body", msg.body, <<>>) /\ encoded' = out'
            /\ UNCHANGED raw
      /\ UNCHANGED <<begun, msg, mem, refCount, factor, content, from, left, chunk, queue, sending>>
      /\ UNCHANGED netVars
  BY DEF MetaDone, netVars, sendVars
<1>2. /\ MemOK'
      /\ buf' \in Seq(WriteHandles) /\ lastBytes' \in Nat
      /\ writeBytes' = writeBytes - room /\ writeBytes' \in Nat /\ writeBytes' = Total(buf')
  BY <1>1, GiveBackKeeps, ListsTyped
<1>3. begun \in Nat /\ msg.body \in Nat /\ HeaderSize \in Nat
  BY WriteSizeAssumption DEF AsmOK
<1>4. AsmOK'
  <2>1. <<>> \in Said
    BY DEF Said
  <2>2. Bytes("body", msg.body, <<>>) \in Seq(Byte)
    BY <1>3, <2>1, BytesType
  <2>3. out' \in Seq(Byte) /\ encoded' \in Seq(Byte) /\ raw' \in Nat /\ step' \in WriteSteps
    BY <1>1, <2>2 DEF AsmOK, WriteSteps
  <2>4. metaSize' \in Int
    <3>. DEFINE w == writeBytes'
    <3>1. w \in Nat /\ metaSize' = w - HeaderSize
      BY <1>1, <1>2
    <3>. HIDE DEF w
    <3>. QED BY <1>3, <3>1
  <2>. QED BY <1>1, <2>3, <2>4 DEF AsmOK
<1>5. BufOK'
  BY <1>1, <1>2 DEF BufOK
<1>6. NetOK'
  BY <1>1, NetUnchanged
<1>7. Stage'
  <2>1. writeBytes' - room' >= HeaderSize
    <3>. DEFINE w == writeBytes'
    <3>1. w \in Nat /\ w >= HeaderSize
      BY <1>1, <1>2 DEF Stage
    <3>2. w - 0 >= HeaderSize
      <4>. HIDE DEF w
      <4>. QED BY <1>3, <3>1
    <3>. QED BY <1>1, <3>2
  <2>. QED BY <1>1, <2>1 DEF Stage
<1>. QED BY <1>2, <1>4, <1>5, <1>6, <1>7

(* The last stream backs up, and a buffer with bytes remains. *)
LEMMA BodyDoneKeeps == ASSUME CountsInv, BodyDone PROVE CountsInv'
<1>. USE DEF CountsInv
<1>1. /\ step \in {"body", "head"} /\ out = <<>> /\ GiveBack /\ room' = 0 /\ step' = "seal"
      /\ UNCHANGED <<begun, msg, mem, refCount, factor, content, from, left, out, eager, raw, chunk,
                     metaSize, encoded, queue, sending>>
      /\ UNCHANGED netVars
  BY DEF BodyDone, Written, chunkVars, netVars, sendVars
<1>2. /\ MemOK'
      /\ buf' \in Seq(WriteHandles) /\ lastBytes' \in Nat
      /\ writeBytes' = writeBytes - room /\ writeBytes' \in Nat /\ writeBytes' = Total(buf')
  BY <1>1, GiveBackKeeps, ListsTyped
<1>3. AsmOK'
  BY <1>1 DEF AsmOK, WriteSteps
<1>4. BufOK'
  BY <1>1, <1>2 DEF BufOK
<1>5. NetOK'
  BY <1>1, NetUnchanged
<1>6. Stage'
  <2>1. writeBytes \in Nat /\ room \in Nat /\ HeaderSize \in Nat /\ HeaderSize > 0
    BY WriteSizeAssumption DEF BufOK
  <2>2. writeBytes - room > 0
    <3>1. CASE step = "body"
      <4>1. writeBytes - room >= HeaderSize
        BY <3>1 DEF Stage
      <4>. QED BY <2>1, <4>1
    <3>2. CASE step = "head"
      <4>1. writeBytes - room + Len(out) = msg.meta /\ msg.meta > 0
        BY <3>2 DEF Stage
      <4>2. Len(out) = 0
        BY <1>1
      <4>3. writeBytes - room + 0 = writeBytes - room
        BY <2>1
      <4>. QED BY <4>1, <4>2, <4>3
    <3>. QED BY <1>1, <3>1, <3>2
  <2>. QED BY <1>1, <1>2, <2>2 DEF Stage
<1>. QED BY <1>2, <1>3, <1>4, <1>5, <1>6

(* The buffers swapped out make a message without empty blocks. *)
LEMMA SwapOutSendable ==
    ASSUME NEW bs \in Seq(WriteHandles), NEW cs \in Seq(WriteHandles), Total(bs) > 0
    PROVE  /\ SwapOut(bs \o cs) \in Seq(WriteHandles)
           /\ Sendable(SwapOut(bs \o cs))
           /\ RangeOf(SwapOut(bs \o cs)) \subseteq RangeOf(bs) \cup RangeOf(cs)
           /\ \A b \in Blocks : /\ RefsOf(bs \o cs)[b] = RefsOf(bs)[b] + RefsOf(cs)[b]
                                /\ RefsOf(SwapOut(bs \o cs))[b] \in Nat
                                /\ RefsOf(SwapOut(bs \o cs))[b] <= RefsOf(bs \o cs)[b]
<1>. DEFINE all == bs \o cs
            ks == SwapOut(all)
            n == Len(bs)
<1>1. /\ all \in Seq(WriteHandles) /\ Len(all) = n + Len(cs) /\ n \in Nat /\ Len(cs) \in Nat
      /\ \A i \in 1 .. n : all[i] = bs[i]
      /\ \A i \in 1 .. Len(cs) : all[n + i] = cs[i]
  BY ConcatProperties
<1>2. \A b \in Blocks : RefsOf(all)[b] = RefsOf(bs)[b] + RefsOf(cs)[b]
  BY RefsConcat
<1>. HIDE DEF all
<1>3. /\ ks \in Seq(WriteHandles)
      /\ \A j \in 1 .. Len(ks) : ks[j].size > 0 /\ \E i \in 1 .. Len(all) : ks[j] = all[i]
      /\ Total(ks) = Offset(all, Len(all) + 1)
      /\ \A b \in Blocks : RefsOf(ks)[b] <= RefsOf(SubSeq(all, 1, Len(all)))[b]
  <2>1. KeptFrom(ks, all, Len(all))
    BY <1>1, SwapOutKeeps
  <2>. HIDE DEF ks
  <2>. QED BY <2>1 DEF KeptFrom
<1>. HIDE DEF ks
<1>4. Len(ks) \in Nat /\ DOMAIN ks = 1 .. Len(ks) /\ Len(all) \in Nat
  BY <1>1, <1>3
<1>5. ks # <<>>
  <2>1. \A i \in 1 .. n + 1 : Offset(all, i) = Offset(bs, i)
    <3>1. n <= Len(all) /\ n <= Len(bs) /\ \A i \in 1 .. n : all[i].size = bs[i].size
      BY <1>1
    <3>. HIDE DEF n
    <3>. QED BY <1>1, <3>1, OffsetsAgree
  <2>2. n + 1 \in 1 .. n + 1 /\ n + 1 \in 1 .. Len(all) + 1 /\ Len(all) + 1 \in n + 1 .. Len(all) + 1
    BY <1>1
  <2>3. Offset(all, n + 1) = Total(bs)
    BY <2>1, <2>2, Offsets
  <2>4. Offset(all, n + 1) <= Offset(all, Len(all) + 1)
    BY <1>1, <2>2, OffsetsGrow
  <2>5. Total(bs) \in Nat /\ Total(ks) \in Nat
    BY <1>3, Offsets
  <2>6. Total(ks) > 0
    BY <1>3, <2>3, <2>4, <2>5
  <2>. QED BY <2>6, TotalEmpty
<1>6. Sendable(ks)
  BY <1>3, <1>4, <1>5 DEF Sendable
<1>7. RangeOf(ks) \subseteq RangeOf(bs) \cup RangeOf(cs)
  <2>1. ASSUME NEW i \in 1 .. Len(all) PROVE all[i] \in RangeOf(bs) \cup RangeOf(cs)
    <3>1. CASE i \in 1 .. n
      <4>1. all[i] = bs[i]
        BY <1>1, <3>1
      <4>2. i \in DOMAIN bs
        BY <1>1, <3>1
      <4>. QED BY <4>1, <4>2 DEF RangeOf
    <3>2. CASE i \notin 1 .. n
      <4>1. i - n \in 1 .. Len(cs) /\ n + (i - n) = i
        BY <1>1, <3>2
      <4>2. all[i] = cs[i - n]
        BY <1>1, <4>1
      <4>3. i - n \in DOMAIN cs
        BY <4>1
      <4>. QED BY <4>2, <4>3 DEF RangeOf
    <3>. QED BY <3>1, <3>2
  <2>2. ASSUME NEW j \in DOMAIN ks PROVE ks[j] \in RangeOf(bs) \cup RangeOf(cs)
    BY <1>3, <1>4, <2>1
  <2>. QED BY <2>2 DEF RangeOf
<1>8. \A b \in Blocks : RefsOf(ks)[b] \in Nat /\ RefsOf(ks)[b] <= RefsOf(all)[b]
  <2>1. SubSeq(all, 1, Len(all)) = all
    BY <1>1
  <2>2. \A b \in Blocks : RefsOf(ks)[b] \in Nat
    BY <1>3, RefsType
  <2>. QED BY <1>3, <2>1, <2>2
<1>. QED BY <1>2, <1>3, <1>6, <1>7, <1>8 DEF ks, all

(* The blocks with bytes pass to a ReadBuffer, the others are freed. *)
LEMMA SealKeeps == ASSUME CountsInv, Seal PROVE CountsInv'
<1>. USE DEF CountsInv
<1>. DEFINE all == buf \o content
            set == IF msg.kind = "page" THEN mem
                      ELSE SetData(from, Header(metaSize, writeBytes - HeaderSize - metaSize))
<1>1. /\ step = "seal" /\ step' = "idle"
      /\ buf' = <<>> /\ content' = <<>> /\ writeBytes' = 0 /\ lastBytes' = 0
      /\ UNCHANGED <<begun, msg, factor, from, left, out, room, eager, raw, chunk, metaSize, encoded,
                     sending, cur, sendingData, sendingSize, sentSize, closed, onWire>>
  BY DEF Seal, streamVars, chunkVars, sendVars
<1>2. /\ closed => Free(RefsOf(all), set) /\ UNCHANGED <<queue, promised>>
      /\ ~closed => Free(SwapRefs(all), set) /\ queue' = Append(queue, SwapOut(all))
  BY DEF Seal
<1>3. ListsOK
  BY ListsTyped
<1>4. room = 0 /\ Total(buf) > 0 /\ content \in Seq(WriteHandles) /\ buf \in Seq(WriteHandles)
  <2>1. room = 0 /\ writeBytes > 0
    BY <1>1 DEF Stage
  <2>. QED BY <2>1 DEF BufOK
<1>5. AsmOK'
  BY <1>1 DEF AsmOK, WriteSteps
<1>6. BufOK'
  BY <1>1, <1>4, TotalEmpty DEF BufOK
<1>7. Stage'
  BY <1>1, <1>4 DEF Stage
<1>8. set \in [Blocks -> Seq(Byte)] /\ \A b \in Blocks : Len(set[b]) = Len(mem[b])
  <2>. DEFINE header == Header(metaSize, writeBytes - HeaderSize - metaSize)
  <2>1. /\ from \in Nat /\ metaSize \in Int /\ writeBytes \in Nat /\ HeaderSize \in Nat
        /\ begun \in Nat
    BY WriteSizeAssumption DEF AsmOK, BufOK
  <2>2. header \in Seq(Byte)
    <3>1. <<metaSize, writeBytes - HeaderSize - metaSize>> \in Said
      BY <2>1 DEF Said
    <3>. QED BY <2>1, <3>1, BytesType DEF Header
  <2>. HIDE DEF header
  <2>3. /\ SetData(from, header) \in [Blocks -> Seq(Byte)]
        /\ \A b \in Blocks : Len(SetData(from, header)[b]) = Len(mem[b])
    BY <2>1, <2>2, SetDataType
  <2>4. mem \in [Blocks -> Seq(Byte)]
    BY DEF MemOK
  <2>. QED BY <2>3, <2>4 DEF header
<1>. DEFINE ks == SwapOut(all)
<1>9. /\ ks \in Seq(WriteHandles) /\ Sendable(ks)
      /\ RangeOf(ks) \subseteq RangeOf(buf) \cup RangeOf(content)
      /\ \A b \in Blocks : /\ RefsOf(all)[b] = RefsOf(buf)[b] + RefsOf(content)[b]
                           /\ RefsOf(ks)[b] \in Nat
                           /\ RefsOf(ks)[b] <= RefsOf(all)[b]
  BY <1>4, SwapOutSendable
<1>. HIDE DEF ks, all, set
<1>10. ASSUME NEW b \in Blocks
       PROVE  /\ Owned(b) = RefsOf(all)[b] + QueueRefs(queue)[b] + RefsOf(sending)[b]
              /\ RefsOf(all)[b] \in Nat
              /\ QueueRefs(queue)[b] \in Nat /\ RefsOf(sending)[b] \in Nat
              /\ Owned(b)' = QueueRefs(queue')[b] + RefsOf(sending)[b]
  <2>1. /\ Owned(b) = RefsOf(buf)[b] + RefsOf(content)[b] + QueueRefs(queue)[b]
                         + RefsOf(sending)[b]
        /\ RefsOf(buf)[b] \in Nat /\ RefsOf(content)[b] \in Nat
        /\ QueueRefs(queue)[b] \in Nat /\ RefsOf(sending)[b] \in Nat
    BY <1>3, OwnedParts
  <2>2. Owned(b)' = 0 + 0 + QueueRefs(queue')[b] + RefsOf(sending)[b]
    BY <1>1, RefsEmpty DEF Owned, OwnedBy
  <2>3. RefsOf(all)[b] = RefsOf(buf)[b] + RefsOf(content)[b]
    BY <1>9
  <2>4. 0 + 0 + QueueRefs(queue')[b] + RefsOf(sending)[b] = QueueRefs(queue')[b] + RefsOf(sending)[b]
    <3>1. QueueRefs(queue')[b] \in Nat
      <4>1. queue' \in Seq(Seq(WriteHandles))
        <5>1. queue' = queue \/ queue' = Append(queue, ks)
          BY <1>2 DEF ks
        <5>2. queue \in Seq(Seq(WriteHandles)) /\ ks \in Seq(WriteHandles)
          BY <1>3, <1>9 DEF ListsOK
        <5>3. Append(queue, ks) \in Seq(Seq(WriteHandles))
          BY <5>2
        <5>. QED BY <5>1, <5>2, <5>3
      <4>. QED BY <4>1, QueueRefsType
    <3>. DEFINE q == QueueRefs(queue')[b]
    <3>2. q \in Nat
      BY <3>1
    <3>. HIDE DEF q
    <3>3. 0 + 0 + q + RefsOf(sending)[b] = q + RefsOf(sending)[b]
      BY <2>1, <3>2
    <3>. QED BY <3>3 DEF q
  <2>5. Owned(b) = RefsOf(all)[b] + QueueRefs(queue)[b] + RefsOf(sending)[b]
    BY <2>1, <2>3
  <2>6. RefsOf(all)[b] \in Nat
    BY <2>1, <2>3
  <2>. QED BY <2>1, <2>2, <2>4, <2>5, <2>6
<1>11. CASE closed
  <2>1. Free(RefsOf(all), set) /\ queue' = queue
    BY <1>2, <1>11
  <2>2. NetOK'
    BY <1>1, <2>1 DEF NetOK
  <2>3. ListsOK'
    BY <1>1, <1>3, <2>1 DEF ListsOK
  <2>4. ASSUME NEW b \in Blocks
        PROVE  RefsOf(all)[b] \in Nat /\ Owned(b) = Owned(b)' + RefsOf(all)[b]
    <3>1. Owned(b)' = QueueRefs(queue)[b] + RefsOf(sending)[b]
      BY <1>10, <2>1
    <3>. QED BY <1>10, <3>1
  <2>5. ASSUME NEW h \in AllHandles' PROVE h.size <= Len(mem[h.block])
    <3>1. h \in AllHandles
      BY <1>1, <2>1 DEF AllHandles, HandlesOf, RangeOf
    <3>. QED BY <3>1 DEF MemOK
  <2>6. MemOK'
    BY <1>3, <1>8, <2>1, <2>3, <2>4, <2>5, FreeKeeps
  <2>. QED BY <1>5, <1>6, <1>7, <2>2, <2>6
<1>12. CASE ~closed
  <2>1. Free(SwapRefs(all), set) /\ queue' = Append(queue, ks)
    BY <1>2, <1>12 DEF ks
  <2>2. queue \in Seq(Seq(WriteHandles))
    BY <1>3 DEF ListsOK
  <2>3. /\ queue' \in Seq(Seq(WriteHandles)) /\ DOMAIN queue' = DOMAIN queue \cup {Len(queue) + 1}
        /\ \A k \in DOMAIN queue : queue'[k] = queue[k]
        /\ queue'[Len(queue) + 1] = ks
    BY <1>9, <2>1, <2>2
  <2>4. NetOK'
    <3>1. \A k \in DOMAIN queue' : Sendable(queue'[k])
      BY <1>9, <2>3 DEF NetOK
    <3>. QED BY <1>1, <2>3, <3>1 DEF NetOK
  <2>5. ListsOK'
    BY <1>1, <1>3, <2>3 DEF ListsOK
  <2>6. ASSUME NEW b \in Blocks
        PROVE  SwapRefs(all)[b] \in Nat /\ Owned(b) = Owned(b)' + SwapRefs(all)[b]
    <3>1. SwapRefs(all)[b] = RefsOf(all)[b] - RefsOf(ks)[b]
      BY DEF SwapRefs, ks
    <3>2. Owned(b)' = QueueRefs(queue)[b] + RefsOf(ks)[b] + RefsOf(sending)[b]
      <4>1. QueueRefs(queue')[b] = QueueRefs(queue)[b] + RefsOf(ks)[b]
        BY <1>9, <2>1, <2>2, QueueRefsAppend
      <4>. QED BY <1>10, <4>1
    <3>3. /\ RefsOf(all)[b] \in Nat /\ RefsOf(ks)[b] \in Nat /\ RefsOf(ks)[b] <= RefsOf(all)[b]
          /\ QueueRefs(queue)[b] \in Nat /\ RefsOf(sending)[b] \in Nat
          /\ Owned(b) = RefsOf(all)[b] + QueueRefs(queue)[b] + RefsOf(sending)[b]
      BY <1>9, <1>10
    <3>4. SwapRefs(all)[b] \in Nat
      BY <3>1, <3>3
    <3>5. Owned(b) = (QueueRefs(queue)[b] + RefsOf(ks)[b] + RefsOf(sending)[b])
                       + (RefsOf(all)[b] - RefsOf(ks)[b])
      BY <3>3
    <3>. QED BY <3>1, <3>2, <3>4, <3>5
  <2>7. ASSUME NEW h \in AllHandles' PROVE h.size <= Len(mem[h.block])
    <3>1. AllHandles' \subseteq AllHandles
      <4>1. RangeOf(buf') = {} /\ RangeOf(content') = {}
        BY <1>1 DEF RangeOf
      <4>2. ASSUME NEW g \in AllHandles'
            PROVE  g \in RangeOf(sending) \/ \E k \in DOMAIN queue' : g \in RangeOf(queue'[k])
        BY <1>1, <4>1 DEF AllHandles, HandlesOf
      <4>3. ASSUME NEW k \in DOMAIN queue', NEW g \in RangeOf(queue'[k]) PROVE g \in AllHandles
        <5>1. CASE k \in DOMAIN queue
          <6>1. g \in RangeOf(queue[k])
            BY <2>3, <5>1
          <6>. QED BY <5>1, <6>1 DEF AllHandles, HandlesOf
        <5>2. CASE k = Len(queue) + 1
          <6>1. g \in RangeOf(ks)
            BY <2>3, <5>2
          <6>. QED BY <1>9, <6>1 DEF AllHandles, HandlesOf
        <5>. QED BY <2>3, <5>1, <5>2
      <4>4. RangeOf(sending) \subseteq AllHandles
        BY DEF AllHandles, HandlesOf
      <4>. QED BY <4>2, <4>3, <4>4
    <3>. QED BY <3>1 DEF MemOK
  <2>8. MemOK'
    BY <1>3, <1>8, <2>1, <2>5, <2>6, <2>7, FreeKeeps
  <2>. QED BY <1>5, <1>6, <1>7, <2>4, <2>8
<1>. QED BY <1>11, <1>12

(* Sending leaves what is being assembled alone. *)
LEMMA AsmUnchanged ==
    ASSUME CountsInv, UNCHANGED <<step, asmVars>>
    PROVE  AsmOK' /\ BufOK' /\ Stage'
<1>1. UNCHANGED <<step, begun, msg, factor, buf, writeBytes, lastBytes, content, from, left, out,
                  room, eager, raw, chunk, metaSize, encoded>>
  BY DEF asmVars, writeBufVars, streamVars, chunkVars
<1>2. AsmOK'
  BY <1>1 DEF CountsInv, AsmOK
<1>3. BufOK'
  BY <1>1 DEF CountsInv, BufOK, LastHandle
<1>4. Stage'
  BY <1>1 DEF CountsInv, Stage
<1>. QED BY <1>2, <1>3, <1>4

(* The first ReadBuffer leaves the queue and its first handle is sent. *)
LEMMA StartSendKeeps == ASSUME CountsInv, StartSend PROVE CountsInv'
<1>. USE DEF CountsInv
<1>1. /\ sending = <<>> /\ queue # <<>>
      /\ sending' = Head(queue) /\ queue' = Tail(queue) /\ cur' = 1
      /\ sendingSize' = sending'[1].size /\ sentSize' = 0
      /\ UNCHANGED <<step, asmVars, mem, refCount, closed>>
      /\ UNCHANGED <<buf, content>>
  BY DEF StartSend, asmVars, writeBufVars
<1>2. AsmOK' /\ BufOK' /\ Stage'
  BY <1>1, AsmUnchanged
<1>3. queue \in Seq(Seq(WriteHandles)) /\ \A k \in DOMAIN queue : Sendable(queue[k])
  BY DEF NetOK
<1>4. /\ Head(queue) = queue[1] /\ 1 \in DOMAIN queue /\ Head(queue) \in Seq(WriteHandles)
      /\ Tail(queue) \in Seq(Seq(WriteHandles))
      /\ DOMAIN Tail(queue) = 1 .. Len(queue) - 1
      /\ \A k \in DOMAIN Tail(queue) : Tail(queue)[k] = queue[k + 1] /\ k + 1 \in DOMAIN queue
  BY <1>1, <1>3, EmptySeq, HeadTailProperties
<1>. DEFINE hs == Head(queue)
<1>5. hs \in Seq(WriteHandles) /\ Sendable(hs)
  BY <1>3, <1>4
<1>. HIDE DEF hs
<1>6. /\ 1 \in DOMAIN hs /\ hs[1] \in WriteHandles /\ hs[1].size > 0 /\ hs[1].size \in Nat
      /\ Offset(hs, 2) = hs[1].size
  <2>1. 1 \in DOMAIN hs /\ 1 \in 1 .. Len(hs) /\ hs[1] \in WriteHandles
    BY <1>5 DEF Sendable
  <2>2. hs[1].size > 0 /\ hs[1].size \in Nat
    BY <1>5, <2>1 DEF Sendable, WriteHandles
  <2>3. Offset(hs, 1 + 1) = Offset(hs, 1) + hs[1].size /\ Offset(hs, 1) = 0
    BY <1>5, <2>1, Offsets
  <2>. QED BY <2>1, <2>2, <2>3
<1>7. NetOK'
  <2>1. sending' = hs
    BY <1>1 DEF hs
  <2>2. sendingSize' = hs[1].size
    BY <1>1, <2>1
  <2>3. \A k \in DOMAIN queue' : Sendable(queue'[k])
    BY <1>1, <1>3, <1>4
  <2>4. /\ cur' \in DOMAIN sending'
        /\ sentSize' + sendingSize' = Offset(sending', cur' + 1)
    <3>1. Offset(hs, 1 + 1) = 0 + hs[1].size
      BY <1>6
    <3>. QED BY <1>1, <1>6, <2>1, <2>2, <3>1
  <2>5. closed' \in BOOLEAN /\ queue' \in Seq(Seq(WriteHandles)) /\ cur' \in Nat /\ sentSize' \in Nat
    BY <1>1, <1>4 DEF NetOK
  <2>. QED BY <1>5, <1>6, <2>1, <2>2, <2>3, <2>4, <2>5 DEF NetOK
<1>8. MemOK'
  <2>1. ListsOK
    BY ListsTyped
  <2>2. ASSUME NEW b \in Blocks
        PROVE  /\ refCount'[b] = RefsOf(buf')[b] + RefsOf(content')[b] + QueueRefs(queue')[b]
                                   + RefsOf(sending')[b]
               /\ refCount'[b] <= 1
    <3>1. /\ refCount[b] = RefsOf(buf)[b] + RefsOf(content)[b] + QueueRefs(queue)[b]
                             + RefsOf(sending)[b]
          /\ refCount[b] <= 1
      BY DEF MemOK, OneOwner
    <3>2. RefsOf(sending)[b] = 0
      BY <1>1, RefsEmpty
    <3>3. QueueRefs(queue)[b] = RefsOf(hs)[b] + QueueRefs(Tail(queue))[b]
      BY <1>1, <1>3, QueueRefsTail DEF hs
    <3>4. /\ RefsOf(buf)[b] \in Nat /\ RefsOf(content)[b] \in Nat
          /\ RefsOf(hs)[b] \in Nat /\ QueueRefs(Tail(queue))[b] \in Nat
      BY <1>4, <1>5, <2>1, OwnedParts, RefsType, QueueRefsType
    <3>5. refCount[b] = RefsOf(buf)[b] + RefsOf(content)[b] + QueueRefs(Tail(queue))[b]
                          + RefsOf(hs)[b]
      BY <3>1, <3>2, <3>3, <3>4
    <3>. QED BY <1>1, <3>1, <3>5 DEF hs
  <2>3. AllHandles' \subseteq AllHandles
    <3>1. ASSUME NEW g \in AllHandles'
          PROVE  g \in RangeOf(buf) \cup RangeOf(content) \/ g \in RangeOf(hs)
                    \/ \E k \in DOMAIN Tail(queue) : g \in RangeOf(Tail(queue)[k])
      BY <1>1 DEF AllHandles, HandlesOf, hs
    <3>2. RangeOf(buf) \cup RangeOf(content) \subseteq AllHandles
      BY DEF AllHandles, HandlesOf
    <3>3. ASSUME NEW k \in DOMAIN queue PROVE RangeOf(queue[k]) \subseteq AllHandles
      BY DEF AllHandles, HandlesOf
    <3>4. RangeOf(hs) \subseteq AllHandles
      BY <1>4, <3>3 DEF hs
    <3>5. \A k \in DOMAIN Tail(queue) : RangeOf(Tail(queue)[k]) \subseteq AllHandles
      BY <1>4, <3>3
    <3>. QED BY <3>1, <3>2, <3>4, <3>5
  <2>. QED BY <1>1, <2>2, <2>3 DEF MemOK, OneOwner
<1>. QED BY <1>2, <1>7, <1>8

(* After a write the rest, the next handle or the next ReadBuffer is sent. *)
LEMMA OnWriteSomeKeeps == ASSUME CountsInv, OnWriteSome PROVE CountsInv'
<1>. USE DEF CountsInv
<1>1. PICK n \in 1 .. sendingSize :
          /\ sentSize' = sentSize + n
          /\ IF n < sendingSize
             THEN /\ sendingSize' = sendingSize - n
                  /\ UNCHANGED <<mem, refCount, sending, cur>>
             ELSE IF cur < Len(sending)
             THEN /\ cur' = cur + 1
                  /\ sendingSize' = sending[cur'].size
                  /\ UNCHANGED <<mem, refCount, sending>>
             ELSE /\ Free(RefsOf(sending), mem)
                  /\ sending' = <<>>
                  /\ UNCHANGED <<cur, sendingSize>>
  BY DEF OnWriteSome
<1>2. sending # <<>> /\ UNCHANGED <<step, asmVars, queue, closed, buf, content>>
  BY DEF OnWriteSome, asmVars, writeBufVars
<1>3. AsmOK' /\ BufOK' /\ Stage'
  BY <1>2, AsmUnchanged
<1>4. /\ sending \in Seq(WriteHandles) /\ queue \in Seq(Seq(WriteHandles))
      /\ \A k \in DOMAIN queue : Sendable(queue[k])
      /\ cur \in Nat /\ sendingSize \in Nat /\ sentSize \in Nat /\ closed \in BOOLEAN
      /\ Sendable(sending) /\ cur \in DOMAIN sending
      /\ sentSize + sendingSize = Offset(sending, cur + 1)
  BY <1>2 DEF NetOK
<1>5. n \in Nat /\ n >= 1 /\ n <= sendingSize /\ sentSize + n \in Nat
  BY <1>4
<1>6. CASE n < sendingSize
  <2>1. sendingSize' = sendingSize - n /\ UNCHANGED <<mem, refCount, sending, cur>>
    BY <1>1, <1>6
  <2>2. NetOK'
    <3>1. sendingSize - n \in Nat /\ sendingSize - n > 0
          /\ (sentSize + n) + (sendingSize - n) = sentSize + sendingSize
      BY <1>4, <1>5, <1>6
    <3>2. sentSize' + sendingSize' = Offset(sending', cur' + 1)
      BY <1>1, <1>4, <2>1, <3>1
    <3>. QED BY <1>1, <1>2, <1>4, <1>5, <2>1, <3>1, <3>2 DEF NetOK
  <2>3. MemOK'
    BY <1>2, <2>1, MemUnchanged
  <2>. QED BY <1>3, <2>2, <2>3
<1>7. CASE ~(n < sendingSize) /\ cur < Len(sending)
  <2>1. cur' = cur + 1 /\ sendingSize' = sending[cur'].size /\ UNCHANGED <<mem, refCount, sending>>
    BY <1>1, <1>7
  <2>. DEFINE k == cur + 1
  <2>2. k \in Nat /\ k \in DOMAIN sending /\ k \in 1 .. Len(sending)
    BY <1>4, <1>7
  <2>3. sending[k].size > 0 /\ sending[k].size \in Nat
    <3>1. sending[k] \in WriteHandles
      BY <1>4, <2>2
    <3>. HIDE DEF k
    <3>. QED BY <1>4, <2>2, <3>1 DEF Sendable, WriteHandles
  <2>4. Offset(sending, k + 1) = Offset(sending, k) + sending[k].size
    BY <1>4, <2>2, Offsets
  <2>5. n = sendingSize /\ sentSize + n = Offset(sending, k)
    <3>1. n = sendingSize
      BY <1>4, <1>5, <1>7
    <3>. QED BY <1>4, <3>1
  <2>6. cur' = k
    BY <2>1
  <2>. HIDE DEF k
  <2>7. NetOK'
    <3>1. sendingSize' = sending[k].size /\ sentSize' = sentSize + n
      BY <1>1, <2>1, <2>6
    <3>2. sentSize' + sendingSize' = Offset(sending', cur' + 1)
      BY <2>1, <2>4, <2>5, <2>6, <3>1
    <3>. QED BY <1>2, <1>4, <1>5, <2>1, <2>2, <2>3, <2>6, <3>1, <3>2 DEF NetOK
  <2>8. MemOK'
    BY <1>2, <2>1, MemUnchanged
  <2>. QED BY <1>3, <2>7, <2>8
<1>8. CASE ~(n < sendingSize) /\ ~(cur < Len(sending))
  <2>1. Free(RefsOf(sending), mem) /\ sending' = <<>> /\ UNCHANGED <<cur, sendingSize>>
    BY <1>1, <1>8
  <2>2. NetOK'
    BY <1>1, <1>2, <1>4, <1>5, <2>1 DEF NetOK
  <2>3. ListsOK
    BY ListsTyped
  <2>4. ListsOK'
    BY <1>2, <2>1, <2>3 DEF ListsOK
  <2>5. ASSUME NEW b \in Blocks
        PROVE  RefsOf(sending)[b] \in Nat /\ Owned(b) = Owned(b)' + RefsOf(sending)[b]
    <3>1. /\ Owned(b) = RefsOf(buf)[b] + RefsOf(content)[b] + QueueRefs(queue)[b]
                          + RefsOf(sending)[b]
          /\ RefsOf(buf)[b] \in Nat /\ RefsOf(content)[b] \in Nat
          /\ QueueRefs(queue)[b] \in Nat /\ RefsOf(sending)[b] \in Nat
      BY <2>3, OwnedParts
    <3>2. Owned(b)' = RefsOf(buf)[b] + RefsOf(content)[b] + QueueRefs(queue)[b] + 0
      BY <1>2, <2>1, RefsEmpty DEF Owned, OwnedBy
    <3>. QED BY <3>1, <3>2
  <2>6. ASSUME NEW h \in AllHandles' PROVE h.size <= Len(mem[h.block])
    <3>1. h \in AllHandles
      BY <1>2, <2>1 DEF AllHandles, HandlesOf, RangeOf
    <3>. QED BY <3>1 DEF MemOK
  <2>7. mem \in [Blocks -> Seq(Byte)]
    BY DEF MemOK
  <2>8. MemOK'
    BY <2>1, <2>3, <2>4, <2>5, <2>6, <2>7, FreeKeeps
  <2>. QED BY <1>3, <2>2, <2>8
<1>. QED BY <1>6, <1>7, <1>8

(* A close frees what is queued and being sent, and nothing of the assembly. *)
LEMMA CloseWriterKeeps == ASSUME CountsInv, CloseWriter PROVE CountsInv'
<1>. USE DEF CountsInv
<1>. DEFINE freed == [b \in Blocks |-> QueueRefs(queue)[b] + RefsOf(sending)[b]]
<1>1. /\ Free(freed, mem) /\ closed' = TRUE /\ queue' = <<>> /\ sending' = <<>>
      /\ UNCHANGED <<step, asmVars, cur, sendingSize, sentSize>>
      /\ UNCHANGED <<buf, content>>
  BY DEF CloseWriter, asmVars, writeBufVars
<1>2. AsmOK' /\ BufOK' /\ Stage'
  BY <1>1, AsmUnchanged
<1>3. NetOK'
  <2>1. <<>> \in Seq(Seq(WriteHandles)) /\ <<>> \in Seq(WriteHandles) /\ DOMAIN <<>> = {}
    OBVIOUS
  <2>. QED BY <1>1, <2>1 DEF NetOK
<1>4. ListsOK
  BY ListsTyped
<1>5. ListsOK'
  BY <1>1, <1>4 DEF ListsOK
<1>6. ASSUME NEW b \in Blocks PROVE freed[b] \in Nat /\ Owned(b) = Owned(b)' + freed[b]
  <2>1. /\ Owned(b) = RefsOf(buf)[b] + RefsOf(content)[b] + QueueRefs(queue)[b]
                        + RefsOf(sending)[b]
        /\ RefsOf(buf)[b] \in Nat /\ RefsOf(content)[b] \in Nat
        /\ QueueRefs(queue)[b] \in Nat /\ RefsOf(sending)[b] \in Nat
    BY <1>4, OwnedParts
  <2>2. Owned(b)' = RefsOf(buf)[b] + RefsOf(content)[b] + 0 + 0
    BY <1>1, RefsEmpty, QueueRefsEmpty DEF Owned, OwnedBy
  <2>3. freed[b] = QueueRefs(queue)[b] + RefsOf(sending)[b]
    OBVIOUS
  <2>. HIDE DEF freed
  <2>. QED BY <2>1, <2>2, <2>3
<1>. HIDE DEF freed
<1>7. ASSUME NEW h \in AllHandles' PROVE h.size <= Len(mem[h.block])
  <2>1. h \in AllHandles
    BY <1>1 DEF AllHandles, HandlesOf, RangeOf
  <2>. QED BY <2>1 DEF MemOK
<1>8. mem \in [Blocks -> Seq(Byte)]
  BY DEF MemOK
<1>9. MemOK'
  BY <1>1, <1>4, <1>5, <1>6, <1>7, <1>8, FreeKeeps
<1>. QED BY <1>2, <1>3, <1>9

(* The invariant holds at the start. *)
LEMMA WriteInitOK == WriteInit => CountsInv
<1>. SUFFICES ASSUME WriteInit PROVE CountsInv
  OBVIOUS
<1>1. AsmOK
  <2>1. msg \in [kind : MessageKinds \cup {"plain"}, meta : Nat, body : Nat]
    BY DEF WriteInit
  <2>2. out \in Seq(Byte) /\ encoded \in Seq(Byte)
    BY DEF WriteInit
  <2>3. step \in WriteSteps /\ eager \in BOOLEAN
    BY DEF WriteInit, WriteSteps
  <2>4. /\ begun = 0 /\ factor = 0 /\ from = 0 /\ left = 0 /\ raw = 0 /\ chunk = 0
        /\ metaSize = 0
    BY DEF WriteInit
  <2>. QED BY <2>1, <2>2, <2>3, <2>4 DEF AsmOK
<1>2. BufOK
  BY TotalEmpty DEF WriteInit, BufOK
<1>3. NetOK
  <2>1. <<>> \in Seq(Seq(WriteHandles)) /\ <<>> \in Seq(WriteHandles) /\ DOMAIN <<>> = {}
    OBVIOUS
  <2>. QED BY <2>1 DEF WriteInit, NetOK
<1>4. MemOK
  <2>1. /\ mem = [b \in Blocks |-> <<>>] /\ refCount = [b \in Blocks |-> 0]
        /\ buf = <<>> /\ content = <<>> /\ queue = <<>> /\ sending = <<>>
    BY DEF WriteInit
  <2>2. OneOwner
    BY <2>1, RefsEmpty, QueueRefsEmpty DEF OneOwner
  <2>3. AllHandles = {}
    BY <2>1 DEF AllHandles, HandlesOf, RangeOf
  <2>4. <<>> \in Seq(Byte)
    OBVIOUS
  <2>. QED BY <2>1, <2>2, <2>3, <2>4 DEF MemOK
<1>5. Stage
  BY DEF WriteInit, Stage
<1>. QED BY <1>1, <1>2, <1>3, <1>4, <1>5 DEF CountsInv

(* Every step keeps the invariant. *)
LEMMA WriteNextKeeps == CountsInv /\ [WriteNext]_writeVars => CountsInv'
<1>. SUFFICES ASSUME CountsInv, [WriteNext]_writeVars PROVE CountsInv'
  OBVIOUS
<1>1. CASE UNCHANGED writeVars
  <2>1. UNCHANGED <<step, asmVars>> /\ UNCHANGED <<mem, refCount, buf, content, queue, sending>>
        /\ UNCHANGED netVars
    BY <1>1 DEF writeVars, asmVars, netVars, sendVars, writeBufVars
  <2>. QED BY <2>1, AsmUnchanged, MemUnchanged, NetUnchanged DEF CountsInv
<1>2. CASE WriteNext
  BY <1>2, BeginKeeps, AppendPieceKeeps, ReserveKeeps, HeaderReservedKeeps, PieceReservedKeeps,
     ContentDoneKeeps, RefillKeeps, PutKeeps, MetaDoneKeeps, FillChunkKeeps, FlushKeeps,
     BodyDoneKeeps, SealKeeps, StartSendKeeps, OnWriteSomeKeeps, CloseWriterKeeps DEF WriteNext
<1>. QED BY <1>1, <1>2

(* The invariant says that the counts are exact. *)
LEMMA CountsInvExact == CountsInv => CountsExact
BY DEF CountsInv, BufOK, NetOK, MemOK, CountsExact

(* A block is never freed while a buffer, the queue or the write in progress *)
(* still refers to it, and never kept after; ByteCount() is what the handles  *)
(* of the buffer add up to; a stream backs up no more than it was last given; *)
(* and a partial write leaves as much to send as the ReadBuffer has.  For any *)
(* sizes, whatever the order of assembly, writes and a close (buffer.h,       *)
(* on_write_some() of the message stream).                                    *)
THEOREM CountsCorrect == WriteSpec => []CountsExact
<1>1. WriteInit => CountsInv
  BY WriteInitOK
<1>2. CountsInv /\ [WriteNext]_writeVars => CountsInv'
  BY WriteNextKeeps
<1>3. CountsInv => CountsExact
  BY CountsInvExact
<1>. QED BY <1>1, <1>2, <1>3, PTL DEF WriteSpec
-----------------------------------------------------------------------------
(* What a buffer shows of a sequence of bytes *)

(* Bytes d + 1 .. d + n of a buffer, as far as it has them, are s[1 .. n]. *)
Shows(hs, contents, s, d, n) ==
    \A i \in DOMAIN hs : \A o \in 1 .. hs[i].size :
        (Offset(hs, i) + o) - d \in 1 .. n =>
            contents[hs[i].block][o] = s[(Offset(hs, i) + o) - d]

(* Every byte of a handle is one of the bytes of the buffer. *)
LEMMA Positions ==
    ASSUME NEW hs \in Seq(WriteHandles), NEW i \in 1 .. Len(hs), NEW o \in 1 .. hs[i].size
    PROVE  /\ hs[i] \in WriteHandles /\ hs[i].size \in Nat /\ o \in Nat /\ o >= 1
           /\ Offset(hs, i) \in Nat /\ Offset(hs, i) + o \in 1 .. Total(hs)
<1>0. Len(hs) \in Nat /\ hs[i] \in WriteHandles
  BY SizesType
<1>1. /\ hs[i] \in WriteHandles /\ hs[i].size \in Nat /\ Len(hs) \in Nat
      /\ i \in 1 .. Len(hs) + 1 /\ i + 1 \in 1 .. Len(hs) + 1
      /\ Len(hs) + 1 \in i + 1 .. Len(hs) + 1
  <2>1. hs[i].size \in Nat
    BY <1>0 DEF WriteHandles
  <2>. QED BY <1>0, <2>1
<1>2. /\ Offset(hs, i) \in Nat /\ Offset(hs, i + 1) = Offset(hs, i) + hs[i].size
      /\ Total(hs) = Offset(hs, Len(hs) + 1) /\ Total(hs) \in Nat
  BY <1>1, Offsets
<1>3. Offset(hs, i + 1) <= Offset(hs, Len(hs) + 1)
  BY <1>1, OffsetsGrow
<1>4. Offset(hs, i) + o <= Total(hs)
  BY <1>1, <1>2, <1>3
<1>. QED BY <1>1, <1>2, <1>4

(* What a buffer shows of one sequence it shows of another that has the   *)
(* same bytes in the same places.                                          *)
LEMMA ShowsMap ==
    ASSUME NEW hs \in Seq(WriteHandles), NEW m, NEW s, NEW d \in Int, NEW n \in Nat,
           NEW t, NEW c \in Int, NEW k \in Nat,
           Shows(hs, m, s, d, n),
           \A p \in 1 .. Total(hs) : p - c \in 1 .. k => p - d \in 1 .. n /\ t[p - c] = s[p - d]
    PROVE  Shows(hs, m, t, c, k)
<1>0. DOMAIN hs = 1 .. Len(hs)
  OBVIOUS
<1>1. ASSUME NEW i \in 1 .. Len(hs), NEW o \in 1 .. hs[i].size, (Offset(hs, i) + o) - c \in 1 .. k
      PROVE  m[hs[i].block][o] = t[(Offset(hs, i) + o) - c]
  <2>. DEFINE p == Offset(hs, i) + o
  <2>1. p \in 1 .. Total(hs) /\ p \in Int
    BY Positions
  <2>2. p - c \in 1 .. k
    BY <1>1, Zenon
  <2>3. p - d \in 1 .. n => m[hs[i].block][o] = s[p - d]
    BY <1>0, Zenon DEF Shows
  <2>. HIDE DEF p
  <2>4. p - d \in 1 .. n /\ t[p - c] = s[p - d]
    BY <2>1, <2>2, Zenon
  <2>5. m[hs[i].block][o] = t[p - c]
    BY <2>3, <2>4, Zenon
  <2>. QED BY <2>5, Zenon DEF p
<1>. QED BY <1>0, <1>1 DEF Shows

(* Only the blocks of its handles matter to a buffer. *)
LEMMA ShowsKept ==
    ASSUME NEW hs, NEW m, NEW w, NEW s, NEW d, NEW n, Shows(hs, m, s, d, n),
           \A i \in DOMAIN hs : w[hs[i].block] = m[hs[i].block]
    PROVE  Shows(hs, w, s, d, n)
BY Zenon DEF Shows

(* Without handles a buffer shows anything. *)
LEMMA ShowsEmpty ==
    ASSUME NEW m, NEW s, NEW d, NEW n
    PROVE  Shows(<<>>, m, s, d, n)
BY DEF Shows

(* A handle appended is behind all that matters. *)
LEMMA ShowsAppend ==
    ASSUME NEW hs \in Seq(WriteHandles), NEW h \in WriteHandles, NEW m, NEW s, NEW d \in Int,
           NEW n \in Nat, Shows(hs, m, s, d, n), d + n <= Total(hs)
    PROVE  Shows(Append(hs, h), m, s, d, n)
<1>. DEFINE gs == Append(hs, h)
            k == Len(hs)
<1>1. /\ gs \in Seq(WriteHandles) /\ Len(gs) = k + 1 /\ k \in Nat
      /\ \A i \in 1 .. k : gs[i] = hs[i]
      /\ gs[k + 1] = h
      /\ \A i \in 1 .. k + 1 : Offset(gs, i) = Offset(hs, i)
      /\ DOMAIN hs = 1 .. k
  BY OffsetsAppend
<1>2. Total(hs) = Offset(hs, k + 1) /\ Total(hs) \in Nat /\ h.size \in Nat
  BY Offsets DEF WriteHandles
<1>. HIDE DEF gs, k
<1>3. DOMAIN gs = 1 .. k + 1
  BY <1>1
<1>4. ASSUME NEW i \in 1 .. k + 1, NEW o \in 1 .. gs[i].size, (Offset(gs, i) + o) - d \in 1 .. n
      PROVE  m[gs[i].block][o] = s[(Offset(gs, i) + o) - d]
  <2>1. CASE i = k + 1
    <3>1. gs[i] = h /\ Offset(gs, i) = Total(hs)
      BY <1>1, <1>2, <2>1
    <3>2. o >= 1 /\ o \in Nat
      BY <1>2, <3>1
    <3>3. (Total(hs) + o) - d <= n
      BY <1>4, <3>1
    <3>. QED BY <1>2, <3>2, <3>3
  <2>2. CASE i # k + 1
    <3>1. i \in 1 .. k
      BY <1>1, <2>2
    <3>2. gs[i] = hs[i] /\ Offset(gs, i) = Offset(hs, i)
      BY <1>1, <3>1
    <3>3. i \in DOMAIN hs /\ o \in 1 .. hs[i].size /\ (Offset(hs, i) + o) - d \in 1 .. n
      BY <1>1, <1>4, <3>1, <3>2
    <3>4. m[hs[i].block][o] = s[(Offset(hs, i) + o) - d]
      BY <3>3 DEF Shows
    <3>. QED BY <3>2, <3>4
  <2>. QED BY <2>1, <2>2
<1>. QED BY <1>3, <1>4 DEF Shows, gs

(* The last handle may shrink, or grow behind all that matters. *)
LEMMA ShowsResize ==
    ASSUME NEW hs \in Seq(WriteHandles), hs # <<>>, NEW l \in Nat, NEW gs, gs = Resized(hs, l),
           NEW m, NEW s, NEW d \in Int, NEW n \in Nat, Shows(hs, m, s, d, n),
           d + n <= Total(hs) \/ l <= hs[Len(hs)].size
    PROVE  Shows(gs, m, s, d, n)
<1>. DEFINE k == Len(hs)
<1>1. /\ gs \in Seq(WriteHandles) /\ Len(gs) = k /\ k \in Nat /\ k >= 1
      /\ \A i \in 1 .. k : gs[i].block = hs[i].block
      /\ \A i \in 1 .. k - 1 : gs[i] = hs[i]
      /\ gs[k] = [block |-> hs[k].block, size |-> l]
      /\ \A i \in 1 .. k : Offset(gs, i) = Offset(hs, i)
      /\ DOMAIN hs = 1 .. k
  BY OffsetsResize
<1>2. /\ k \in 1 .. k /\ Total(hs) = Offset(hs, k) + hs[k].size /\ Offset(hs, k) \in Nat
      /\ hs[k].size \in Nat
  <2>1. k \in 1 .. k /\ k \in 1 .. k + 1 /\ hs[k] \in WriteHandles
    BY <1>1
  <2>2. hs[k].size \in Nat
    BY <2>1 DEF WriteHandles
  <2>3. /\ Total(hs) = Offset(hs, k + 1) /\ Offset(hs, k + 1) = Offset(hs, k) + hs[k].size
        /\ Offset(hs, k) \in Nat
    BY <2>1, Offsets
  <2>. QED BY <2>1, <2>2, <2>3
<1>3. d + n <= Offset(hs, k) + hs[k].size \/ l <= hs[k].size
  BY <1>2
<1>. HIDE DEF k
<1>4. DOMAIN gs = 1 .. k
  BY <1>1
<1>5. ASSUME NEW i \in 1 .. k, NEW o \in 1 .. gs[i].size, (Offset(gs, i) + o) - d \in 1 .. n
      PROVE  m[gs[i].block][o] = s[(Offset(gs, i) + o) - d]
  <2>1. gs[i].block = hs[i].block /\ Offset(gs, i) = Offset(hs, i)
    BY <1>1
  <2>2. o \in 1 .. hs[i].size
    <3>1. CASE i = k
      <4>1. o \in 1 .. l
        BY <1>1, <3>1
      <4>2. (Offset(hs, k) + o) - d <= n
        BY <1>5, <2>1, <3>1
      <4>3. o \in Nat /\ o >= 1 /\ o <= l
        BY <4>1
      <4>4. o <= hs[k].size
        <5>. DEFINE a == Offset(hs, k)
                    z == hs[k].size
        <5>1. /\ a \in Nat /\ z \in Nat /\ (a + o) - d <= n
              /\ d + n <= a + z \/ l <= z
          BY <1>2, <1>3, <4>2
        <5>. HIDE DEF a, z
        <5>2. o <= z
          BY <4>3, <5>1
        <5>. QED BY <5>2 DEF z
      <4>. QED BY <1>2, <3>1, <4>3, <4>4
    <3>2. CASE i # k
      <4>1. i \in 1 .. k - 1
        BY <1>1, <3>2
      <4>. QED BY <1>1, <4>1
    <3>. QED BY <3>1, <3>2
  <2>3. (Offset(hs, i) + o) - d \in 1 .. n
    BY <1>5, <2>1
  <2>4. m[hs[i].block][o] = s[(Offset(hs, i) + o) - d]
    BY <1>1, <2>2, <2>3 DEF Shows
  <2>. QED BY <2>1, <2>4
<1>. QED BY <1>4, <1>5 DEF Shows

(* In a list behind another the handles are where they were, after all of *)
(* the first list.                                                         *)
LEMMA OffsetsConcat ==
    ASSUME NEW hs \in Seq(WriteHandles), NEW gs \in Seq(WriteHandles)
    PROVE  /\ hs \o gs \in Seq(WriteHandles) /\ Len(hs \o gs) = Len(hs) + Len(gs)
           /\ \A i \in 1 .. Len(hs) : /\ (hs \o gs)[i] = hs[i]
                                      /\ Offset(hs \o gs, i) = Offset(hs, i)
           /\ \A i \in 1 .. Len(gs) : /\ (hs \o gs)[Len(hs) + i] = gs[i]
                                      /\ Offset(hs \o gs, Len(hs) + i) = Total(hs) + Offset(gs, i)
           /\ Total(hs \o gs) = Total(hs) + Total(gs)
<1>. DEFINE n == Len(hs)
            k == Len(gs)
            all == hs \o gs
<1>1. /\ n \in Nat /\ k \in Nat
      /\ all \in Seq(WriteHandles) /\ Len(all) = n + k
      /\ \A i \in 1 .. n : all[i] = hs[i]
      /\ \A i \in 1 .. k : all[n + i] = gs[i]
  OBVIOUS
<1>2. \A i \in 1 .. n + 1 : Offset(all, i) = Offset(hs, i)
  <2>. HIDE DEF all
  <2>1. n <= Len(hs) /\ n <= Len(all) /\ \A i \in 1 .. n : hs[i].size = all[i].size
    BY <1>1 DEF n
  <2>2. \A i \in 1 .. n + 1 : Offset(hs, i) = Offset(all, i)
    BY <1>1, <2>1, OffsetsAgree
  <2>. QED BY <2>2
<1>3. /\ Total(hs) = Offset(hs, n + 1) /\ Total(hs) \in Nat
      /\ Offset(gs, 1) = 0
      /\ \A i \in 1 .. k + 1 : Offset(gs, i) \in Nat
      /\ \A i \in 1 .. k : Offset(gs, i + 1) = Offset(gs, i) + gs[i].size
      /\ \A i \in 1 .. k : gs[i].size \in Nat
      /\ Total(gs) = Offset(gs, k + 1)
  <2>1. \A i \in 1 .. k : gs[i] \in WriteHandles
    OBVIOUS
  <2>2. \A i \in 1 .. k : gs[i].size \in Nat
    BY <2>1 DEF WriteHandles
  <2>. QED BY <2>2, Offsets
<1>4. /\ \A i \in 1 .. n + k : Offset(all, i + 1) = Offset(all, i) + all[i].size
      /\ Total(all) = Offset(all, (n + k) + 1)
  <2>. HIDE DEF all
  <2>. QED BY <1>1, Offsets
<1>. HIDE DEF n, k, all
<1>. DEFINE T == { i \in 0 .. k : Offset(all, (n + i) + 1) = Total(hs) + Offset(gs, i + 1) }
<1>5. 0 \in T
  <2>1. (n + 0) + 1 = n + 1 /\ n + 1 \in 1 .. n + 1 /\ 0 + 1 = 1 /\ 0 \in 0 .. k
    BY <1>1
  <2>2. Offset(all, n + 1) = Total(hs) + Offset(gs, 1)
    BY <1>2, <1>3, <2>1
  <2>. QED BY <2>1, <2>2
<1>6. ASSUME NEW i \in 1 .. k, i - 1 \in T PROVE i \in T
  <2>1. /\ (n + (i - 1)) + 1 = n + i /\ (i - 1) + 1 = i /\ i \in 0 .. k /\ i \in 1 .. k + 1
        /\ n + i \in 1 .. n + k
    BY <1>1
  <2>2. Offset(all, n + i) = Total(hs) + Offset(gs, i)
    BY <1>6, <2>1
  <2>3. Offset(all, (n + i) + 1) = Offset(all, n + i) + gs[i].size
    BY <1>1, <1>4, <2>1
  <2>4. Offset(gs, i + 1) = Offset(gs, i) + gs[i].size
    BY <1>3
  <2>5. Offset(gs, i) \in Nat /\ gs[i].size \in Nat /\ Total(hs) \in Nat
    BY <1>3, <2>1
  <2>6. Offset(all, (n + i) + 1) = Total(hs) + Offset(gs, i + 1)
    BY <2>2, <2>3, <2>4, <2>5
  <2>. QED BY <2>1, <2>6
<1>7. \A i \in 0 .. k : i \in T
  <2>. HIDE DEF T
  <2>. QED BY <1>1, <1>5, <1>6, UpTo
<1>8. ASSUME NEW i \in 1 .. k PROVE Offset(all, n + i) = Total(hs) + Offset(gs, i)
  <2>1. i - 1 \in 0 .. k /\ (n + (i - 1)) + 1 = n + i /\ (i - 1) + 1 = i
    BY <1>1
  <2>2. Offset(all, (n + (i - 1)) + 1) = Total(hs) + Offset(gs, (i - 1) + 1)
    BY <1>7, <2>1
  <2>. QED BY <2>1, <2>2
<1>9. Total(all) = Total(hs) + Total(gs)
  <2>1. k \in 0 .. k
    BY <1>1
  <2>. QED BY <1>3, <1>4, <1>7, <2>1
<1>10. \A i \in 1 .. n : i \in 1 .. n + 1
  BY <1>1
<1>. QED BY <1>1, <1>2, <1>8, <1>9, <1>10 DEF n, k, all

(* What two lists show one after the other. *)
LEMMA ShowsConcat ==
    ASSUME NEW hs \in Seq(WriteHandles), NEW gs \in Seq(WriteHandles), NEW m, NEW s,
           NEW d \in Int, NEW n \in Nat,
           Shows(hs, m, s, d, n), Shows(gs, m, s, d - Total(hs), n)
    PROVE  Shows(hs \o gs, m, s, d, n)
<1>. DEFINE all == hs \o gs
            l == Len(hs)
            k == Len(gs)
<1>1. /\ all \in Seq(WriteHandles) /\ Len(all) = l + k
      /\ \A i \in 1 .. l : all[i] = hs[i] /\ Offset(all, i) = Offset(hs, i)
      /\ \A i \in 1 .. k : all[l + i] = gs[i] /\ Offset(all, l + i) = Total(hs) + Offset(gs, i)
  BY OffsetsConcat
<1>2. l \in Nat /\ k \in Nat /\ DOMAIN hs = 1 .. l /\ DOMAIN gs = 1 .. k
  OBVIOUS
<1>3. Total(hs) \in Nat
  BY Offsets
<1>4. \A i \in 1 .. k : \A o \in 1 .. gs[i].size : Offset(gs, i) \in Nat /\ o \in Nat
  BY Positions
<1>. HIDE DEF all, l, k
<1>5. DOMAIN all = 1 .. l + k
  BY <1>1, <1>2
<1>6. ASSUME NEW i \in 1 .. l + k, NEW o \in 1 .. all[i].size, (Offset(all, i) + o) - d \in 1 .. n
      PROVE  m[all[i].block][o] = s[(Offset(all, i) + o) - d]
  <2>1. CASE i \in 1 .. l
    <3>1. all[i] = hs[i] /\ Offset(all, i) = Offset(hs, i) /\ i \in DOMAIN hs
      BY <1>1, <1>2, <2>1
    <3>2. o \in 1 .. hs[i].size /\ (Offset(hs, i) + o) - d \in 1 .. n
      BY <1>6, <3>1
    <3>3. m[hs[i].block][o] = s[(Offset(hs, i) + o) - d]
      BY <3>1, <3>2 DEF Shows
    <3>. QED BY <3>1, <3>3
  <2>2. CASE i \notin 1 .. l
    <3>. DEFINE j == i - l
    <3>1. j \in 1 .. k /\ i = l + j
      BY <1>2, <2>2
    <3>. HIDE DEF j
    <3>2. all[i] = gs[j] /\ Offset(all, i) = Total(hs) + Offset(gs, j) /\ j \in DOMAIN gs
      BY <1>1, <1>2, <3>1
    <3>3. o \in 1 .. gs[j].size
      BY <3>2
    <3>4. Offset(gs, j) \in Nat /\ o \in Nat
      BY <1>4, <3>1, <3>3
    <3>5. (Offset(all, i) + o) - d = (Offset(gs, j) + o) - (d - Total(hs))
      BY <1>3, <3>2, <3>4
    <3>6. (Offset(gs, j) + o) - (d - Total(hs)) \in 1 .. n
      BY <1>6, <3>5
    <3>7. m[gs[j].block][o] = s[(Offset(gs, j) + o) - (d - Total(hs))]
      BY <3>2, <3>3, <3>6 DEF Shows
    <3>. QED BY <3>2, <3>5, <3>7
  <2>. QED BY <2>1, <2>2
<1>. QED BY <1>5, <1>6 DEF Shows, all

(* SwapOut() changes nothing of what a list shows. *)
LEMMA ShowsSwapOut ==
    ASSUME NEW hs \in Seq(WriteHandles), NEW m, NEW s, NEW d, NEW n, Shows(hs, m, s, d, n)
    PROVE  /\ SwapOut(hs) \in Seq(WriteHandles)
           /\ Total(SwapOut(hs)) = Total(hs)
           /\ Shows(SwapOut(hs), m, s, d, n)
<1>. DEFINE ks == SwapOut(hs)
<1>1. /\ ks \in Seq(WriteHandles) /\ Total(ks) = Offset(hs, Len(hs) + 1)
      /\ \A j \in 1 .. Len(ks) : \E i \in 1 .. Len(hs) : ks[j] = hs[i] /\ Offset(ks, j) = Offset(hs, i)
  BY SwapOutKeeps DEF KeptFrom
<1>2. Total(hs) = Offset(hs, Len(hs) + 1)
  BY Offsets
<1>. HIDE DEF ks
<1>3. DOMAIN ks = 1 .. Len(ks) /\ DOMAIN hs = 1 .. Len(hs)
  BY <1>1
<1>4. ASSUME NEW j \in 1 .. Len(ks), NEW o \in 1 .. ks[j].size, (Offset(ks, j) + o) - d \in 1 .. n
      PROVE  m[ks[j].block][o] = s[(Offset(ks, j) + o) - d]
  <2>1. PICK i \in 1 .. Len(hs) : ks[j] = hs[i] /\ Offset(ks, j) = Offset(hs, i)
    BY <1>1
  <2>2. i \in DOMAIN hs /\ o \in 1 .. hs[i].size /\ (Offset(hs, i) + o) - d \in 1 .. n
    BY <1>3, <1>4, <2>1
  <2>3. m[hs[i].block][o] = s[(Offset(hs, i) + o) - d]
    BY <2>2 DEF Shows
  <2>. QED BY <2>1, <2>3
<1>5. Shows(ks, m, s, d, n)
  BY <1>3, <1>4 DEF Shows
<1>. QED BY <1>1, <1>2, <1>5 DEF ks

(* No two handles of the buffer, nor of it and another list, have the same *)
(* block.                                                                  *)
LEMMA BlocksApart ==
    ASSUME ListsOK, MemOK, NEW i \in DOMAIN buf
    PROVE  /\ buf[i].block \in Blocks /\ buf[i] \in WriteHandles
           /\ \A j \in DOMAIN buf : j # i => buf[j].block # buf[i].block
           /\ RefsOf(content)[buf[i].block] = 0
           /\ QueueRefs(queue)[buf[i].block] = 0
           /\ RefsOf(sending)[buf[i].block] = 0
<1>. DEFINE b == buf[i].block
<1>1. b \in Blocks /\ RefsOf(buf)[b] >= 1
  BY RefsSome DEF ListsOK
<1>2. buf[i] \in WriteHandles
  BY DEF ListsOK
<1>. HIDE DEF b
<1>3. /\ RefsOf(buf)[b] \in Nat /\ RefsOf(content)[b] \in Nat /\ RefsOf(sending)[b] \in Nat
      /\ QueueRefs(queue)[b] \in Nat
  BY <1>1, RefsType, QueueRefsType DEF ListsOK
<1>4. ((RefsOf(buf)[b] + RefsOf(content)[b]) + QueueRefs(queue)[b]) + RefsOf(sending)[b] <= 1
  BY <1>1 DEF MemOK, OneOwner
<1>5. /\ RefsOf(buf)[b] <= 1 /\ RefsOf(content)[b] = 0 /\ QueueRefs(queue)[b] = 0
      /\ RefsOf(sending)[b] = 0
  BY <1>1, <1>3, <1>4
<1>6. ASSUME NEW j \in DOMAIN buf, j # i, buf[j].block = b PROVE FALSE
  <2>1. RefsOf(buf)[b] >= 2
    BY <1>6, RefsTwo DEF ListsOK, b
  <2>. QED BY <1>3, <1>5, <2>1
<1>. QED BY <1>1, <1>2, <1>5, <1>6 DEF b

-----------------------------------------------------------------------------
(* The bytes in the buffers: the invariant *)

StreamSteps == {"meta", "compress", "flush", "body", "head", "seal"}
Base == IF msg.kind = "page" THEN 0 ELSE HeaderSize

(* What the streams were given to write behind the base, and how much of it *)
(* they have put there.                                                      *)
Planned == IF msg.kind = "page" THEN Bytes("head", msg.meta, Len(encoded))
           ELSE Bytes("meta", msg.meta, <<>>) \o encoded
Stored == Len(Planned) - Len(out)

AsmStage ==
    /\ step \in {"reserve", "meta", "compress", "flush", "body"} => msg.kind # "page"
    /\ step \in {"reserve", "meta"} => encoded = <<>>
    /\ step \in {"reserve", "flush", "seal"} => out = <<>>
    /\ step \in {"compress", "flush", "body", "seal"} /\ msg.kind # "page" => metaSize = msg.meta
    /\ step # "idle" /\ msg.kind # "page" => from = 0 /\ content = <<>>

(* The pieces of a page so far are in the buffer. *)
PageBytes ==
    step = "append" =>
        /\ left <= Len(out)
        /\ writeBytes + left = Len(encoded) + Len(out)
        /\ out # <<>> => from = Len(encoded)
        /\ Shows(buf, mem, encoded, 0, Len(encoded))

(* What the streams have put is in the buffer, behind the base. *)
StreamBytes ==
    step \in StreamSteps =>
        /\ Stored \in Nat
        /\ \A j \in 1 .. Len(out) : out[j] = Planned[Stored + j]
        /\ writeBytes - room = Base + Stored
        /\ Shows(buf, mem, Planned, Base, Stored)

(* The content of a page is in a buffer of its own. *)
ContentBytes ==
    step \in {"head", "seal"} /\ msg.kind = "page" =>
        /\ Total(content) = Len(encoded)
        /\ Shows(content, mem, encoded, 0, Len(encoded))

AsmBytes == AsmStage /\ PageBytes /\ StreamBytes /\ ContentBytes

(* Each ReadBuffer shows the promised bytes from its start. *)
LaidOut(starts) ==
    /\ starts[Len(queue) + 1] = Len(promised)
    /\ \A k \in DOMAIN queue :
          /\ starts[k + 1] = starts[k] + Total(queue[k])
          /\ Shows(queue[k], mem, promised, 0 - starts[k], Len(promised))
    /\ sending = <<>> => Len(onWire) = starts[1]
    /\ sending # <<>> =>
          /\ (Len(onWire) - sentSize) + Total(sending) = starts[1]
          /\ Shows(sending, mem, promised, sentSize - Len(onWire), Len(promised))
          /\ sendingData[1] = sending[cur].block
          /\ sendingData[2] \in Nat /\ sendingData[2] + sendingSize = sending[cur].size

WirePrefix ==
    /\ promised \in Seq(Byte) /\ onWire \in Seq(Byte)
    /\ Len(onWire) <= Len(promised)
    /\ \A j \in 1 .. Len(onWire) : onWire[j] = promised[j]

NetBytes ==
    /\ WirePrefix
    /\ ~closed => \E starts \in [1 .. Len(queue) + 1 -> 0 .. Len(promised)] : LaidOut(starts)

WireInv == AsmBytes /\ NetBytes

(* A block is counted for its one owner. *)
LEMMA OwnerCounts ==
    ASSUME ListsOK, MemOK, NEW b \in Blocks
    PROVE  /\ RefsOf(buf)[b] \in Nat /\ RefsOf(content)[b] \in Nat /\ QueueRefs(queue)[b] \in Nat
           /\ RefsOf(sending)[b] \in Nat /\ refCount[b] \in Nat /\ refCount[b] <= 1
           /\ refCount[b] = ((RefsOf(buf)[b] + RefsOf(content)[b]) + QueueRefs(queue)[b])
                               + RefsOf(sending)[b]
<1>1. /\ RefsOf(buf)[b] \in Nat /\ RefsOf(content)[b] \in Nat /\ RefsOf(sending)[b] \in Nat
      /\ QueueRefs(queue)[b] \in Nat
  BY RefsType, QueueRefsType DEF ListsOK
<1>2. /\ refCount[b] \in Nat /\ refCount[b] <= 1
      /\ refCount[b] = ((RefsOf(buf)[b] + RefsOf(content)[b]) + QueueRefs(queue)[b])
                               + RefsOf(sending)[b]
  BY DEF MemOK, OneOwner
<1>. QED BY <1>1, <1>2

(* What is sent stays right when its blocks stay as they are. *)
LEMMA NetBytesKept ==
    ASSUME ListsOK, NetBytes, UNCHANGED netVars,
           \A b \in Blocks : QueueRefs(queue)[b] > 0 \/ RefsOf(sending)[b] > 0 => mem'[b] = mem[b]
    PROVE  NetBytes'
<1>1. /\ queue' = queue /\ sending' = sending /\ cur' = cur /\ sendingData' = sendingData
      /\ sendingSize' = sendingSize /\ sentSize' = sentSize /\ closed' = closed
      /\ promised' = promised /\ onWire' = onWire
  BY DEF netVars, sendVars
<1>2. WirePrefix'
  BY <1>1 DEF WirePrefix, NetBytes
<1>3. ASSUME NEW k \in DOMAIN queue, NEW d, Shows(queue[k], mem, promised, d, Len(promised))
      PROVE  Shows(queue[k], mem', promised, d, Len(promised))
  <2>1. queue[k] \in Seq(WriteHandles)
    BY DEF ListsOK
  <2>2. ASSUME NEW i \in DOMAIN queue[k] PROVE mem'[queue[k][i].block] = mem[queue[k][i].block]
    <3>. DEFINE b == queue[k][i].block
    <3>1. b \in Blocks /\ RefsOf(queue[k])[b] >= 1
      BY <2>1, RefsSome
    <3>. HIDE DEF b
    <3>2. RefsOf(queue[k])[b] <= QueueRefs(queue)[b] /\ QueueRefs(queue)[b] \in Nat
      BY <3>1, QueueRefsOne, QueueRefsType DEF ListsOK
    <3>3. RefsOf(queue[k])[b] \in Nat
      BY <2>1, <3>1, RefsType
    <3>4. QueueRefs(queue)[b] > 0
      BY <3>1, <3>2, <3>3
    <3>5. mem'[b] = mem[b]
      BY <3>1, <3>4
    <3>. QED BY <3>5 DEF b
  <2>. QED BY <1>3, <2>2, ShowsKept
<1>4. ASSUME NEW d, Shows(sending, mem, promised, d, Len(promised))
      PROVE  Shows(sending, mem', promised, d, Len(promised))
  <2>1. sending \in Seq(WriteHandles)
    BY DEF ListsOK
  <2>2. ASSUME NEW i \in DOMAIN sending PROVE mem'[sending[i].block] = mem[sending[i].block]
    <3>. DEFINE b == sending[i].block
    <3>1. b \in Blocks /\ RefsOf(sending)[b] >= 1
      BY <2>1, RefsSome
    <3>. HIDE DEF b
    <3>2. RefsOf(sending)[b] \in Nat
      BY <2>1, <3>1, RefsType
    <3>3. RefsOf(sending)[b] > 0
      BY <3>1, <3>2
    <3>4. mem'[b] = mem[b]
      BY <3>1, <3>3
    <3>. QED BY <3>4 DEF b
  <2>. QED BY <1>4, <2>2, ShowsKept
<1>5. ASSUME NEW starts, LaidOut(starts) PROVE LaidOut(starts)'
  <2>. USE <1>5 DEF LaidOut
  <2>1. (starts[Len(queue) + 1] = Len(promised))'
    BY <1>1
  <2>2. ASSUME NEW k \in DOMAIN queue'
        PROVE  /\ starts[k + 1] = starts[k] + Total(queue'[k])
               /\ Shows(queue'[k], mem', promised', 0 - starts[k], Len(promised'))
    <3>1. k \in DOMAIN queue
      BY <1>1
    <3>2. /\ starts[k + 1] = starts[k] + Total(queue[k])
          /\ Shows(queue[k], mem, promised, 0 - starts[k], Len(promised))
      BY <3>1
    <3>3. Shows(queue[k], mem', promised, 0 - starts[k], Len(promised))
      BY <1>3, <3>1, <3>2
    <3>. QED BY <1>1, <3>2, <3>3
  <2>3. (sending = <<>> => Len(onWire) = starts[1])'
    BY <1>1
  <2>4. ASSUME sending' # <<>>
        PROVE  (/\ (Len(onWire) - sentSize) + Total(sending) = starts[1]
                /\ Shows(sending, mem, promised, sentSize - Len(onWire), Len(promised))
                /\ sendingData[1] = sending[cur].block
                /\ sendingData[2] \in Nat /\ sendingData[2] + sendingSize = sending[cur].size)'
    <3>1. sending # <<>>
      BY <1>1, <2>4
    <3>2. Shows(sending, mem', promised, sentSize - Len(onWire), Len(promised))
      BY <1>4, <3>1
    <3>. QED BY <1>1, <3>1, <3>2
  <2>. QED BY <2>1, <2>2, <2>3, <2>4
<1>6. (~closed => \E starts \in [1 .. Len(queue) + 1 -> 0 .. Len(promised)] : LaidOut(starts))'
  BY <1>1, <1>5 DEF NetBytes
<1>. QED BY <1>2, <1>6 DEF NetBytes

(* The same for what is assembled. *)
LEMMA AsmBytesKept ==
    ASSUME ListsOK, AsmBytes,
           UNCHANGED <<step, begun, msg, buf, writeBytes, content, from, left, out, room, metaSize,
                       encoded>>,
           \A b \in Blocks : RefsOf(buf)[b] > 0 \/ RefsOf(content)[b] > 0 => mem'[b] = mem[b]
    PROVE  AsmBytes'
<1>1. /\ step' = step /\ begun' = begun /\ msg' = msg /\ buf' = buf /\ writeBytes' = writeBytes
      /\ content' = content /\ from' = from /\ left' = left /\ out' = out /\ room' = room
      /\ metaSize' = metaSize /\ encoded' = encoded
  OBVIOUS
<1>2. ASSUME NEW hs \in Seq(WriteHandles), NEW i \in DOMAIN hs,
             \A b \in Blocks : RefsOf(hs)[b] > 0 => mem'[b] = mem[b]
      PROVE  mem'[hs[i].block] = mem[hs[i].block]
  <2>. DEFINE b == hs[i].block
  <2>1. b \in Blocks /\ RefsOf(hs)[b] >= 1
    BY RefsSome
  <2>. HIDE DEF b
  <2>2. RefsOf(hs)[b] \in Nat
    BY <2>1, RefsType
  <2>3. RefsOf(hs)[b] > 0
    BY <2>1, <2>2
  <2>4. mem'[b] = mem[b]
    BY <1>2, <2>1, <2>3
  <2>. QED BY <2>4 DEF b
<1>3. \A s, d, n : Shows(buf, mem, s, d, n) => Shows(buf, mem', s, d, n)
  <2>1. buf \in Seq(WriteHandles) /\ \A b \in Blocks : RefsOf(buf)[b] > 0 => mem'[b] = mem[b]
    BY DEF ListsOK
  <2>2. \A i \in DOMAIN buf : mem'[buf[i].block] = mem[buf[i].block]
    BY <1>2, <2>1
  <2>. QED BY <2>2, ShowsKept
<1>4. \A s, d, n : Shows(content, mem, s, d, n) => Shows(content, mem', s, d, n)
  <2>1. content \in Seq(WriteHandles) /\ \A b \in Blocks : RefsOf(content)[b] > 0 => mem'[b] = mem[b]
    BY DEF ListsOK
  <2>2. \A i \in DOMAIN content : mem'[content[i].block] = mem[content[i].block]
    BY <1>2, <2>1
  <2>. QED BY <2>2, ShowsKept
<1>5. Planned' = Planned /\ Base' = Base /\ Stored' = Stored
  BY <1>1 DEF Planned, Base, Stored, Bytes
<1>6. AsmStage'
  BY <1>1 DEF AsmStage, AsmBytes
<1>7. PageBytes'
  BY <1>1, <1>3 DEF PageBytes, AsmBytes
<1>8. StreamBytes'
  BY <1>1, <1>3, <1>5 DEF StreamBytes, AsmBytes
<1>9. ContentBytes'
  BY <1>1, <1>4 DEF ContentBytes, AsmBytes
<1>. QED BY <1>6, <1>7, <1>8, <1>9 DEF AsmBytes

-----------------------------------------------------------------------------
(* What the operations of the buffer do to the bytes *)

(* SetData() changes the bytes it is given, in the blocks of the buffer. *)
LEMMA SetDataBytes ==
    ASSUME ListsOK, MemOK, NEW at \in Nat, NEW bs \in Seq(Byte)
    PROVE  /\ \A b \in Blocks : RefsOf(buf)[b] = 0 => SetData(at, bs)[b] = mem[b]
           /\ \A i \in DOMAIN buf : \A o \in 1 .. buf[i].size :
                 SetData(at, bs)[buf[i].block][o]
                    = IF (Offset(buf, i) + o) - at \in 1 .. Len(bs)
                      THEN bs[(Offset(buf, i) + o) - at] ELSE mem[buf[i].block][o]
<1>. DEFINE Places(b, o) == { i \in DOMAIN buf : /\ buf[i].block = b /\ o <= buf[i].size
                                                 /\ Offset(buf, i) + o - at \in DOMAIN bs }
            new(b, o) == IF Places(b, o) = {} THEN mem[b][o]
                         ELSE bs[Offset(buf, CHOOSE i \in Places(b, o) : TRUE) + o - at]
<1>1. SetData(at, bs) = [b \in Blocks |-> [o \in DOMAIN mem[b] |-> new(b, o)]]
  BY Zenon DEF SetData
<1>2. \A b \in Blocks : SetData(at, bs)[b] = [o \in DOMAIN mem[b] |-> new(b, o)]
  <2>. HIDE DEF new
  <2>. QED BY <1>1
<1>3. ASSUME NEW b \in Blocks, RefsOf(buf)[b] = 0 PROVE SetData(at, bs)[b] = mem[b]
  <2>1. \A i \in DOMAIN buf : buf[i].block # b
    <3>1. ASSUME NEW i \in DOMAIN buf, buf[i].block = b PROVE FALSE
      <4>1. RefsOf(buf)[b] >= 1
        BY <3>1, RefsSome DEF ListsOK
      <4>. QED BY <1>3, <4>1
    <3>. QED BY <3>1
  <2>2. \A o : Places(b, o) = {}
    BY <2>1
  <2>3. \A o : new(b, o) = mem[b][o]
    <3>. HIDE DEF Places
    <3>. QED BY <2>2
  <2>. HIDE DEF new
  <2>4. mem[b] \in Seq(Byte)
    BY DEF MemOK
  <2>5. SetData(at, bs)[b] = [o \in DOMAIN mem[b] |-> mem[b][o]]
    BY <1>2, <2>3
  <2>. QED BY <2>4, <2>5
<1>4. ASSUME NEW i \in DOMAIN buf, NEW o \in 1 .. buf[i].size
      PROVE  SetData(at, bs)[buf[i].block][o]
                = IF (Offset(buf, i) + o) - at \in 1 .. Len(bs)
                  THEN bs[(Offset(buf, i) + o) - at] ELSE mem[buf[i].block][o]
  <2>. DEFINE b == buf[i].block
              p == (Offset(buf, i) + o) - at
  <2>1. /\ buf[i] \in WriteHandles /\ b \in Blocks
        /\ \A j \in DOMAIN buf : j # i => buf[j].block # b
    BY BlocksApart
  <2>2. o \in DOMAIN mem[b]
    <3>1. buf[i] \in AllHandles
      BY DEF AllHandles, HandlesOf, RangeOf
    <3>2. buf[i].size <= Len(mem[b]) /\ mem[b] \in Seq(Byte)
      BY <2>1, <3>1 DEF MemOK
    <3>3. buf[i].size \in Nat
      BY <2>1 DEF WriteHandles
    <3>. HIDE DEF b
    <3>. QED BY <3>2, <3>3
  <2>3. SetData(at, bs)[b][o] = new(b, o)
    <3>. HIDE DEF b, new
    <3>. QED BY <1>2, <2>1, <2>2
  <2>4. Offset(buf, i) \in Nat /\ o \in Nat /\ o <= buf[i].size
    <3>1. buf \in Seq(WriteHandles) /\ i \in 1 .. Len(buf)
      BY DEF ListsOK
    <3>2. Offset(buf, i) \in Nat /\ o \in Nat /\ buf[i].size \in Nat
      BY <3>1, Positions
    <3>. QED BY <3>2
  <2>5. Offset(buf, i) + o - at = p
    BY <2>4
  <2>6. DOMAIN bs = 1 .. Len(bs)
    OBVIOUS
  <2>7. \A j : j \in Places(b, o) <=> j = i /\ p \in 1 .. Len(bs)
    <3>1. ASSUME NEW j, j \in Places(b, o) PROVE j = i /\ p \in 1 .. Len(bs)
      <4>1. j \in DOMAIN buf /\ buf[j].block = b /\ Offset(buf, j) + o - at \in DOMAIN bs
        BY <3>1
      <4>. HIDE DEF b, p
      <4>2. j = i
        BY <2>1, <4>1
      <4>. QED BY <2>5, <2>6, <4>1, <4>2
    <3>2. ASSUME p \in 1 .. Len(bs) PROVE i \in Places(b, o)
      <4>. HIDE DEF p
      <4>1. Offset(buf, i) + o - at \in DOMAIN bs
        BY <2>5, <2>6, <3>2
      <4>. QED BY <2>4, <4>1
    <3>. HIDE DEF Places, b, p
    <3>. QED BY <3>1, <3>2
  <2>. HIDE DEF Places, b, p
  <2>8. CASE p \in 1 .. Len(bs)
    <3>1. Places(b, o) # {} /\ (CHOOSE k \in Places(b, o) : TRUE) \in Places(b, o)
      BY <2>7, <2>8, Zenon
    <3>2. (CHOOSE k \in Places(b, o) : TRUE) = i
      BY <2>7, <3>1, Zenon
    <3>3. new(b, o) = bs[Offset(buf, i) + o - at]
      BY <3>1, <3>2, Zenon
    <3>. HIDE DEF new
    <3>. QED BY <2>3, <2>5, <2>8, <3>3 DEF b, p
  <2>9. CASE p \notin 1 .. Len(bs)
    <3>1. Places(b, o) = {}
      BY <2>7, <2>9
    <3>2. new(b, o) = mem[b][o]
      BY <3>1, Zenon
    <3>. HIDE DEF new
    <3>. QED BY <2>3, <2>9, <3>2 DEF b, p
  <2>. QED BY <2>8, <2>9
<1>. HIDE DEF new, Places
<1>. QED BY <1>3, <1>4

(* Setting the size of the last handle resizes the list. *)
LEMMA ResizedIs ==
    ASSUME NEW hs \in Seq(WriteHandles), hs # <<>>, NEW l
    PROVE  [hs EXCEPT ![Len(hs)].size = l] = Resized(hs, l)
<1>. DEFINE k == Len(hs)
<1>1. k \in Nat /\ DOMAIN hs = 1 .. k /\ k \in 1 .. k /\ hs[k] \in WriteHandles
  OBVIOUS
<1>2. [hs[k] EXCEPT !.size = l] = [block |-> hs[k].block, size |-> l]
  BY <1>1 DEF WriteHandles
<1>3. [hs EXCEPT ![Len(hs)].size = l]
         = [i \in 1 .. k |-> IF i = k THEN [hs[k] EXCEPT !.size = l] ELSE hs[i]]
  BY <1>1
<1>. QED BY <1>2, <1>3 DEF Resized

(* A block that Next() makes was not in use, and its bytes are behind all  *)
(* others.                                                                 *)
LEMMA TakeBytes ==
    ASSUME BufOK, ListsOK, MemOK, NEW n \in Nat, Take(n)
    PROVE  /\ \A b \in Blocks : refCount[b] > 0 => mem'[b] = mem[b]
           /\ \A s : \A d \in Int, k \in Nat :
                 Shows(buf, mem, s, d, k) /\ d + k <= Total(buf) => Shows(buf', mem', s, d, k)
<1>1. buf \in Seq(WriteHandles) /\ mem \in [Blocks -> Seq(Byte)]
  BY DEF ListsOK, MemOK
<1>2. CASE Full
  <2>. DEFINE h == [block |-> Fresh, size |-> n]
  <2>1. /\ { b \in Blocks : refCount[b] = 0 } # {}
        /\ buf' = Append(buf, h)
        /\ mem' = [mem EXCEPT ![Fresh] = [i \in 1 .. FreshSize |-> Junk]]
    BY <1>2 DEF Take
  <2>2. Fresh \in Blocks /\ refCount[Fresh] = 0
    BY <2>1, Zenon DEF Fresh
  <2>3. h \in WriteHandles
    BY <2>2 DEF WriteHandles
  <2>. HIDE DEF h
  <2>4. \A b \in Blocks : refCount[b] > 0 => mem'[b] = mem[b]
    BY <1>1, <2>1, <2>2
  <2>5. ASSUME NEW i \in DOMAIN buf PROVE mem'[buf[i].block] = mem[buf[i].block]
    <3>. DEFINE b == buf[i].block
    <3>1. b \in Blocks /\ RefsOf(buf)[b] >= 1
      BY <1>1, RefsSome
    <3>. HIDE DEF b
    <3>2. refCount[b] > 0
      BY <3>1, OwnerCounts
    <3>3. mem'[b] = mem[b]
      BY <2>4, <3>1, <3>2
    <3>. QED BY <3>3 DEF b
  <2>6. ASSUME NEW s, NEW d \in Int, NEW k \in Nat, Shows(buf, mem, s, d, k), d + k <= Total(buf)
        PROVE  Shows(buf', mem', s, d, k)
    <3>1. Shows(buf, mem', s, d, k)
      BY <2>5, <2>6, ShowsKept
    <3>. QED BY <1>1, <2>1, <2>3, <2>6, <3>1, ShowsAppend
  <2>. QED BY <2>4, <2>6
<1>3. CASE ~Full
  <2>. DEFINE l == LastHandle.size + n
  <2>1. buf' = [buf EXCEPT ![Len(buf)].size = @ + n] /\ mem' = mem
    BY <1>3 DEF Take
  <2>2. buf # <<>>
    BY <1>3 DEF Full, Unused
  <2>3. l \in Nat
    <3>1. Len(buf) \in DOMAIN buf
      BY <1>1, <2>2
    <3>2. LastHandle \in WriteHandles
      BY <1>1, <3>1 DEF LastHandle
    <3>3. LastHandle.size \in Nat
      BY <3>2 DEF WriteHandles
    <3>. QED BY <3>3
  <2>4. buf' = [buf EXCEPT ![Len(buf)].size = l]
    BY <2>1 DEF LastHandle
  <2>. HIDE DEF l
  <2>5. buf' = Resized(buf, l)
    BY <1>1, <2>2, <2>4, ResizedIs
  <2>6. ASSUME NEW s, NEW d \in Int, NEW k \in Nat, Shows(buf, mem, s, d, k), d + k <= Total(buf)
        PROVE  Shows(buf', mem', s, d, k)
    BY <1>1, <2>1, <2>2, <2>3, <2>5, <2>6, ShowsResize
  <2>. QED BY <2>1, <2>6
<1>. QED BY <1>2, <1>3

(* BackUp() takes away bytes that nobody has put. *)
LEMMA GiveBackBytes ==
    ASSUME BufOK, GiveBack, UNCHANGED mem
    PROVE  \A s : \A d \in Int, k \in Nat : Shows(buf, mem, s, d, k) => Shows(buf', mem', s, d, k)
<1>1. buf \in Seq(WriteHandles) /\ room \in Nat
  BY DEF BufOK
<1>2. CASE room = 0
  BY <1>2 DEF GiveBack
<1>3. CASE room # 0
  <2>. DEFINE l == LastHandle.size - room
  <2>1. buf' = [buf EXCEPT ![Len(buf)].size = @ - room]
    BY <1>3 DEF GiveBack
  <2>2. buf # <<>> /\ room <= LastHandle.size
    BY <1>1, <1>3 DEF BufOK
  <2>3. l \in Nat /\ l <= LastHandle.size
    <3>1. Len(buf) \in DOMAIN buf
      BY <1>1, <2>2
    <3>2. LastHandle \in WriteHandles
      BY <1>1, <3>1 DEF LastHandle
    <3>3. LastHandle.size \in Nat
      BY <3>2 DEF WriteHandles
    <3>. QED BY <1>1, <2>2, <3>3
  <2>4. buf' = [buf EXCEPT ![Len(buf)].size = l]
    BY <2>1 DEF LastHandle
  <2>. HIDE DEF l
  <2>5. buf' = Resized(buf, l) /\ l <= buf[Len(buf)].size
    BY <1>1, <2>2, <2>3, <2>4, ResizedIs DEF LastHandle
  <2>. QED BY <1>1, <2>2, <2>3, <2>5, ShowsResize
<1>. QED BY <1>2, <1>3

(* Blocks that are still counted keep what Free() is given for them. *)
LEMMA FreeBytes ==
    ASSUME NEW freed, NEW contents, Free(freed, contents), NEW b \in Blocks, refCount'[b] # 0
    PROVE  mem'[b] = contents[b]
BY DEF Free

-----------------------------------------------------------------------------
(* The steps of the assembly and the bytes *)

(* Of no bytes anything is shown. *)
LEMMA ShowsNothing ==
    ASSUME NEW hs, NEW m, NEW s, NEW d, NEW n, n = 0
    PROVE  Shows(hs, m, s, d, n)
<1>1. 1 .. n = {}
  OBVIOUS
<1>. QED BY <1>1 DEF Shows

(* What is shown of a sequence is shown of any that begins with it. *)
LEMMA ShowsSame ==
    ASSUME NEW hs, NEW m, NEW s, NEW d, NEW n, Shows(hs, m, s, d, n),
           NEW t, \A j \in 1 .. n : t[j] = s[j]
    PROVE  Shows(hs, m, t, d, n)
BY DEF Shows

(* The elements of two sequences in a row. *)
LEMMA Joined ==
    ASSUME NEW S, NEW s \in Seq(S), NEW t \in Seq(S)
    PROVE  /\ s \o t \in Seq(S) /\ Len(s \o t) = Len(s) + Len(t)
           /\ Len(s) \in Nat /\ Len(t) \in Nat
           /\ \A j \in 1 .. Len(s) : (s \o t)[j] = s[j]
           /\ \A j \in 1 .. Len(t) : (s \o t)[Len(s) + j] = t[j]
  OBVIOUS

(* What the invariants say of the types. *)
LEMMA WireTypes ==
    ASSUME CountsInv
    PROVE  /\ ListsOK /\ MemOK /\ BufOK /\ AsmOK /\ NetOK /\ Stage
           /\ begun \in Nat /\ msg.meta \in Nat /\ msg.body \in Nat
           /\ from \in Nat /\ left \in Nat /\ room \in Nat /\ writeBytes \in Nat
           /\ out \in Seq(Byte) /\ encoded \in Seq(Byte)
           /\ Len(out) \in Nat /\ Len(encoded) \in Nat
           /\ buf \in Seq(WriteHandles) /\ content \in Seq(WriteHandles)
           /\ writeBytes = Total(buf) /\ HeaderSize \in Nat /\ HeaderSize > 0
           /\ Base \in Nat
<1>1. AsmOK /\ BufOK /\ ListsOK /\ MemOK /\ NetOK /\ Stage
  BY ListsTyped DEF CountsInv
<1>2. /\ begun \in Nat /\ msg.meta \in Nat /\ msg.body \in Nat
      /\ from \in Nat /\ left \in Nat
      /\ out \in Seq(Byte) /\ encoded \in Seq(Byte)
  BY <1>1 DEF AsmOK
<1>3. Len(out) \in Nat /\ Len(encoded) \in Nat
  BY <1>2
<1>4. room \in Nat /\ writeBytes \in Nat /\ writeBytes = Total(buf)
  BY <1>1 DEF BufOK
<1>5. HeaderSize \in Nat /\ HeaderSize > 0
  BY WriteSizeAssumption
<1>6. Base \in Nat
  BY <1>5 DEF Base
<1>. QED BY <1>1, <1>2, <1>3, <1>4, <1>5, <1>6 DEF ListsOK

(* The planned bytes, and which of them out has. *)
LEMMA PlannedIs ==
    ASSUME CountsInv
    PROVE  /\ Planned \in Seq(Byte) /\ Len(Planned) \in Nat
           /\ Bytes("meta", msg.meta, <<>>) \in Seq(Byte)
           /\ Len(Bytes("meta", msg.meta, <<>>)) = msg.meta
           /\ msg.kind = "page" => /\ Planned = Bytes("head", msg.meta, Len(encoded))
                                   /\ Len(Planned) = msg.meta
           /\ msg.kind # "page" =>
                 /\ Planned = Bytes("meta", msg.meta, <<>>) \o encoded
                 /\ Len(Planned) = msg.meta + Len(encoded)
                 /\ \A j \in 1 .. msg.meta : Planned[j] = Bytes("meta", msg.meta, <<>>)[j]
                 /\ \A j \in 1 .. Len(encoded) : Planned[msg.meta + j] = encoded[j]
<1>1. /\ begun \in Nat /\ msg.meta \in Nat /\ encoded \in Seq(Byte) /\ Len(encoded) \in Nat
  BY WireTypes
<1>2. <<>> \in Said /\ Len(encoded) \in Said
  BY <1>1 DEF Said
<1>3. /\ Bytes("meta", msg.meta, <<>>) \in Seq(Byte)
      /\ Len(Bytes("meta", msg.meta, <<>>)) = msg.meta
  BY <1>1, <1>2, BytesType
<1>4. /\ Bytes("head", msg.meta, Len(encoded)) \in Seq(Byte)
      /\ Len(Bytes("head", msg.meta, Len(encoded))) = msg.meta
  BY <1>1, <1>2, BytesType
<1>5. CASE msg.kind = "page"
  <2>1. Planned = Bytes("head", msg.meta, Len(encoded))
    BY <1>5 DEF Planned
  <2>. QED BY <1>1, <1>3, <1>4, <1>5, <2>1
<1>6. CASE msg.kind # "page"
  <2>. DEFINE m == Bytes("meta", msg.meta, <<>>)
  <2>1. Planned = m \o encoded
    BY <1>6 DEF Planned
  <2>. HIDE DEF m
  <2>2. m \in Seq(Byte) /\ Len(m) = msg.meta
    BY <1>3 DEF m
  <2>3. /\ Planned \in Seq(Byte) /\ Len(Planned) = msg.meta + Len(encoded)
        /\ \A j \in 1 .. msg.meta : Planned[j] = m[j]
        /\ \A j \in 1 .. Len(encoded) : Planned[msg.meta + j] = encoded[j]
    <3>1. /\ m \o encoded \in Seq(Byte) /\ Len(m \o encoded) = Len(m) + Len(encoded)
          /\ \A j \in 1 .. Len(m) : (m \o encoded)[j] = m[j]
          /\ \A j \in 1 .. Len(encoded) : (m \o encoded)[Len(m) + j] = encoded[j]
      BY <1>1, <2>2, Joined
    <3>. QED BY <2>1, <2>2, <3>1
  <2>4. Len(Planned) \in Nat
    BY <2>3
  <2>. QED BY <1>6, <2>1, <2>2, <2>3, <2>4 DEF m
<1>. QED BY <1>5, <1>6

(* Steps that leave the blocks of what is sent alone. *)
LEMMA NetBytesUsed ==
    ASSUME CountsInv, NetBytes, UNCHANGED netVars,
           \/ mem' = mem
           \/ \A b \in Blocks : refCount[b] > 0 => mem'[b] = mem[b]
           \/ \A b \in Blocks : RefsOf(buf)[b] = 0 => mem'[b] = mem[b]
    PROVE  NetBytes'
<1>1. ListsOK /\ MemOK
  BY WireTypes
<1>2. ASSUME NEW b \in Blocks, QueueRefs(queue)[b] > 0 \/ RefsOf(sending)[b] > 0
      PROVE  mem'[b] = mem[b]
  <2>1. refCount[b] > 0 /\ RefsOf(buf)[b] = 0
    BY <1>1, <1>2, OwnerCounts
  <2>. QED BY <2>1
<1>. QED BY <1>1, <1>2, NetBytesKept

(* A message that fails leaves what is sent as it was. *)
LEMMA FailBytes ==
    ASSUME CountsInv, CountsInv', WireInv, Fail
    PROVE  WireInv'
<1>1. /\ Free(RefsOf(buf \o content), mem) /\ step' = "idle" /\ UNCHANGED netVars
  BY DEF Fail
<1>2. queue' = queue /\ sending' = sending
  BY <1>1 DEF netVars, sendVars
<1>3. ListsOK /\ ListsOK' /\ MemOK'
  BY ListsTyped DEF CountsInv, BufOK, NetOK, ListsOK
<1>4. ASSUME NEW b \in Blocks, QueueRefs(queue)[b] > 0 \/ RefsOf(sending)[b] > 0
      PROVE  mem'[b] = mem[b]
  <2>1. /\ refCount'[b] = ((RefsOf(buf')[b] + RefsOf(content')[b]) + QueueRefs(queue)[b])
                              + RefsOf(sending)[b]
    BY <1>2, <1>3 DEF MemOK, OneOwner
  <2>2. /\ RefsOf(buf')[b] \in Nat /\ RefsOf(content')[b] \in Nat /\ RefsOf(sending)[b] \in Nat
        /\ QueueRefs(queue)[b] \in Nat
    BY <1>3, RefsType, QueueRefsType DEF ListsOK
  <2>3. refCount'[b] # 0
    BY <1>4, <2>1, <2>2
  <2>. QED BY <1>1, <2>3, FreeBytes
<1>5. NetBytes'
  BY <1>1, <1>3, <1>4, NetBytesKept DEF WireInv
<1>6. AsmBytes'
  BY <1>1 DEF AsmBytes, AsmStage, PageBytes, StreamBytes, ContentBytes, StreamSteps
<1>. QED BY <1>5, <1>6 DEF WireInv

(* A new message starts with nothing. *)
LEMMA BeginBytes == ASSUME CountsInv, WireInv, Begin PROVE WireInv'
<1>1. /\ step' = "append" \/ step' = "reserve"
      /\ step' = "reserve" => msg'.kind # "page"
      /\ step' = "append" => left' = 0 /\ msg'.kind = "page"
      /\ buf' = <<>> /\ writeBytes' = 0 /\ content' = <<>> /\ from' = 0 /\ encoded' = <<>>
      /\ out' = <<>> /\ UNCHANGED <<mem, netVars>>
  BY DEF Begin
<1>2. NetBytes'
  BY <1>1, NetBytesUsed DEF WireInv
<1>3. Len(<<>>) = 0
  OBVIOUS
<1>4. PageBytes'
  <2>1. Shows(buf', mem', encoded', 0, Len(encoded'))
    BY <1>1, ShowsEmpty
  <2>. QED BY <1>1, <1>3, <2>1 DEF PageBytes
<1>5. AsmStage'
  BY <1>1 DEF AsmStage
<1>6. StreamBytes' /\ ContentBytes'
  BY <1>1 DEF StreamBytes, ContentBytes, StreamSteps
<1>. QED BY <1>2, <1>4, <1>5, <1>6 DEF WireInv, AsmBytes

(* A piece waits for the space behind the others. *)
LEMMA AppendPieceBytes == ASSUME CountsInv, WireInv, AppendPiece PROVE WireInv'
<1>1. /\ step = "append" /\ out = <<>> /\ writeBytes < msg.body
      /\ left' \in 1 .. msg.body - writeBytes
      /\ from' = writeBytes
      /\ out' = SubSeq(Bytes("body", msg.body, <<>>), writeBytes + 1, writeBytes + left')
      /\ step' = step /\ msg' = msg /\ buf' = buf /\ writeBytes' = writeBytes
      /\ content' = content /\ encoded' = encoded
      /\ UNCHANGED <<mem, netVars>>
  BY DEF AppendPiece, writeBufVars
<1>2. NetBytes'
  BY <1>1, NetBytesUsed DEF WireInv
<1>3. /\ begun \in Nat /\ msg.body \in Nat /\ writeBytes \in Nat /\ left \in Nat
      /\ Len(encoded) \in Nat /\ msg.kind = "page"
  BY <1>1, WireTypes DEF Stage
<1>4. writeBytes = Len(encoded) /\ Shows(buf, mem, encoded, 0, Len(encoded))
  <2>1. left <= Len(out) /\ writeBytes + left = Len(encoded) + Len(out) /\ Len(out) = 0
    BY <1>1 DEF WireInv, AsmBytes, PageBytes
  <2>2. Shows(buf, mem, encoded, 0, Len(encoded))
    BY <1>1 DEF WireInv, AsmBytes, PageBytes
  <2>. QED BY <1>3, <2>1, <2>2
<1>5. Len(out') = left' /\ left' \in Nat
  <2>. DEFINE s == Bytes("body", msg.body, <<>>)
              l == left'
  <2>1. s \in Seq(Byte) /\ Len(s) = msg.body
    BY <1>3, BytesType DEF Said
  <2>2. l \in Nat /\ writeBytes + l <= msg.body /\ l >= 1
    BY <1>1, <1>3
  <2>. HIDE DEF s, l
  <2>3. Len(SubSeq(s, writeBytes + 1, writeBytes + l)) = l
    <3>1. writeBytes + 1 <= writeBytes + l
      BY <1>3, <2>2
    <3>2. Len(SubSeq(s, writeBytes + 1, writeBytes + l)) = ((writeBytes + l) - (writeBytes + 1)) + 1
      BY <1>3, <2>1, <2>2, <3>1
    <3>. QED BY <1>3, <2>2, <3>2
  <2>. QED BY <1>1, <2>2, <2>3 DEF s, l
<1>6. PageBytes'
  <2>. DEFINE l == left'
              o == out'
  <2>1. l \in Nat /\ Len(o) = l
    BY <1>5
  <2>. HIDE DEF l, o
  <2>2. l <= Len(o) /\ writeBytes + l = Len(encoded) + Len(o)
    BY <1>3, <1>4, <2>1
  <2>. QED BY <1>1, <1>4, <2>2 DEF PageBytes, l, o
<1>7. AsmStage'
  BY <1>1, <1>3 DEF AsmStage
<1>8. StreamBytes' /\ ContentBytes'
  BY <1>1 DEF StreamBytes, ContentBytes, StreamSteps
<1>. QED BY <1>2, <1>6, <1>7, <1>8 DEF WireInv, AsmBytes

(* The space is behind what is in the buffer. *)
LEMMA ReserveBytes == ASSUME CountsInv, CountsInv', WireInv, Reserve PROVE WireInv'
<1>1. step \in {"reserve", "append"} /\ left > 0
  BY DEF Reserve
<1>2. CASE Fail
  BY <1>2, FailBytes
<1>3. CASE /\ Take(Least(Room, left))
           /\ left' = left - Least(Room, left)
           /\ UNCHANGED <<step, begun, msg, factor, content, from, streamVars, chunkVars, metaSize,
                          encoded, netVars>>
  <2>. DEFINE n == Least(Room, left)
  <2>1. /\ Take(n) /\ left' = left - n
        /\ step' = step /\ msg' = msg /\ content' = content /\ from' = from /\ out' = out
        /\ metaSize' = metaSize /\ encoded' = encoded /\ UNCHANGED netVars
    BY <1>3 DEF streamVars
  <2>2. /\ BufOK /\ ListsOK /\ MemOK /\ AsmOK /\ left \in Nat /\ writeBytes \in Nat
        /\ Len(encoded) \in Nat /\ Len(out) \in Nat /\ writeBytes = Total(buf)
    BY WireTypes
  <2>3. n \in Nat /\ n <= left
    BY <2>2, RoomType DEF Least
  <2>. HIDE DEF n
  <2>4. writeBytes' = writeBytes + n
    BY <2>1 DEF Take
  <2>5. /\ \A b \in Blocks : refCount[b] > 0 => mem'[b] = mem[b]
        /\ \A s : \A d \in Int, k \in Nat :
              Shows(buf, mem, s, d, k) /\ d + k <= Total(buf) => Shows(buf', mem', s, d, k)
    BY <2>1, <2>2, <2>3, TakeBytes
  <2>6. NetBytes'
    BY <2>1, <2>5, NetBytesUsed DEF WireInv
  <2>7. PageBytes'
    <3>. SUFFICES ASSUME step = "append" PROVE PageBytes'
      BY <2>1 DEF PageBytes
    <3>1. /\ left <= Len(out) /\ writeBytes + left = Len(encoded) + Len(out)
          /\ out # <<>> => from = Len(encoded)
          /\ Shows(buf, mem, encoded, 0, Len(encoded))
      BY DEF WireInv, AsmBytes, PageBytes
    <3>2. 0 + Len(encoded) <= Total(buf)
      BY <2>2, <3>1
    <3>3. Shows(buf', mem', encoded, 0, Len(encoded))
      <4>1. 0 \in Int /\ Len(encoded) \in Nat
        BY <2>2
      <4>. QED BY <2>5, <3>1, <3>2, <4>1, Zenon
    <3>4. left - n <= Len(out) /\ (writeBytes + n) + (left - n) = Len(encoded) + Len(out)
      BY <2>2, <2>3, <3>1
    <3>. QED BY <2>1, <2>4, <3>1, <3>3, <3>4 DEF PageBytes
  <2>8. AsmStage'
    BY <1>1, <2>1 DEF AsmStage, WireInv, AsmBytes
  <2>9. StreamBytes' /\ ContentBytes'
    BY <1>1, <2>1 DEF StreamBytes, ContentBytes, StreamSteps
  <2>. QED BY <2>6, <2>7, <2>8, <2>9 DEF WireInv, AsmBytes
<1>. QED BY <1>2, <1>3 DEF Reserve

(* The meta comes right behind the header. *)
LEMMA HeaderReservedBytes == ASSUME CountsInv, WireInv, HeaderReserved PROVE WireInv'
<1>1. /\ step = "reserve" /\ left = 0 /\ step' = "meta"
      /\ out' = Bytes("meta", msg.meta, <<>>)
      /\ begun' = begun /\ msg' = msg /\ buf' = buf /\ writeBytes' = writeBytes
      /\ content' = content /\ from' = from /\ room' = room /\ encoded' = encoded
      /\ UNCHANGED <<mem, netVars>>
  BY DEF HeaderReserved, writeBufVars
<1>2. NetBytes'
  BY <1>1, NetBytesUsed DEF WireInv
<1>3. msg.kind # "page" /\ encoded = <<>> /\ from = 0 /\ content = <<>>
  BY <1>1 DEF WireInv, AsmBytes, AsmStage
<1>4. writeBytes = HeaderSize /\ room = 0 /\ writeBytes \in Nat
  <2>1. writeBytes + left = HeaderSize /\ room = 0
    BY <1>1, WireTypes DEF Stage
  <2>2. writeBytes \in Nat
    BY WireTypes
  <2>. QED BY <1>1, <2>1, <2>2
<1>5. /\ Planned' = Planned /\ Base' = HeaderSize
      /\ Planned = Bytes("meta", msg.meta, <<>>) \o <<>>
  BY <1>1, <1>3 DEF Planned, Base, Bytes
<1>6. Planned = Bytes("meta", msg.meta, <<>>) /\ Len(Planned) \in Nat
  BY <1>5, PlannedIs
<1>7. Stored' = 0
  BY <1>1, <1>5, <1>6 DEF Stored
<1>8. StreamBytes'
  <2>1. Shows(buf', mem', Planned', Base', Stored')
    BY <1>7, ShowsNothing
  <2>2. \A j \in 1 .. Len(out') : out'[j] = Planned'[Stored' + j]
    <3>1. \A j \in 1 .. Len(Planned) : 0 + j = j
      OBVIOUS
    <3>. QED BY <1>1, <1>5, <1>6, <1>7, <3>1
  <2>3. writeBytes' - room' = Base' + Stored'
    BY <1>1, <1>4, <1>5, <1>7, WriteSizeAssumption
  <2>. QED BY <1>7, <2>1, <2>2, <2>3 DEF StreamBytes
<1>9. AsmStage'
  BY <1>1, <1>3 DEF AsmStage
<1>10. PageBytes' /\ ContentBytes'
  BY <1>1 DEF PageBytes, ContentBytes
<1>. QED BY <1>2, <1>8, <1>9, <1>10 DEF WireInv, AsmBytes

(* A piece is copied to the place reserved for it. *)
LEMMA PieceReservedBytes == ASSUME CountsInv, WireInv, PieceReserved PROVE WireInv'
<1>1. /\ step = "append" /\ left = 0 /\ out # <<>>
      /\ mem' = SetData(from, out) /\ encoded' = encoded \o out /\ out' = <<>>
      /\ step' = step /\ msg' = msg /\ buf' = buf /\ writeBytes' = writeBytes
      /\ content' = content /\ from' = from /\ left' = left /\ UNCHANGED netVars
  BY DEF PieceReserved, writeBufVars
<1>2. /\ ListsOK /\ MemOK /\ from \in Nat /\ out \in Seq(Byte) /\ encoded \in Seq(Byte)
      /\ Len(out) \in Nat /\ Len(encoded) \in Nat /\ writeBytes \in Nat
      /\ buf \in Seq(WriteHandles) /\ msg.kind = "page"
  BY <1>1, WireTypes DEF Stage
<1>3. /\ \A b \in Blocks : RefsOf(buf)[b] = 0 => mem'[b] = mem[b]
      /\ \A i \in DOMAIN buf : \A o \in 1 .. buf[i].size :
            mem'[buf[i].block][o] = IF (Offset(buf, i) + o) - from \in 1 .. Len(out)
                                    THEN out[(Offset(buf, i) + o) - from]
                                    ELSE mem[buf[i].block][o]
  BY <1>1, <1>2, SetDataBytes
<1>4. NetBytes'
  BY <1>1, <1>3, NetBytesUsed DEF WireInv
<1>5. /\ writeBytes + left = Len(encoded) + Len(out) /\ from = Len(encoded)
      /\ Shows(buf, mem, encoded, 0, Len(encoded))
  BY <1>1 DEF WireInv, AsmBytes, PageBytes
<1>6. /\ Len(encoded') = Len(encoded) + Len(out)
      /\ \A j \in 1 .. Len(encoded) : encoded'[j] = encoded[j]
      /\ \A j \in 1 .. Len(out) : encoded'[Len(encoded) + j] = out[j]
  BY <1>1, <1>2, Joined
<1>7. Shows(buf, mem', encoded', 0, Len(encoded'))
  <2>1. ASSUME NEW i \in DOMAIN buf, NEW o \in 1 .. buf[i].size,
               (Offset(buf, i) + o) - 0 \in 1 .. Len(encoded')
        PROVE  mem'[buf[i].block][o] = encoded'[(Offset(buf, i) + o) - 0]
    <3>. DEFINE p == Offset(buf, i) + o
    <3>1. p \in Nat /\ p >= 1
      <4>1. i \in 1 .. Len(buf)
        BY <1>2
      <4>2. Offset(buf, i) \in Nat /\ o \in Nat /\ o >= 1
        BY <1>2, <4>1, Positions
      <4>. QED BY <4>2
    <3>2. mem'[buf[i].block][o] = IF p - from \in 1 .. Len(out) THEN out[p - from]
                                  ELSE mem[buf[i].block][o]
      BY <1>3
    <3>3. p - 0 \in 1 .. Len(encoded) => mem[buf[i].block][o] = encoded[p - 0]
      BY <1>5 DEF Shows
    <3>4. p - 0 \in 1 .. Len(encoded')
      BY <2>1
    <3>. HIDE DEF p
    <3>5. p - 0 = p
      BY <3>1
    <3>6. CASE p <= Len(encoded)
      <4>1. p \in 1 .. Len(encoded) /\ p - from \notin 1 .. Len(out)
        BY <1>2, <1>5, <3>1, <3>6
      <4>. QED BY <1>6, <3>2, <3>3, <3>5, <4>1 DEF p
    <3>7. CASE p > Len(encoded)
      <4>. DEFINE j == p - from
      <4>1. j \in 1 .. Len(out) /\ Len(encoded) + j = p
        BY <1>2, <1>5, <1>6, <3>1, <3>4, <3>5, <3>7
      <4>2. mem'[buf[i].block][o] = out[j]
        BY <3>2, <4>1
      <4>. HIDE DEF j
      <4>3. encoded'[p] = out[j]
        BY <1>6, <4>1
      <4>. QED BY <3>5, <4>2, <4>3 DEF p
    <3>. QED BY <1>2, <3>1, <3>6, <3>7
  <2>. QED BY <2>1 DEF Shows
<1>8. PageBytes'
  <2>1. Len(<<>>) = 0 /\ writeBytes + 0 = (Len(encoded) + Len(out)) + 0
    BY <1>1, <1>2, <1>5
  <2>. QED BY <1>1, <1>6, <1>7, <2>1 DEF PageBytes
<1>9. AsmStage'
  BY <1>1, <1>2 DEF AsmStage
<1>10. StreamBytes' /\ ContentBytes'
  BY <1>1 DEF StreamBytes, ContentBytes, StreamSteps
<1>. QED BY <1>4, <1>8, <1>9, <1>10 DEF WireInv, AsmBytes

(* The content of a page moves, and the head is to be printed. *)
LEMMA ContentDoneBytes == ASSUME CountsInv, WireInv, ContentDone PROVE WireInv'
<1>1. /\ step = "append" /\ out = <<>> /\ writeBytes = msg.body
      /\ step' = "head" /\ out' = Bytes("head", msg.meta, writeBytes)
      /\ content' = buf /\ buf' = <<>> /\ writeBytes' = 0
      /\ begun' = begun /\ msg' = msg /\ room' = room /\ encoded' = encoded
      /\ UNCHANGED <<mem, netVars>>
  BY DEF ContentDone
<1>2. NetBytes'
  BY <1>1, NetBytesUsed DEF WireInv
<1>3. /\ msg.kind = "page" /\ room = 0 /\ begun \in Nat /\ msg.meta \in Nat
      /\ writeBytes \in Nat /\ left \in Nat /\ Len(encoded) \in Nat /\ writeBytes = Total(buf)
  BY <1>1, WireTypes DEF Stage
<1>4. writeBytes = Len(encoded) /\ Shows(buf, mem, encoded, 0, Len(encoded))
  <2>1. left <= Len(out) /\ writeBytes + left = Len(encoded) + Len(out) /\ Len(out) = 0
    BY <1>1 DEF WireInv, AsmBytes, PageBytes
  <2>2. Shows(buf, mem, encoded, 0, Len(encoded))
    BY <1>1 DEF WireInv, AsmBytes, PageBytes
  <2>. QED BY <1>3, <2>1, <2>2
<1>5. Planned' = out' /\ Base' = 0
  BY <1>1, <1>3, <1>4 DEF Planned, Base, Bytes
<1>6. Len(out') = msg.meta
  BY <1>1, <1>3, BytesType DEF Said
<1>7. Stored' = 0
  BY <1>3, <1>5, <1>6 DEF Stored
<1>8. StreamBytes'
  <2>1. Shows(buf', mem', Planned', Base', Stored')
    BY <1>7, ShowsNothing
  <2>2. \A j \in 1 .. Len(out') : out'[j] = Planned'[Stored' + j]
    <3>1. \A j \in 1 .. msg.meta : 0 + j = j
      OBVIOUS
    <3>. QED BY <1>5, <1>6, <1>7, <3>1
  <2>3. writeBytes' - room' = Base' + Stored'
    BY <1>1, <1>3, <1>5, <1>7
  <2>. QED BY <1>7, <2>1, <2>2, <2>3 DEF StreamBytes
<1>9. ContentBytes'
  BY <1>1, <1>3, <1>4 DEF ContentBytes
<1>10. AsmStage' /\ PageBytes'
  BY <1>1, <1>3 DEF AsmStage, PageBytes
<1>. QED BY <1>2, <1>8, <1>9, <1>10 DEF WireInv, AsmBytes

(* The space a stream is given is behind what was put. *)
LEMMA RefillBytes ==
    ASSUME "compressed" \notin OutOfMemory, CountsInv, CountsInv', WireInv, Refill
    PROVE  WireInv'
<1>1. step \in {"meta", "head", "body", "compress"} /\ room = 0
  BY DEF Refill
<1>2. CASE Fail
  BY <1>2, FailBytes
<1>3. CASE /\ NoMemory /\ (eager \/ NeverAsked)
           /\ lastBytes' = 0
           /\ out' = IF eager THEN out ELSE <<>>
           /\ UNCHANGED <<step, begun, msg, mem, refCount, factor, buf, writeBytes, content, from,
                          left, room, chunkVars, metaSize, encoded, netVars>>
  <2>1. out' = out
    BY <1>3 DEF NoMemory, NeverAsked
  <2>2. ListsOK
    BY WireTypes
  <2>3. AsmBytes'
    BY <1>3, <2>1, <2>2, AsmBytesKept DEF WireInv
  <2>4. NetBytes'
    BY <1>3, NetBytesUsed DEF WireInv
  <2>. QED BY <2>3, <2>4 DEF WireInv
<1>4. CASE /\ Take(Room)
           /\ room' = Room
           /\ UNCHANGED <<step, begun, msg, factor, content, from, left, out, chunkVars, metaSize,
                          encoded, netVars>>
  <2>1. /\ Take(Room) /\ room' = Room
        /\ step' = step /\ begun' = begun /\ msg' = msg /\ content' = content /\ from' = from
        /\ left' = left /\ out' = out /\ metaSize' = metaSize /\ encoded' = encoded
        /\ UNCHANGED netVars
    BY <1>4
  <2>2. /\ BufOK /\ ListsOK /\ MemOK /\ AsmOK /\ writeBytes \in Nat
        /\ Len(encoded) \in Nat /\ writeBytes = Total(buf) /\ Base \in Nat
    BY WireTypes
  <2>3. Room \in Nat
    BY <2>2, RoomType
  <2>4. writeBytes' = writeBytes + Room
    BY <2>1 DEF Take
  <2>5. /\ \A b \in Blocks : refCount[b] > 0 => mem'[b] = mem[b]
        /\ \A s : \A d \in Int, k \in Nat :
              Shows(buf, mem, s, d, k) /\ d + k <= Total(buf) => Shows(buf', mem', s, d, k)
    BY <2>1, <2>2, <2>3, TakeBytes
  <2>6. NetBytes'
    BY <2>1, <2>5, NetBytesUsed DEF WireInv
  <2>7. Planned' = Planned /\ Base' = Base /\ Stored' = Stored
    BY <2>1 DEF Planned, Base, Stored, Bytes
  <2>8. StreamBytes'
    <3>1. /\ Stored \in Nat
          /\ \A j \in 1 .. Len(out) : out[j] = Planned[Stored + j]
          /\ writeBytes - room = Base + Stored
          /\ Shows(buf, mem, Planned, Base, Stored)
      BY <1>1 DEF WireInv, AsmBytes, StreamBytes, StreamSteps
    <3>2. Base \in Int /\ Base + Stored <= Total(buf)
      BY <1>1, <2>2, <3>1
    <3>3. Shows(buf', mem', Planned, Base, Stored)
      BY <2>5, <3>1, <3>2, Zenon
    <3>4. (writeBytes + Room) - Room = Base + Stored
      BY <1>1, <2>2, <2>3, <3>1
    <3>. QED BY <2>1, <2>4, <2>7, <3>1, <3>3, <3>4 DEF StreamBytes
  <2>9. ContentBytes'
    <3>. SUFFICES ASSUME step = "head" /\ msg.kind = "page" PROVE ContentBytes'
      BY <1>1, <2>1 DEF ContentBytes
    <3>1. Total(content) = Len(encoded) /\ Shows(content, mem, encoded, 0, Len(encoded))
      BY DEF WireInv, AsmBytes, ContentBytes
    <3>2. ASSUME NEW i \in DOMAIN content PROVE mem'[content[i].block] = mem[content[i].block]
      <4>. DEFINE b == content[i].block
      <4>1. b \in Blocks /\ RefsOf(content)[b] >= 1
        BY <2>2, RefsSome DEF ListsOK
      <4>. HIDE DEF b
      <4>2. refCount[b] > 0
        BY <2>2, <4>1, OwnerCounts
      <4>3. mem'[b] = mem[b]
        BY <2>5, <4>1, <4>2
      <4>. QED BY <4>3 DEF b
    <3>3. Shows(content, mem', encoded, 0, Len(encoded))
      BY <3>1, <3>2, ShowsKept
    <3>. QED BY <2>1, <3>1, <3>3 DEF ContentBytes
  <2>10. AsmStage' /\ PageBytes'
    BY <1>1, <2>1 DEF AsmStage, PageBytes, WireInv, AsmBytes
  <2>. QED BY <2>6, <2>8, <2>9, <2>10 DEF WireInv, AsmBytes
<1>. QED BY <1>2, <1>3, <1>4 DEF Refill

(* The rest of a sequence. *)
LEMMA RestOf ==
    ASSUME NEW S, NEW s \in Seq(S), NEW n \in Nat, n <= Len(s)
    PROVE  /\ SubSeq(s, n + 1, Len(s)) \in Seq(S)
           /\ Len(SubSeq(s, n + 1, Len(s))) = Len(s) - n
           /\ \A j \in 1 .. Len(s) - n : SubSeq(s, n + 1, Len(s))[j] = s[n + j]
<1>1. n + 1 \in Int /\ Len(s) \in Int /\ \A i \in n + 1 .. Len(s) : s[i] \in S
  OBVIOUS
<1>2. /\ SubSeq(s, n + 1, Len(s)) \in Seq(S)
      /\ Len(SubSeq(s, n + 1, Len(s)))
            = IF n + 1 <= Len(s) THEN Len(s) - (n + 1) + 1 ELSE 0
  BY <1>1, SubSeqProperties
<1>3. Len(s) - n = IF n + 1 <= Len(s) THEN Len(s) - (n + 1) + 1 ELSE 0
  OBVIOUS
<1>4. ASSUME NEW j \in 1 .. Len(s) - n PROVE SubSeq(s, n + 1, Len(s))[j] = s[n + j]
  OBVIOUS
<1>. QED BY <1>2, <1>3, <1>4

(* The last handle of the buffer ends where the buffer does. *)
LEMMA LastEnds ==
    ASSUME buf \in Seq(WriteHandles), buf # <<>>
    PROVE  /\ Len(buf) \in 1 .. Len(buf) /\ DOMAIN buf = 1 .. Len(buf) /\ Len(buf) \in Nat
           /\ LastHandle = buf[Len(buf)] /\ LastHandle \in WriteHandles
           /\ LastHandle.size \in Nat /\ LastHandle.block \in Blocks
           /\ Offset(buf, Len(buf)) \in Nat
           /\ Total(buf) = Offset(buf, Len(buf)) + LastHandle.size
           /\ \A i \in 1 .. Len(buf) - 1 : \A o \in 1 .. buf[i].size :
                 Offset(buf, i) + o <= Offset(buf, Len(buf))
<1>. DEFINE k == Len(buf)
<1>1. k \in 1 .. k /\ DOMAIN buf = 1 .. k /\ k \in Nat
  OBVIOUS
<1>2. LastHandle = buf[k] /\ LastHandle \in WriteHandles
  BY <1>1 DEF LastHandle
<1>3. LastHandle.size \in Nat /\ LastHandle.block \in Blocks
  BY <1>2 DEF WriteHandles
<1>4. /\ Total(buf) = Offset(buf, k + 1)
      /\ \A i \in 1 .. k : Offset(buf, i + 1) = Offset(buf, i) + buf[i].size
      /\ \A i \in 1 .. k + 1 : Offset(buf, i) \in Nat
  BY Offsets
<1>5. Offset(buf, k) \in Nat /\ Offset(buf, k + 1) = Offset(buf, k) + buf[k].size
  <2>1. k \in 1 .. k + 1
    BY <1>1
  <2>. QED BY <1>1, <1>4, <2>1
<1>6. ASSUME NEW i \in 1 .. k - 1, NEW o \in 1 .. buf[i].size
      PROVE  Offset(buf, i) + o <= Offset(buf, k)
  <2>1. i \in 1 .. k /\ i + 1 \in 1 .. k + 1 /\ k \in i + 1 .. k + 1
    BY <1>1
  <2>2. Offset(buf, i + 1) <= Offset(buf, k)
    BY <2>1, OffsetsGrow
  <2>3. Offset(buf, i + 1) = Offset(buf, i) + buf[i].size /\ Offset(buf, i) \in Nat
    BY <1>4, <2>1
  <2>4. buf[i].size \in Nat
    BY <2>1, Positions, SizesType DEF WriteHandles
  <2>. QED BY <1>5, <2>2, <2>3, <2>4
<1>. QED BY <1>1, <1>2, <1>3, <1>4, <1>5, <1>6

(* Where a byte of the last block is among the bytes to put. *)
LEMMA PlaceInBlock ==
    ASSUME NEW w \in Nat, NEW r \in Nat, NEW z \in Nat, NEW a \in Nat, NEW b \in Nat,
           NEW c \in Nat, NEW o \in Nat, w - r = b + c, w = a + z
    PROVE  (a + o) - b = c + ((o - z) + r)
OBVIOUS

(* A stream puts its bytes right behind those it has put. *)
LEMMA PutBytes == ASSUME CountsInv, WireInv, Put PROVE WireInv'
<1>. DEFINE n == Least(room, Len(out))
            h == LastHandle
            first == h.size - room
            new == [o \in DOMAIN mem[h.block] |->
                      IF o - first \in 1 .. n THEN out[o - first] ELSE mem[h.block][o]]
<1>1. /\ room > 0 /\ out # <<>>
      /\ mem' = [mem EXCEPT ![h.block] = new]
      /\ out' = SubSeq(out, n + 1, Len(out))
      /\ room' = room - n
      /\ step' = step /\ begun' = begun /\ msg' = msg /\ buf' = buf /\ writeBytes' = writeBytes
      /\ content' = content /\ from' = from /\ metaSize' = metaSize /\ encoded' = encoded
      /\ UNCHANGED netVars
  BY DEF Put, writeBufVars
<1>2. /\ BufOK /\ ListsOK /\ MemOK /\ AsmOK /\ Stage /\ room \in Nat /\ writeBytes \in Nat
      /\ out \in Seq(Byte) /\ Len(out) \in Nat
      /\ buf \in Seq(WriteHandles) /\ writeBytes = Total(buf) /\ Base \in Nat
  BY WireTypes
<1>3. buf # <<>> /\ room <= h.size
  BY <1>1, <1>2 DEF BufOK
<1>4. /\ Len(buf) \in 1 .. Len(buf) /\ DOMAIN buf = 1 .. Len(buf) /\ Len(buf) \in Nat
      /\ h = buf[Len(buf)] /\ h \in WriteHandles /\ h.size \in Nat /\ h.block \in Blocks
      /\ Offset(buf, Len(buf)) \in Nat
      /\ Total(buf) = Offset(buf, Len(buf)) + h.size
      /\ \A i \in 1 .. Len(buf) - 1 : \A o \in 1 .. buf[i].size :
            Offset(buf, i) + o <= Offset(buf, Len(buf))
  BY <1>2, <1>3, LastEnds
<1>5. n \in Nat /\ n <= room /\ n <= Len(out)
  BY <1>2 DEF Least
<1>6. /\ \A i \in DOMAIN buf : i # Len(buf) => buf[i].block # h.block
      /\ RefsOf(content)[h.block] = 0
      /\ RefsOf(buf)[h.block] >= 1
  BY <1>2, <1>4, BlocksApart, RefsSome
<1>7. mem \in [Blocks -> Seq(Byte)] /\ h.size <= Len(mem[h.block])
  <2>1. h \in AllHandles
    BY <1>4 DEF AllHandles, HandlesOf, RangeOf
  <2>. QED BY <1>2, <2>1 DEF MemOK
<1>. HIDE DEF n, h
<1>8. /\ \A b \in Blocks : b # h.block => mem'[b] = mem[b]
      /\ mem'[h.block] = new
  <2>. HIDE DEF new
  <2>. QED BY <1>1, <1>4, <1>7
<1>9. NetBytes'
  <2>1. \A b \in Blocks : RefsOf(buf)[b] = 0 => mem'[b] = mem[b]
    <3>. HIDE DEF new
    <3>1. ASSUME NEW b \in Blocks, RefsOf(buf)[b] = 0 PROVE b # h.block
      <4>1. ~(0 >= 1)
        OBVIOUS
      <4>. QED BY <1>6, <3>1, <4>1
    <3>. QED BY <1>8, <3>1
  <2>. QED BY <1>1, <2>1, NetBytesUsed DEF WireInv
<1>10. /\ out' \in Seq(Byte) /\ Len(out') = Len(out) - n
       /\ \A j \in 1 .. Len(out) - n : out'[j] = out[n + j]
  BY <1>1, <1>2, <1>5, RestOf
<1>11. step \notin {"idle", "append", "reserve", "seal"}
  BY <1>1, <1>2 DEF Stage
<1>12. Planned' = Planned /\ Base' = Base
  BY <1>1 DEF Planned, Base, Bytes
<1>13. Len(Planned) \in Nat
  BY PlannedIs
<1>14. Stored \in Int /\ Stored' = Stored + n
  <2>1. (Len(Planned) - (Len(out) - n)) = (Len(Planned) - Len(out)) + n
    BY <1>2, <1>5, <1>13
  <2>. QED BY <1>2, <1>10, <1>12, <1>13, <2>1 DEF Stored
<1>15. StreamBytes'
  <2>. SUFFICES ASSUME step \in StreamSteps PROVE StreamBytes'
    BY <1>1 DEF StreamBytes
  <2>1. /\ Stored \in Nat
        /\ \A j \in 1 .. Len(out) : out[j] = Planned[Stored + j]
        /\ writeBytes - room = Base + Stored
        /\ Shows(buf, mem, Planned, Base, Stored)
    BY DEF WireInv, AsmBytes, StreamBytes
  <2>2. ASSUME NEW j \in 1 .. Len(out) - n PROVE out'[j] = Planned[(Stored + n) + j]
    <3>1. n + j \in 1 .. Len(out) /\ Stored + (n + j) = (Stored + n) + j
      BY <1>2, <1>5, <2>1
    <3>2. out[n + j] = Planned[Stored + (n + j)]
      BY <2>1, <3>1
    <3>. QED BY <1>10, <3>1, <3>2
  <2>3. writeBytes - (room - n) = Base + (Stored + n)
    <3>1. /\ writeBytes \in Nat /\ room \in Nat /\ n \in Nat /\ Base \in Nat /\ Stored \in Nat
          /\ writeBytes - room = Base + Stored
      BY <1>2, <1>5, <2>1
    <3>. QED BY <3>1
  <2>4. ASSUME NEW i \in DOMAIN buf, NEW o \in 1 .. buf[i].size,
               (Offset(buf, i) + o) - Base \in 1 .. Stored + n
        PROVE  mem'[buf[i].block][o] = Planned[(Offset(buf, i) + o) - Base]
    <3>. DEFINE p == Offset(buf, i) + o
    <3>0. p \in Nat /\ Offset(buf, i) \in Nat /\ o \in Nat /\ o >= 1 /\ buf[i].size \in Nat
          /\ buf[i] \in WriteHandles
      BY <1>2, <1>4, Positions
    <3>1. p - Base \in 1 .. Stored => mem[buf[i].block][o] = Planned[p - Base]
      BY <2>1 DEF Shows
    <3>2. CASE i # Len(buf)
      <4>1. i \in 1 .. Len(buf) - 1
        BY <1>4, <3>2
      <4>2. p <= Offset(buf, Len(buf))
        BY <1>4, <4>1
      <4>3. p - Base \in 1 .. Stored + n
        BY <2>4
      <4>. HIDE DEF p
      <4>4. p - Base \in 1 .. Stored
        <5>1. p <= writeBytes - h.size
          BY <1>2, <1>4, <3>0, <4>2
        <5>2. p <= Base + Stored
          <6>1. /\ writeBytes \in Nat /\ room \in Nat /\ h.size \in Nat /\ Base \in Nat
                /\ Stored \in Nat /\ room <= h.size /\ writeBytes - room = Base + Stored
            BY <1>2, <1>3, <1>4, <2>1
          <6>. QED BY <3>0, <5>1, <6>1
        <5>. QED BY <1>2, <1>5, <2>1, <3>0, <4>3, <5>2
      <4>5. buf[i].block \in Blocks /\ buf[i].block # h.block
        BY <1>6, <3>0, <3>2 DEF WriteHandles
      <4>6. mem'[buf[i].block] = mem[buf[i].block]
        <5>. HIDE DEF new
        <5>. QED BY <1>8, <4>5
      <4>. QED BY <3>1, <4>4, <4>6 DEF p
    <3>3. CASE i = Len(buf)
      <4>1. buf[i] = h /\ p = Offset(buf, Len(buf)) + o /\ o <= h.size
        BY <1>4, <3>0, <3>3
      <4>2. o \in DOMAIN mem[h.block]
        <5>1. mem[h.block] \in Seq(Byte)
          BY <1>4, <1>7
        <5>. QED BY <1>4, <1>7, <3>0, <4>1, <5>1
      <4>3. mem'[h.block][o] = IF o - first \in 1 .. n THEN out[o - first] ELSE mem[h.block][o]
        <5>1. new[o] = IF o - first \in 1 .. n THEN out[o - first] ELSE mem[h.block][o]
          <6>. HIDE DEF first
          <6>. QED BY <4>2
        <5>. HIDE DEF new
        <5>. QED BY <1>8, <5>1
      <4>4. p - Base \in 1 .. Stored + n
        BY <2>4
      <4>. HIDE DEF p, new
      <4>5. p - Base = Stored + (o - first)
        <5>1. /\ writeBytes \in Nat /\ room \in Nat /\ h.size \in Nat /\ Base \in Nat
              /\ Stored \in Nat /\ writeBytes - room = Base + Stored
              /\ writeBytes = Offset(buf, Len(buf)) + h.size /\ Offset(buf, Len(buf)) \in Nat
          BY <1>2, <1>4, <2>1
        <5>2. o - first = (o - h.size) + room
          BY <3>0, <5>1
        <5>3. p - Base = Stored + ((o - h.size) + room)
          <6>. DEFINE a == Offset(buf, Len(buf))
                      z == h.size
                      b == Base
                      c == Stored
          <6>1. /\ o \in Nat /\ writeBytes \in Nat /\ room \in Nat /\ z \in Nat /\ a \in Nat
                /\ b \in Nat /\ c \in Nat /\ writeBytes - room = b + c /\ writeBytes = a + z
            BY <3>0, <5>1
          <6>2. p = a + o
            BY <4>1
          <6>. HIDE DEF a, z, b, c
          <6>3. (a + o) - b = c + ((o - z) + room)
            BY <6>1, PlaceInBlock
          <6>. QED BY <6>2, <6>3 DEF z, b, c
        <5>. QED BY <5>2, <5>3
      <4>6. CASE o - first \in 1 .. n
        <5>1. mem'[h.block][o] = out[o - first]
          BY <4>3, <4>6
        <5>. DEFINE j == o - first
        <5>2. j \in 1 .. Len(out)
          BY <1>2, <1>5, <4>6
        <5>. HIDE DEF j
        <5>3. out[j] = Planned[Stored + j]
          BY <2>1, <5>2
        <5>. QED BY <4>1, <4>5, <5>1, <5>3 DEF j, p
      <4>7. CASE o - first \notin 1 .. n
        <5>1. p - Base \in 1 .. Stored
          <6>1. o - first \in Int
            BY <1>2, <1>4, <3>0
          <6>. DEFINE j == o - first
          <6>2. j \in Int /\ j \notin 1 .. n /\ Stored + j \in 1 .. Stored + n
            BY <4>4, <4>5, <4>7, <6>1
          <6>. HIDE DEF j
          <6>3. Stored + j \in 1 .. Stored
            BY <1>5, <2>1, <6>2
          <6>. QED BY <4>5, <6>3 DEF j
        <5>2. mem'[h.block][o] = mem[h.block][o]
          BY <4>3, <4>7
        <5>. QED BY <3>1, <4>1, <5>1, <5>2 DEF p
      <4>. QED BY <4>6, <4>7
    <3>. QED BY <3>2, <3>3
  <2>5. Shows(buf, mem', Planned, Base, Stored + n)
    BY <2>4 DEF Shows
  <2>6. Stored + n \in Nat
    BY <1>5, <2>1
  <2>. QED BY <1>1, <1>10, <1>12, <1>14, <2>2, <2>3, <2>5, <2>6 DEF StreamBytes
<1>16. ContentBytes'
  <2>1. ASSUME NEW i \in DOMAIN content PROVE mem'[content[i].block] = mem[content[i].block]
    <3>. DEFINE b == content[i].block
    <3>1. b \in Blocks /\ RefsOf(content)[b] >= 1
      BY <1>2, RefsSome DEF ListsOK
    <3>2. b # h.block
      <4>1. ~(0 >= 1)
        OBVIOUS
      <4>. QED BY <1>6, <3>1, <4>1
    <3>. HIDE DEF b, new
    <3>3. mem'[b] = mem[b]
      BY <1>8, <3>1, <3>2
    <3>. QED BY <3>3 DEF b
  <2>. HIDE DEF new
  <2>2. ASSUME step \in {"head", "seal"}, msg.kind = "page"
        PROVE  Total(content) = Len(encoded) /\ Shows(content, mem', encoded, 0, Len(encoded))
    <3>1. Total(content) = Len(encoded) /\ Shows(content, mem, encoded, 0, Len(encoded))
      BY <2>2 DEF WireInv, AsmBytes, ContentBytes
    <3>. QED BY <2>1, <3>1, ShowsKept
  <2>. QED BY <1>1, <2>2 DEF ContentBytes
<1>17. AsmStage'
  <2>1. AsmStage
    BY DEF WireInv, AsmBytes
  <2>2. step # "flush"
    BY <1>1, <2>1 DEF AsmStage
  <2>. HIDE DEF new
  <2>. QED BY <1>1, <1>11, <2>1, <2>2 DEF AsmStage
<1>18. PageBytes'
  BY <1>1, <1>11 DEF PageBytes
<1>. QED BY <1>9, <1>15, <1>16, <1>17, <1>18 DEF WireInv, AsmBytes

(* The stream of the meta is done: what is planned begins with the meta, *)
(* and the header is to have its size.                                     *)
LEMMA MetaDoneBytes == ASSUME CountsInv, CountsInv', WireInv, MetaDone PROVE WireInv'
<1>1. /\ step = "meta" /\ out = <<>> /\ GiveBack /\ room' = 0 /\ metaSize' = writeBytes' - HeaderSize
      /\ \/ step' = "compress" /\ out' = out /\ encoded' = encoded
         \/ /\ step' = "body"
            /\ out' = Bytes("body", msg.body, <<>>) /\ encoded' = out'
      /\ begun' = begun /\ msg' = msg /\ content' = content /\ from' = from
      /\ UNCHANGED <<mem, netVars>>
      /\ UNCHANGED <<mem, refCount, content, queue, sending>>
  BY DEF MetaDone, Written, netVars, sendVars
<1>2. /\ BufOK /\ ListsOK /\ MemOK /\ room \in Nat /\ writeBytes \in Nat /\ HeaderSize \in Nat
      /\ msg.meta \in Nat /\ Base \in Nat /\ begun \in Nat /\ msg.body \in Nat
  BY WireTypes
<1>3. NetBytes'
  BY <1>1, NetBytesUsed DEF WireInv
<1>4. msg.kind # "page" /\ encoded = <<>> /\ from = 0 /\ content = <<>>
  BY <1>1 DEF WireInv, AsmBytes, AsmStage
<1>5. Base = HeaderSize /\ Base' = HeaderSize
  BY <1>1, <1>4 DEF Base
<1>. DEFINE m == Bytes("meta", msg.meta, <<>>)
<1>6. m \in Seq(Byte) /\ Len(m) = msg.meta /\ Planned = m \o encoded /\ Planned' = m \o encoded'
  BY <1>1, <1>4, PlannedIs DEF Planned, Bytes
<1>. HIDE DEF m
<1>7. Planned = m
  BY <1>4, <1>6
<1>8. Stored = msg.meta
  <2>1. Len(out) = 0
    BY <1>1
  <2>2. msg.meta - 0 = msg.meta
    BY <1>2
  <2>. QED BY <1>6, <1>7, <2>1, <2>2 DEF Stored
<1>9. writeBytes - room = HeaderSize + msg.meta /\ Shows(buf, mem, m, HeaderSize, msg.meta)
  <2>1. writeBytes - room = Base + Stored /\ Shows(buf, mem, Planned, Base, Stored)
    BY <1>1 DEF WireInv, AsmBytes, StreamBytes, StreamSteps
  <2>. QED BY <1>5, <1>7, <1>8, <2>1
<1>10. writeBytes' = writeBytes - room
  BY <1>1, <1>2, GiveBackKeeps
<1>11. Shows(buf', mem', m, HeaderSize, msg.meta)
  <2>1. \A s : \A d \in Int, k \in Nat : Shows(buf, mem, s, d, k) => Shows(buf', mem', s, d, k)
    BY <1>1, <1>2, GiveBackBytes
  <2>2. HeaderSize \in Int
    BY <1>2
  <2>. QED BY <1>2, <1>9, <2>1, <2>2, Zenon
<1>12. writeBytes' = HeaderSize + msg.meta
  BY <1>9, <1>10
<1>13. metaSize' = msg.meta /\ writeBytes' - room' = HeaderSize + msg.meta
  <2>1. (HeaderSize + msg.meta) - HeaderSize = msg.meta
        /\ (HeaderSize + msg.meta) - 0 = HeaderSize + msg.meta
    BY <1>2
  <2>. QED BY <1>1, <1>12, <2>1
<1>14. AsmStage'
  BY <1>1, <1>4, <1>13 DEF AsmStage
<1>15. PageBytes' /\ ContentBytes'
  BY <1>1 DEF PageBytes, ContentBytes
<1>16. /\ Stored' = msg.meta
       /\ \A j \in 1 .. Len(out') : out'[j] = Planned'[msg.meta + j]
       /\ Shows(buf', mem', Planned', HeaderSize, msg.meta)
  <2>1. CASE out' = out /\ encoded' = encoded
    <3>1. Planned' = m /\ Stored' = Stored
      BY <1>6, <1>7, <2>1 DEF Stored
    <3>2. Len(out') = 0
      BY <1>1, <2>1
    <3>. QED BY <1>8, <1>11, <3>1, <3>2
  <2>2. CASE out' = Bytes("body", msg.body, <<>>) /\ encoded' = out'
    <3>. DEFINE o == out'
                q == m \o o
    <3>1. o \in Seq(Byte)
      BY <1>2, <2>2, BytesType DEF Said
    <3>2. Planned' = q
      BY <1>6, <2>2
    <3>. HIDE DEF o, q
    <3>2a. m \in Seq(Byte)
      BY <1>6
    <3>3. /\ m \o o \in Seq(Byte) /\ Len(m \o o) = Len(m) + Len(o)
          /\ Len(m) \in Nat /\ Len(o) \in Nat
          /\ \A j \in 1 .. Len(m) : (m \o o)[j] = m[j]
          /\ \A j \in 1 .. Len(o) : (m \o o)[Len(m) + j] = o[j]
      BY <3>1, <3>2a, Joined
    <3>4. /\ Len(q) = msg.meta + Len(o) /\ Len(o) \in Nat
          /\ \A j \in 1 .. msg.meta : q[j] = m[j]
          /\ \A j \in 1 .. Len(o) : o[j] = q[msg.meta + j]
      BY <1>6, <3>3 DEF q
    <3>5. Stored' = msg.meta
      <4>1. (msg.meta + Len(o)) - Len(o) = msg.meta
        BY <1>2, <3>4
      <4>. QED BY <3>2, <3>4, <4>1 DEF Stored, o
    <3>6. Shows(buf', mem', q, HeaderSize, msg.meta)
      BY <1>11, <3>4, ShowsSame
    <3>. QED BY <3>2, <3>4, <3>5, <3>6 DEF o
  <2>. QED BY <1>1, <2>1, <2>2
<1>17. StreamBytes'
  BY <1>2, <1>5, <1>13, <1>16 DEF StreamBytes
<1>. QED BY <1>3, <1>14, <1>15, <1>17 DEF WireInv, AsmBytes

(* Filling the input buffer writes nothing. *)
LEMMA FillChunkBytes == ASSUME CountsInv, WireInv, FillChunk PROVE WireInv'
<1>1. /\ step = "compress" /\ out = <<>> /\ step' = "flush"
      /\ begun' = begun /\ msg' = msg /\ buf' = buf /\ writeBytes' = writeBytes
      /\ content' = content /\ from' = from /\ left' = left /\ out' = out /\ room' = room
      /\ metaSize' = metaSize /\ encoded' = encoded /\ mem' = mem /\ UNCHANGED netVars
  BY DEF FillChunk, Written, writeBufVars, streamVars
<1>2. NetBytes'
  BY <1>1, NetBytesUsed DEF WireInv
<1>3. Planned' = Planned /\ Base' = Base /\ Stored' = Stored
  BY <1>1 DEF Planned, Base, Stored, Bytes
<1>4. StreamBytes'
  BY <1>1, <1>3 DEF StreamBytes, StreamSteps, WireInv, AsmBytes
<1>5. AsmStage' /\ PageBytes' /\ ContentBytes'
  BY <1>1 DEF AsmStage, PageBytes, ContentBytes, WireInv, AsmBytes
<1>. QED BY <1>2, <1>4, <1>5 DEF WireInv, AsmBytes

(* Three sequences in a row. *)
LEMMA JoinedThrice ==
    ASSUME NEW S, NEW r \in Seq(S), NEW s \in Seq(S), NEW t \in Seq(S)
    PROVE  r \o (s \o t) = (r \o s) \o t
OBVIOUS

(* What a chunk becomes is planned behind all else. *)
LEMMA FlushBytes == ASSUME CountsInv, CountsInv', WireInv, Flush PROVE WireInv'
<1>1. /\ step = "flush" /\ begun' = begun /\ msg' = msg /\ buf' = buf /\ writeBytes' = writeBytes
      /\ content' = content /\ from' = from /\ left' = left /\ room' = room
      /\ metaSize' = metaSize /\ mem' = mem /\ UNCHANGED netVars
  BY DEF Flush, writeBufVars
<1>2. NetBytes'
  BY <1>1, NetBytesUsed DEF WireInv
<1>3. CASE step' = "aborted"
  <2>1. (content' = <<>> /\ from' = 0) \/ msg'.kind = "page"
    BY <1>1 DEF WireInv, AsmBytes, AsmStage
  <2>2. AsmStage'
    BY <1>3, <2>1 DEF AsmStage
  <2>3. PageBytes' /\ StreamBytes' /\ ContentBytes'
    BY <1>3 DEF PageBytes, StreamBytes, ContentBytes, StreamSteps
  <2>. QED BY <1>2, <2>2, <2>3 DEF WireInv, AsmBytes
<1>4. CASE step' \in {"compress", "body"} /\ encoded' = encoded \o out'
  <2>1. msg.kind # "page" /\ metaSize = msg.meta /\ from = 0 /\ content = <<>> /\ out = <<>>
    BY <1>1 DEF WireInv, AsmBytes, AsmStage
  <2>2. /\ Stored \in Nat
        /\ writeBytes - room = Base + Stored
        /\ Shows(buf, mem, Planned, Base, Stored)
    BY <1>1 DEF WireInv, AsmBytes, StreamBytes, StreamSteps
  <2>. DEFINE o == out'
              m == Bytes("meta", msg.meta, <<>>)
              p == Planned
  <2>3. o \in Seq(Byte)
    BY DEF CountsInv, AsmOK
  <2>4. p \in Seq(Byte) /\ Len(p) \in Nat /\ m \in Seq(Byte) /\ p = m \o encoded
    BY <2>1, PlannedIs
  <2>5. Planned' = m \o (encoded \o o)
    BY <1>1, <1>4, <2>1 DEF Planned, Bytes
  <2>. HIDE DEF o, m, p
  <2>6. encoded \in Seq(Byte)
    BY WireTypes
  <2>7. Planned' = p \o o
    <3>1. m \in Seq(Byte) /\ encoded \in Seq(Byte) /\ o \in Seq(Byte)
      BY <2>3, <2>4, <2>6
    <3>2. m \o (encoded \o o) = (m \o encoded) \o o
      BY <3>1, JoinedThrice
    <3>. QED BY <2>4, <2>5, <3>2
  <2>8. /\ p \o o \in Seq(Byte) /\ Len(p \o o) = Len(p) + Len(o)
        /\ Len(p) \in Nat /\ Len(o) \in Nat
        /\ \A j \in 1 .. Len(p) : (p \o o)[j] = p[j]
        /\ \A j \in 1 .. Len(o) : (p \o o)[Len(p) + j] = o[j]
    BY <2>3, <2>4, Joined
  <2>9. Stored = Len(p)
    <3>1. Len(out) = 0
      BY <2>1
    <3>2. Len(p) - 0 = Len(p)
      BY <2>4
    <3>. QED BY <3>1, <3>2 DEF Stored, p
  <2>10. Stored' = Len(p)
    <3>1. (Len(p) + Len(o)) - Len(o) = Len(p)
      BY <2>8
    <3>. QED BY <2>7, <2>8, <3>1 DEF Stored, o
  <2>11. Shows(buf, mem, p \o o, Base, Len(p))
    <3>1. Shows(buf, mem, p, Base, Len(p))
      BY <2>2, <2>9 DEF p
    <3>. QED BY <2>8, <3>1, ShowsSame
  <2>12. Base' = Base
    BY <1>1 DEF Base
  <2>13. StreamBytes'
    <3>1. \A j \in 1 .. Len(out') : out'[j] = Planned'[Stored' + j]
      BY <2>7, <2>8, <2>10 DEF o
    <3>2. Shows(buf', mem', Planned', Base', Stored')
      BY <1>1, <2>7, <2>10, <2>11, <2>12
    <3>3. Stored' \in Nat /\ writeBytes' - room' = Base' + Stored'
      BY <1>1, <2>2, <2>8, <2>9, <2>10, <2>12
    <3>. QED BY <3>1, <3>2, <3>3 DEF StreamBytes
  <2>14. AsmStage'
    BY <1>1, <1>4, <2>1 DEF AsmStage
  <2>15. PageBytes' /\ ContentBytes'
    BY <1>4 DEF PageBytes, ContentBytes
  <2>. QED BY <1>2, <2>13, <2>14, <2>15 DEF WireInv, AsmBytes
<1>. QED BY <1>3, <1>4 DEF Flush

(* The last stream gives back what it has not used. *)
LEMMA BodyDoneBytes == ASSUME CountsInv, CountsInv', WireInv, BodyDone PROVE WireInv'
<1>1. /\ step \in {"body", "head"} /\ out = <<>> /\ GiveBack /\ room' = 0 /\ step' = "seal"
      /\ begun' = begun /\ msg' = msg /\ content' = content /\ from' = from /\ out' = out
      /\ metaSize' = metaSize /\ encoded' = encoded
      /\ UNCHANGED <<mem, netVars>>
      /\ UNCHANGED <<mem, refCount, content, queue, sending>>
  BY DEF BodyDone, Written, netVars, sendVars
<1>2. /\ BufOK /\ ListsOK /\ MemOK /\ room \in Nat /\ writeBytes \in Nat /\ Base \in Nat /\ Stage
  BY WireTypes
<1>3. NetBytes'
  BY <1>1, NetBytesUsed DEF WireInv
<1>4. Planned' = Planned /\ Base' = Base /\ Stored' = Stored
  BY <1>1 DEF Planned, Base, Stored, Bytes
<1>5. /\ Stored \in Nat
      /\ \A j \in 1 .. Len(out) : out[j] = Planned[Stored + j]
      /\ writeBytes - room = Base + Stored
      /\ Shows(buf, mem, Planned, Base, Stored)
  BY <1>1 DEF WireInv, AsmBytes, StreamBytes, StreamSteps
<1>6. Shows(buf', mem', Planned, Base, Stored)
  <2>1. \A s : \A d \in Int, k \in Nat : Shows(buf, mem, s, d, k) => Shows(buf', mem', s, d, k)
    BY <1>1, <1>2, GiveBackBytes
  <2>2. Base \in Int
    BY <1>2
  <2>. QED BY <1>5, <2>1, <2>2, Zenon
<1>7. writeBytes' - room' = Base + Stored
  <2>1. writeBytes' = Base + Stored
    BY <1>1, <1>2, <1>5, GiveBackKeeps
  <2>2. (Base + Stored) - 0 = Base + Stored
    BY <1>2, <1>5
  <2>. QED BY <1>1, <2>1, <2>2
<1>8. StreamBytes'
  BY <1>1, <1>4, <1>5, <1>6, <1>7 DEF StreamBytes
<1>9. AsmStage'
  <2>1. step = "head" => msg.kind = "page"
    BY <1>2 DEF Stage
  <2>2. AsmStage
    BY DEF WireInv, AsmBytes
  <2>. QED BY <1>1, <2>1, <2>2 DEF AsmStage
<1>10. ContentBytes'
  <2>1. step = "body" => msg.kind # "page"
    BY DEF WireInv, AsmBytes, AsmStage
  <2>2. ContentBytes
    BY DEF WireInv, AsmBytes
  <2>. QED BY <1>1, <2>1, <2>2 DEF ContentBytes
<1>11. PageBytes'
  BY <1>1 DEF PageBytes
<1>. QED BY <1>3, <1>8, <1>9, <1>10, <1>11 DEF WireInv, AsmBytes

-----------------------------------------------------------------------------
(* Sealing a message and the bytes *)

(* A buffer whose bytes all are in one sequence is in any that begins like *)
(* it.                                                                      *)
LEMMA ShowsLonger ==
    ASSUME NEW hs \in Seq(WriteHandles), NEW m, NEW s, NEW d \in Int, NEW n \in Nat,
           Shows(hs, m, s, d, n), Total(hs) - d <= n,
           NEW t, \A j \in 1 .. n : t[j] = s[j], NEW k \in Nat
    PROVE  Shows(hs, m, t, d, k)
<1>1. Total(hs) \in Nat
  BY Offsets
<1>2. ASSUME NEW p \in 1 .. Total(hs), p - d \in 1 .. k
      PROVE  p - d \in 1 .. n /\ t[p - d] = s[p - d]
  <2>1. p - d \in 1 .. n
    BY <1>1, <1>2
  <2>. QED BY <2>1
<1>. QED BY <1>2, ShowsMap

(* Sealed, a page is its head and then its content. *)
LEMMA SealedPage ==
    ASSUME CountsInv, AsmBytes, step = "seal", msg.kind = "page"
    PROVE  /\ buf \o content \in Seq(WriteHandles)
           /\ Frame \in Seq(Byte) /\ Total(buf \o content) = Len(Frame)
           /\ Shows(buf \o content, mem, Frame, 0, Len(Frame))
<1>1. /\ buf \in Seq(WriteHandles) /\ content \in Seq(WriteHandles) /\ room = 0
      /\ writeBytes \in Nat /\ writeBytes = Total(buf) /\ encoded \in Seq(Byte)
      /\ Len(encoded) \in Nat
  BY WireTypes DEF Stage
<1>2. Planned \in Seq(Byte) /\ Len(Planned) \in Nat /\ Planned = Bytes("head", msg.meta, Len(encoded))
  BY PlannedIs
<1>. DEFINE p == Planned
            f == Frame
            n == Len(p)
<1>3. f = p \o encoded
  BY <1>2 DEF Frame
<1>4. Total(buf) = n /\ Shows(buf, mem, p, 0, n)
  <2>1. out = <<>> /\ Base = 0
    BY DEF AsmBytes, AsmStage, Base
  <2>2. Stored = n
    <3>1. Len(out) = 0 /\ Len(Planned) - 0 = Len(Planned)
      BY <1>2, <2>1
    <3>. QED BY <3>1 DEF Stored
  <2>3. writeBytes - room = Base + Stored /\ Shows(buf, mem, Planned, Base, Stored)
    BY DEF AsmBytes, StreamBytes, StreamSteps
  <2>4. writeBytes - 0 = writeBytes /\ 0 + n = n
    BY <1>1, <1>2
  <2>. QED BY <1>1, <2>1, <2>2, <2>3, <2>4
<1>5. Total(content) = Len(encoded) /\ Shows(content, mem, encoded, 0, Len(encoded))
  BY DEF AsmBytes, ContentBytes
<1>6. n \in Nat /\ p \in Seq(Byte)
  BY <1>2
<1>. HIDE DEF p, f, n
<1>7. /\ f \in Seq(Byte) /\ Len(f) = n + Len(encoded)
      /\ \A j \in 1 .. n : f[j] = p[j]
      /\ \A j \in 1 .. Len(encoded) : f[n + j] = encoded[j]
  <2>1. encoded \in Seq(Byte)
    BY <1>1
  <2>2. /\ p \o encoded \in Seq(Byte) /\ Len(p \o encoded) = Len(p) + Len(encoded)
        /\ Len(p) \in Nat /\ Len(encoded) \in Nat
        /\ \A j \in 1 .. Len(p) : (p \o encoded)[j] = p[j]
        /\ \A j \in 1 .. Len(encoded) : (p \o encoded)[Len(p) + j] = encoded[j]
    BY <1>6, <2>1, Joined
  <2>. QED BY <1>3, <2>2 DEF n
<1>8. Len(f) \in Nat
  BY <1>1, <1>6, <1>7
<1>9. Shows(buf, mem, f, 0, Len(f))
  <2>1. Total(buf) - 0 <= n /\ 0 \in Int
    BY <1>4, <1>6
  <2>. QED BY <1>1, <1>4, <1>6, <1>7, <1>8, <2>1, ShowsLonger
<1>10. Shows(content, mem, f, 0 - Total(buf), Len(f))
  <2>1. ASSUME NEW q \in 1 .. Total(content), q - (0 - n) \in 1 .. Len(f)
        PROVE  q - 0 \in 1 .. Len(encoded) /\ f[q - (0 - n)] = encoded[q - 0]
    <3>1. q \in 1 .. Len(encoded) /\ q - 0 = q /\ q - (0 - n) = n + q
      BY <1>1, <1>5, <1>6
    <3>. QED BY <1>7, <3>1
  <2>2. 0 \in Int /\ 0 - n \in Int
    BY <1>6
  <2>3. Shows(content, mem, f, 0 - n, Len(f))
    BY <1>1, <1>5, <1>8, <2>1, <2>2, ShowsMap
  <2>. QED BY <1>4, <2>3
<1>11. /\ buf \o content \in Seq(WriteHandles)
       /\ Total(buf \o content) = Total(buf) + Total(content)
  BY <1>1, OffsetsConcat
<1>12. Shows(buf \o content, mem, f, 0, Len(f))
  <2>1. 0 \in Int
    OBVIOUS
  <2>. QED BY <1>1, <1>8, <1>9, <1>10, <2>1, ShowsConcat
<1>. QED BY <1>4, <1>5, <1>7, <1>11, <1>12 DEF f

(* Sealed, another message is its header, set last, the meta and the body. *)
LEMMA SealedMessage ==
    ASSUME CountsInv, AsmBytes, step = "seal", msg.kind # "page",
           NEW hd, hd = Header(metaSize, writeBytes - HeaderSize - metaSize)
    PROVE  /\ hd \in Seq(Byte)
           /\ buf \o content = buf
           /\ Frame \in Seq(Byte) /\ Total(buf) = Len(Frame)
           /\ Shows(buf, SetData(from, hd), Frame, 0, Len(Frame))
<1>1. /\ ListsOK /\ MemOK /\ buf \in Seq(WriteHandles) /\ room = 0
      /\ writeBytes \in Nat /\ writeBytes = Total(buf) /\ encoded \in Seq(Byte)
      /\ Len(encoded) \in Nat /\ msg.meta \in Nat /\ begun \in Nat
      /\ HeaderSize \in Nat
  BY WireTypes DEF Stage
<1>. DEFINE m == Bytes("meta", msg.meta, <<>>)
            p == Planned
            f == Frame
            n == Len(p)
<1>2. /\ p \in Seq(Byte) /\ n \in Nat /\ p = m \o encoded /\ n = msg.meta + Len(encoded)
      /\ m \in Seq(Byte)
  BY PlannedIs
<1>3. out = <<>> /\ metaSize = msg.meta /\ from = 0 /\ content = <<>> /\ Base = HeaderSize
  BY DEF AsmBytes, AsmStage, Base
<1>4. Total(buf) = HeaderSize + n /\ Shows(buf, mem, p, HeaderSize, n)
  <2>1. Stored = n
    <3>1. Len(out) = 0 /\ n - 0 = n
      BY <1>2, <1>3
    <3>. QED BY <3>1 DEF Stored
  <2>2. writeBytes - room = Base + Stored /\ Shows(buf, mem, Planned, Base, Stored)
    BY DEF AsmBytes, StreamBytes, StreamSteps
  <2>3. writeBytes - 0 = writeBytes
    BY <1>1
  <2>. QED BY <1>1, <1>3, <2>1, <2>2, <2>3
<1>5. hd = Header(msg.meta, Len(encoded))
  <2>1. writeBytes = HeaderSize + (msg.meta + Len(encoded))
    BY <1>1, <1>2, <1>4
  <2>2. writeBytes - HeaderSize - msg.meta = Len(encoded)
    BY <1>1, <2>1
  <2>. QED BY <1>3, <2>2
<1>6. hd \in Seq(Byte) /\ Len(hd) = HeaderSize
  <2>1. <<msg.meta, Len(encoded)>> \in Said
    BY <1>1 DEF Said
  <2>. QED BY <1>1, <1>5, <2>1, BytesType DEF Header
<1>7. f = (hd \o m) \o encoded
  BY <1>5 DEF Frame
<1>. HIDE DEF m, p, f, n
<1>8. f = hd \o p
  <2>1. hd \in Seq(Byte) /\ m \in Seq(Byte) /\ encoded \in Seq(Byte)
    BY <1>1, <1>2, <1>6
  <2>2. hd \o (m \o encoded) = (hd \o m) \o encoded
    BY <2>1, JoinedThrice
  <2>. QED BY <1>2, <1>7, <2>2
<1>9. /\ f \in Seq(Byte) /\ Len(f) = HeaderSize + n
      /\ \A j \in 1 .. HeaderSize : f[j] = hd[j]
      /\ \A j \in 1 .. n : f[HeaderSize + j] = p[j]
  <2>1. hd \in Seq(Byte) /\ p \in Seq(Byte)
    BY <1>2, <1>6
  <2>2. /\ hd \o p \in Seq(Byte) /\ Len(hd \o p) = Len(hd) + Len(p)
        /\ Len(hd) \in Nat /\ Len(p) \in Nat
        /\ \A j \in 1 .. Len(hd) : (hd \o p)[j] = hd[j]
        /\ \A j \in 1 .. Len(p) : (hd \o p)[Len(hd) + j] = p[j]
    BY <2>1, Joined
  <2>. QED BY <1>6, <1>8, <2>2 DEF n
<1>10. \A i \in DOMAIN buf : \A o \in 1 .. buf[i].size :
          SetData(0, hd)[buf[i].block][o]
             = IF (Offset(buf, i) + o) - 0 \in 1 .. Len(hd)
               THEN hd[(Offset(buf, i) + o) - 0] ELSE mem[buf[i].block][o]
  <2>1. 0 \in Nat
    OBVIOUS
  <2>. QED BY <1>1, <1>6, <2>1, SetDataBytes
<1>11. ASSUME NEW i \in DOMAIN buf, NEW o \in 1 .. buf[i].size,
              (Offset(buf, i) + o) - 0 \in 1 .. Len(f)
       PROVE  SetData(0, hd)[buf[i].block][o] = f[(Offset(buf, i) + o) - 0]
  <2>. DEFINE q == Offset(buf, i) + o
              new == SetData(0, hd)[buf[i].block][o]
  <2>1. q \in Nat
    <3>1. i \in 1 .. Len(buf)
      BY <1>1
    <3>2. Offset(buf, i) \in Nat /\ o \in Nat
      BY <1>1, <3>1, Positions
    <3>. QED BY <3>2
  <2>2. new = IF q - 0 \in 1 .. Len(hd) THEN hd[q - 0] ELSE mem[buf[i].block][o]
    BY <1>10, Zenon
  <2>3. q - HeaderSize \in 1 .. n => mem[buf[i].block][o] = p[q - HeaderSize]
    BY <1>4 DEF Shows
  <2>4. q - 0 \in 1 .. Len(f)
    BY <1>11
  <2>. HIDE DEF q, new
  <2>5. q - 0 = q
    BY <2>1
  <2>6. new = f[q]
    <3>1. CASE q \in 1 .. HeaderSize
      BY <1>6, <1>9, <2>2, <2>5, <3>1
    <3>2. CASE q \notin 1 .. HeaderSize
      <4>. DEFINE j == q - HeaderSize
      <4>1. j \in 1 .. n /\ HeaderSize + j = q
        BY <1>1, <1>2, <1>9, <2>1, <2>4, <2>5, <3>2
      <4>2. new = p[j]
        BY <1>6, <2>2, <2>3, <2>5, <3>2, <4>1
      <4>. HIDE DEF j
      <4>3. f[q] = p[j]
        BY <1>9, <4>1
      <4>. QED BY <4>2, <4>3
    <3>. QED BY <3>1, <3>2
  <2>. QED BY <2>5, <2>6 DEF q, new
<1>12. Shows(buf, SetData(0, hd), f, 0, Len(f))
  BY <1>11, Zenon DEF Shows
<1>13. buf \o content = buf
  BY <1>1, <1>3
<1>. QED BY <1>3, <1>4, <1>6, <1>9, <1>12, <1>13 DEF f

(* The blocks of a list that is queued or sent after a step were not freed *)
(* by it.                                                                   *)
LEMMA KeptBlocks ==
    ASSUME NEW q \in Seq(Seq(WriteHandles)), NEW ss \in Seq(WriteHandles), NEW counts,
           \A b \in Blocks : /\ counts[b] \in Nat
                             /\ QueueRefs(q)[b] + RefsOf(ss)[b] <= counts[b]
    PROVE  /\ \A k \in DOMAIN q : \A i \in DOMAIN q[k] :
                 q[k][i].block \in Blocks /\ counts[q[k][i].block] # 0
           /\ \A i \in DOMAIN ss : ss[i].block \in Blocks /\ counts[ss[i].block] # 0
<1>1. \A b \in Blocks : QueueRefs(q)[b] \in Nat /\ RefsOf(ss)[b] \in Nat
  BY QueueRefsType, RefsType
<1>2. ASSUME NEW k \in DOMAIN q, NEW i \in DOMAIN q[k]
      PROVE  q[k][i].block \in Blocks /\ counts[q[k][i].block] # 0
  <2>. DEFINE b == q[k][i].block
  <2>1. q[k] \in Seq(WriteHandles)
    OBVIOUS
  <2>2. b \in Blocks /\ RefsOf(q[k])[b] >= 1 /\ RefsOf(q[k])[b] \in Nat
    BY <2>1, RefsSome, RefsType
  <2>. HIDE DEF b
  <2>3. RefsOf(q[k])[b] <= QueueRefs(q)[b]
    BY <2>2, QueueRefsOne
  <2>4. counts[b] # 0
    <3>1. /\ QueueRefs(q)[b] \in Nat /\ RefsOf(ss)[b] \in Nat /\ counts[b] \in Nat
          /\ QueueRefs(q)[b] + RefsOf(ss)[b] <= counts[b]
      BY <1>1, <2>2
    <3>. QED BY <2>2, <2>3, <3>1
  <2>. QED BY <2>2, <2>4 DEF b
<1>3. ASSUME NEW i \in DOMAIN ss PROVE ss[i].block \in Blocks /\ counts[ss[i].block] # 0
  <2>. DEFINE b == ss[i].block
  <2>1. b \in Blocks /\ RefsOf(ss)[b] >= 1
    BY RefsSome
  <2>. HIDE DEF b
  <2>2. counts[b] # 0
    <3>1. /\ QueueRefs(q)[b] \in Nat /\ RefsOf(ss)[b] \in Nat /\ counts[b] \in Nat
          /\ QueueRefs(q)[b] + RefsOf(ss)[b] <= counts[b]
      BY <1>1, <2>1
    <3>. QED BY <2>1, <3>1
  <2>. QED BY <2>1, <2>2 DEF b
<1>. QED BY <1>2, <1>3

(* After a step every block of what is queued or sent is counted. *)
LEMMA KeptAfter ==
    ASSUME CountsInv'
    PROVE  /\ \A k \in DOMAIN queue' : \A i \in DOMAIN queue'[k] :
                 queue'[k][i].block \in Blocks /\ refCount'[queue'[k][i].block] # 0
           /\ \A i \in DOMAIN sending' :
                 sending'[i].block \in Blocks /\ refCount'[sending'[i].block] # 0
<1>. DEFINE q == queue'
            ss == sending'
            counts == refCount'
            bs == buf'
            cs == content'
<1>1. /\ q \in Seq(Seq(WriteHandles)) /\ ss \in Seq(WriteHandles)
      /\ bs \in Seq(WriteHandles) /\ cs \in Seq(WriteHandles)
      /\ \A b \in Blocks : /\ counts[b] \in Nat
                           /\ counts[b] = ((RefsOf(bs)[b] + RefsOf(cs)[b]) + QueueRefs(q)[b])
                                            + RefsOf(ss)[b]
  BY DEF CountsInv, BufOK, NetOK, MemOK, OneOwner
<1>. HIDE DEF q, ss, counts, bs, cs
<1>2. ASSUME NEW b \in Blocks
      PROVE  counts[b] \in Nat /\ QueueRefs(q)[b] + RefsOf(ss)[b] <= counts[b]
  <2>1. /\ QueueRefs(q)[b] \in Nat /\ RefsOf(ss)[b] \in Nat /\ RefsOf(bs)[b] \in Nat
        /\ RefsOf(cs)[b] \in Nat
    BY <1>1, QueueRefsType, RefsType
  <2>. QED BY <1>1, <2>1
<1>3. /\ \A k \in DOMAIN q : \A i \in DOMAIN q[k] :
            q[k][i].block \in Blocks /\ counts[q[k][i].block] # 0
      /\ \A i \in DOMAIN ss : ss[i].block \in Blocks /\ counts[ss[i].block] # 0
  BY <1>1, <1>2, KeptBlocks
<1>. QED BY <1>3 DEF q, ss, counts

(* What is queued or sent is in blocks that the buffer does not have. *)
LEMMA SentElsewhere ==
    ASSUME ListsOK, MemOK, NEW b \in Blocks, QueueRefs(queue)[b] > 0 \/ RefsOf(sending)[b] > 0
    PROVE  refCount[b] > 0 /\ RefsOf(buf)[b] = 0
BY OwnerCounts

(* A buffer that shows the frame becomes a ReadBuffer behind all others. *)
LEMMA SealShows ==
    ASSUME CountsInv, CountsInv', NetBytes, ~closed, NEW all \in Seq(WriteHandles), NEW m, NEW f,
           f \in Seq(Byte), Total(all) = Len(f), Shows(all, m, f, 0, Len(f)),
           \A b \in Blocks : RefsOf(buf)[b] = 0 => m[b] = mem[b],
           \A b \in Blocks : refCount'[b] # 0 => mem'[b] = m[b],
           queue' = Append(queue, SwapOut(all)), promised' = promised \o f,
           UNCHANGED <<sendVars, closed, onWire>>
    PROVE  NetBytes'
<1>. DEFINE p == promised'
            q == queue'
            n == Len(promised)
            g == SwapOut(all)
            l == Len(queue)
<1>1. /\ sending' = sending /\ cur' = cur /\ sendingData' = sendingData
      /\ sendingSize' = sendingSize /\ sentSize' = sentSize /\ closed' = closed
      /\ onWire' = onWire
  BY DEF sendVars
<1>2. /\ ListsOK /\ MemOK /\ queue \in Seq(Seq(WriteHandles)) /\ sending \in Seq(WriteHandles)
      /\ sentSize \in Nat
  BY WireTypes DEF ListsOK, NetOK
<1>3. /\ promised \in Seq(Byte) /\ onWire \in Seq(Byte) /\ n \in Nat /\ Len(onWire) \in Nat
      /\ Len(onWire) <= n /\ \A j \in 1 .. Len(onWire) : onWire[j] = promised[j]
  <2>1. /\ promised \in Seq(Byte) /\ onWire \in Seq(Byte) /\ Len(onWire) <= Len(promised)
        /\ \A j \in 1 .. Len(onWire) : onWire[j] = promised[j]
    BY DEF NetBytes, WirePrefix
  <2>2. Len(promised) \in Nat /\ Len(onWire) \in Nat
    BY <2>1
  <2>. QED BY <2>1, <2>2
<1>4. Len(f) \in Nat
  OBVIOUS
<1>5. /\ p \in Seq(Byte) /\ Len(p) = n + Len(f)
      /\ \A j \in 1 .. n : p[j] = promised[j]
      /\ \A j \in 1 .. Len(f) : p[n + j] = f[j]
  <2>1. promised \in Seq(Byte) /\ f \in Seq(Byte)
    BY <1>3
  <2>2. /\ promised \o f \in Seq(Byte) /\ Len(promised \o f) = Len(promised) + Len(f)
        /\ Len(promised) \in Nat /\ Len(f) \in Nat
        /\ \A j \in 1 .. Len(promised) : (promised \o f)[j] = promised[j]
        /\ \A j \in 1 .. Len(f) : (promised \o f)[Len(promised) + j] = f[j]
    BY <2>1, Joined
  <2>. QED BY <2>2
<1>6. /\ g \in Seq(WriteHandles) /\ Total(g) = Len(f) /\ Shows(g, m, f, 0, Len(f))
  BY ShowsSwapOut
<1>7. /\ l \in Nat /\ Len(q) = l + 1 /\ DOMAIN q = 1 .. l + 1 /\ DOMAIN queue = 1 .. l
      /\ \A k \in 1 .. l : q[k] = queue[k]
      /\ q[l + 1] = g
  <2>. HIDE DEF g
  <2>1. q = Append(queue, g)
    BY DEF g
  <2>. QED BY <1>2, <1>6, <2>1
<1>7a. l \in Nat /\ Len(q) = l + 1 /\ DOMAIN q = 1 .. l + 1 /\ DOMAIN queue = 1 .. l
  BY <1>7
<1>8. /\ \A k \in DOMAIN q : \A i \in DOMAIN q[k] :
            q[k][i].block \in Blocks /\ mem'[q[k][i].block] = m[q[k][i].block]
      /\ \A i \in DOMAIN sending :
            sending[i].block \in Blocks /\ mem'[sending[i].block] = m[sending[i].block]
  <2>1. /\ \A k \in DOMAIN queue' : \A i \in DOMAIN queue'[k] :
              queue'[k][i].block \in Blocks /\ refCount'[queue'[k][i].block] # 0
        /\ \A i \in DOMAIN sending' :
              sending'[i].block \in Blocks /\ refCount'[sending'[i].block] # 0
    BY KeptAfter
  <2>. QED BY <1>1, <2>1
<1>9. Len(p) \in Nat /\ WirePrefix'
  <2>1. Len(p) \in Nat /\ Len(onWire) <= Len(p)
    BY <1>3, <1>4, <1>5
  <2>2. \A j \in 1 .. Len(onWire) : onWire[j] = p[j]
    BY <1>3, <1>5
  <2>. QED BY <1>1, <1>3, <1>5, <2>1, <2>2 DEF WirePrefix
<1>. HIDE DEF p, q, n, g, l
<1>10. PICK starts \in [1 .. l + 1 -> 0 .. n] : LaidOut(starts)
  BY DEF NetBytes, l, n
<1>11. /\ starts[l + 1] = n
       /\ \A k \in 1 .. l : /\ starts[k + 1] = starts[k] + Total(queue[k])
                            /\ Shows(queue[k], mem, promised, 0 - starts[k], n)
       /\ sending = <<>> => Len(onWire) = starts[1]
       /\ sending # <<>> =>
             /\ (Len(onWire) - sentSize) + Total(sending) = starts[1]
             /\ Shows(sending, mem, promised, sentSize - Len(onWire), n)
             /\ sendingData[1] = sending[cur].block
             /\ sendingData[2] \in Nat /\ sendingData[2] + sendingSize = sending[cur].size
  BY <1>7, <1>10 DEF LaidOut, l, n
<1>12. \A k \in 1 .. l + 1 : starts[k] \in Nat /\ starts[k] <= n
  <2>1. \A k \in 1 .. l + 1 : starts[k] \in 0 .. n
    BY <1>10
  <2>2. \A i \in 0 .. n : i \in Nat /\ i <= n
    BY <1>3
  <2>. QED BY <2>1, <2>2
(* The lists that were there. *)
<1>13. ASSUME NEW hs \in Seq(WriteHandles), NEW d \in Int, Shows(hs, mem, promised, d, n),
              Total(hs) - d <= n,
              \A b \in Blocks : RefsOf(hs)[b] > 0 => refCount[b] > 0 /\ RefsOf(buf)[b] = 0,
              \A i \in DOMAIN hs : hs[i].block \in Blocks /\ mem'[hs[i].block] = m[hs[i].block]
       PROVE  Shows(hs, mem', p, d, Len(p))
  <2>1. ASSUME NEW i \in DOMAIN hs PROVE mem'[hs[i].block] = mem[hs[i].block]
    <3>. DEFINE b == hs[i].block
    <3>1. b \in Blocks /\ RefsOf(hs)[b] >= 1 /\ RefsOf(hs)[b] \in Nat
      BY RefsSome, RefsType
    <3>2. mem'[b] = m[b]
      BY <1>13
    <3>. HIDE DEF b
    <3>3. RefsOf(hs)[b] > 0
      BY <3>1
    <3>4. m[b] = mem[b]
      BY <1>13, <3>1, <3>3
    <3>. QED BY <3>2, <3>4 DEF b
  <2>2. Shows(hs, mem', promised, d, n)
    BY <1>13, <2>1, ShowsKept
  <2>3. n \in Nat /\ Len(p) \in Nat /\ Total(hs) - d <= n
    BY <1>3, <1>9, <1>13
  <2>4. \A j \in 1 .. n : p[j] = promised[j]
    BY <1>5
  <2>. QED BY <2>2, <2>3, <2>4, ShowsLonger
<1>14. ASSUME NEW b \in Blocks, QueueRefs(queue)[b] > 0 \/ RefsOf(sending)[b] > 0
       PROVE  refCount[b] > 0 /\ RefsOf(buf)[b] = 0
  <2>1. ListsOK /\ MemOK
    BY <1>2
  <2>. QED BY <1>14, <2>1, SentElsewhere
<1>15. ASSUME NEW k \in 1 .. l
       PROVE  q[k] = queue[k] /\ Shows(q[k], mem', p, 0 - starts[k], Len(p))
  <2>1. queue[k] \in Seq(WriteHandles) /\ q[k] = queue[k] /\ k \in DOMAIN q /\ k \in DOMAIN queue
    BY <1>2, <1>7
  <2>2. \A b \in Blocks : RefsOf(queue[k])[b] > 0 => refCount[b] > 0 /\ RefsOf(buf)[b] = 0
    <3>1. ASSUME NEW b \in Blocks, RefsOf(queue[k])[b] > 0 PROVE QueueRefs(queue)[b] > 0
      <4>1. RefsOf(queue[k])[b] <= QueueRefs(queue)[b] /\ QueueRefs(queue)[b] \in Nat
        BY <1>2, <2>1, QueueRefsOne, QueueRefsType
      <4>2. RefsOf(queue[k])[b] \in Nat
        BY <2>1, RefsType
      <4>. QED BY <3>1, <4>1, <4>2
    <3>. QED BY <1>14, <3>1
  <2>3. \A i \in DOMAIN queue[k] :
           queue[k][i].block \in Blocks /\ mem'[queue[k][i].block] = m[queue[k][i].block]
    BY <1>8, <2>1
  <2>4. 0 - starts[k] \in Int /\ Total(queue[k]) - (0 - starts[k]) <= n
    <3>1. /\ starts[k] \in Nat /\ starts[k + 1] <= n /\ starts[k + 1] = starts[k] + Total(queue[k])
      <4>1. k \in 1 .. l + 1 /\ k + 1 \in 1 .. l + 1
        BY <1>7
      <4>. QED BY <1>11, <1>12, <4>1
    <3>2. Total(queue[k]) \in Nat
      BY <2>1, Offsets
    <3>. QED BY <1>3, <3>1, <3>2
  <2>5. Shows(queue[k], mem, promised, 0 - starts[k], n)
    BY <1>11
  <2>6. Shows(queue[k], mem', p, 0 - starts[k], Len(p))
    BY <1>13, <2>1, <2>2, <2>3, <2>4, <2>5
  <2>. QED BY <2>1, <2>6
<1>16. ASSUME sending # <<>>
       PROVE  Shows(sending, mem', p, sentSize - Len(onWire), Len(p))
  <2>1. \A b \in Blocks : RefsOf(sending)[b] > 0 => refCount[b] > 0 /\ RefsOf(buf)[b] = 0
    BY <1>14
  <2>2. Total(sending) \in Nat
    BY <1>2, Offsets
  <2>3. sentSize - Len(onWire) \in Int /\ Total(sending) - (sentSize - Len(onWire)) <= n
    <3>1. 1 \in 1 .. l + 1
      BY <1>7
    <3>2. starts[1] <= n /\ starts[1] \in Nat /\ (Len(onWire) - sentSize) + Total(sending) = starts[1]
      BY <1>11, <1>12, <1>16, <3>1
    <3>. QED BY <1>2, <1>3, <2>2, <3>2
  <2>4. Shows(sending, mem, promised, sentSize - Len(onWire), n)
    BY <1>11, <1>16
  <2>. QED BY <1>2, <1>8, <1>13, <2>1, <2>3, <2>4
(* The new one. *)
<1>17. Shows(q[l + 1], mem', p, 0 - n, Len(p))
  <2>1. \A i \in DOMAIN g : mem'[g[i].block] = m[g[i].block]
    <3>1. l + 1 \in DOMAIN q
      BY <1>7
    <3>. QED BY <1>7, <1>8, <3>1
  <2>2. Shows(g, mem', f, 0, Len(f))
    BY <1>6, <2>1, ShowsKept
  <2>3. ASSUME NEW j \in 1 .. Total(g), j - (0 - n) \in 1 .. Len(p)
        PROVE  j - 0 \in 1 .. Len(f) /\ p[j - (0 - n)] = f[j - 0]
    <3>1. j \in 1 .. Len(f) /\ j - 0 = j /\ j - (0 - n) = n + j
      BY <1>3, <1>4, <1>6
    <3>. QED BY <1>5, <3>1
  <2>4. 0 \in Int /\ 0 - n \in Int
    BY <1>3
  <2>5. Shows(g, mem', p, 0 - n, Len(p))
    BY <1>4, <1>6, <1>9, <2>2, <2>3, <2>4, ShowsMap
  <2>. QED BY <1>7, <2>5
<1>18. PICK longer \in [1 .. l + 2 -> 0 .. Len(p)] :
          (\A k \in 1 .. l + 1 : longer[k] = starts[k]) /\ longer[l + 2] = Len(p)
  <2>. DEFINE w == [k \in 1 .. l + 2 |-> IF k = l + 2 THEN Len(p) ELSE starts[k]]
  <2>1. \A k \in 1 .. l + 1 : k \in 1 .. l + 2 /\ k # l + 2
    BY <1>7
  <2>2. l + 2 \in 1 .. l + 2 /\ Len(p) \in 0 .. Len(p)
    BY <1>7, <1>9
  <2>3. ASSUME NEW k \in 1 .. l + 2, k # l + 2 PROVE starts[k] \in 0 .. Len(p)
    <3>1. k \in 1 .. l + 1
      BY <1>7, <2>3
    <3>2. starts[k] \in Nat /\ starts[k] <= n
      BY <1>12, <3>1
    <3>. QED BY <1>3, <1>4, <1>5, <1>9, <3>2
  <2>4. w \in [1 .. l + 2 -> 0 .. Len(p)]
    BY <2>2, <2>3
  <2>5. (\A k \in 1 .. l + 1 : w[k] = starts[k]) /\ w[l + 2] = Len(p)
    BY <2>1, <2>2
  <2>. HIDE DEF w
  <2>. QED BY <2>4, <2>5
<1>19. /\ longer[Len(q) + 1] = Len(p)
       /\ \A k \in DOMAIN q : /\ longer[k + 1] = longer[k] + Total(q[k])
                              /\ Shows(q[k], mem', p, 0 - longer[k], Len(p))
  <2>1. Len(q) + 1 = l + 2 /\ (l + 1) + 1 = l + 2 /\ l + 1 \in 1 .. l + 1
    BY <1>7
  <2>2. ASSUME NEW k \in 1 .. l
        PROVE  /\ longer[k + 1] = longer[k] + Total(q[k])
               /\ Shows(q[k], mem', p, 0 - longer[k], Len(p))
    <3>1. k \in 1 .. l + 1 /\ k + 1 \in 1 .. l + 1
      BY <1>7
    <3>. QED BY <1>11, <1>15, <1>18, <3>1
  <2>3. /\ longer[(l + 1) + 1] = longer[l + 1] + Total(q[l + 1])
        /\ Shows(q[l + 1], mem', p, 0 - longer[l + 1], Len(p))
    <3>1. longer[l + 1] = n
      BY <1>11, <1>18, <2>1
    <3>2. Total(q[l + 1]) = Len(f)
      BY <1>6, <1>7
    <3>. QED BY <1>5, <1>17, <1>18, <2>1, <3>1, <3>2
  <2>4. \A k \in DOMAIN q : k \in 1 .. l \/ k = l + 1
    <3>1. l \in Nat
      BY <1>7a
    <3>2. \A k \in 1 .. l + 1 : k \in 1 .. l \/ k = l + 1
      BY <3>1
    <3>. QED BY <1>7a, <3>2
  <2>. QED BY <1>18, <2>1, <2>2, <2>3, <2>4
<1>20. longer[1] = starts[1]
  <2>1. 1 \in 1 .. l + 1
    BY <1>7
  <2>. QED BY <1>18, <2>1
<1>21. LaidOut(longer)'
  <2>1. (/\ longer[Len(queue) + 1] = Len(promised)
         /\ \A k \in DOMAIN queue : /\ longer[k + 1] = longer[k] + Total(queue[k])
                                    /\ Shows(queue[k], mem, promised, 0 - longer[k], Len(promised)))'
    BY <1>19 DEF q, p
  <2>2. (sending = <<>> => Len(onWire) = longer[1])'
    BY <1>1, <1>11, <1>20
  <2>3. (sending # <<>> =>
          /\ (Len(onWire) - sentSize) + Total(sending) = longer[1]
          /\ Shows(sending, mem, promised, sentSize - Len(onWire), Len(promised))
          /\ sendingData[1] = sending[cur].block
          /\ sendingData[2] \in Nat /\ sendingData[2] + sendingSize = sending[cur].size)'
    <3>. SUFFICES ASSUME sending # <<>>
                  PROVE  (/\ (Len(onWire) - sentSize) + Total(sending) = longer[1]
                          /\ Shows(sending, mem, promised, sentSize - Len(onWire), Len(promised))
                          /\ sendingData[1] = sending[cur].block
                          /\ sendingData[2] \in Nat
                          /\ sendingData[2] + sendingSize = sending[cur].size)'
      BY <1>1
    <3>. QED BY <1>1, <1>11, <1>16, <1>20 DEF p
  <2>. QED BY <2>1, <2>2, <2>3 DEF LaidOut
<1>22. longer \in [1 .. Len(queue') + 1 -> 0 .. Len(promised')]
  <2>1. Len(q) + 1 = l + 2
    BY <1>7a
  <2>. QED BY <1>18, <2>1 DEF q, p
<1>. QED BY <1>9, <1>21, <1>22 DEF NetBytes

(* What is sealed is its frame, and comes after all that is promised. *)
LEMMA SealBytes == ASSUME CountsInv, CountsInv', WireInv, Seal PROVE WireInv'
<1>. DEFINE all == buf \o content
            hd == Header(metaSize, writeBytes - HeaderSize - metaSize)
            set == IF msg.kind = "page" THEN mem ELSE SetData(from, hd)
            f == Frame
<1>1. /\ step = "seal" /\ step' = "idle" /\ UNCHANGED <<sendVars, closed, onWire>>
      /\ closed => UNCHANGED <<queue, promised>>
      /\ ~closed => /\ Free(SwapRefs(all), set)
                    /\ queue' = Append(queue, SwapOut(all)) /\ promised' = promised \o f
  BY DEF Seal
<1>2. AsmBytes'
  BY <1>1 DEF AsmBytes, AsmStage, PageBytes, StreamBytes, ContentBytes, StreamSteps
<1>3. /\ all \in Seq(WriteHandles)
      /\ f \in Seq(Byte) /\ Total(all) = Len(f)
      /\ Shows(all, set, f, 0, Len(f))
      /\ \A b \in Blocks : RefsOf(buf)[b] = 0 => set[b] = mem[b]
  <2>1. CASE msg.kind = "page"
    <3>1. set = mem
      BY <2>1
    <3>2. /\ buf \o content \in Seq(WriteHandles)
          /\ Frame \in Seq(Byte) /\ Total(buf \o content) = Len(Frame)
          /\ Shows(buf \o content, mem, Frame, 0, Len(Frame))
      BY <1>1, <2>1, SealedPage DEF WireInv
    <3>. HIDE DEF set
    <3>. QED BY <3>1, <3>2
  <2>2. CASE msg.kind # "page"
    <3>1. set = SetData(from, hd)
      BY <2>2
    <3>2. /\ hd \in Seq(Byte)
          /\ buf \o content = buf
          /\ Frame \in Seq(Byte) /\ Total(buf) = Len(Frame)
          /\ Shows(buf, SetData(from, hd), Frame, 0, Len(Frame))
      BY <1>1, <2>2, SealedMessage DEF WireInv
    <3>3. ListsOK /\ MemOK /\ from \in Nat /\ buf \in Seq(WriteHandles)
      BY WireTypes
    <3>. HIDE DEF hd, set
    <3>4. \A b \in Blocks : RefsOf(buf)[b] = 0 => SetData(from, hd)[b] = mem[b]
      BY <3>2, <3>3, SetDataBytes
    <3>. QED BY <3>1, <3>2, <3>3, <3>4
  <2>. QED BY <2>1, <2>2
<1>. HIDE DEF all, hd, set, f
<1>4. CASE closed
  <2>1. closed' = closed /\ onWire' = onWire /\ promised' = promised
    BY <1>1, <1>4
  <2>2. NetBytes'
    BY <1>4, <2>1 DEF NetBytes, WirePrefix, WireInv
  <2>. QED BY <1>2, <2>2 DEF WireInv
<1>5. CASE ~closed
  <2>1. /\ Free(SwapRefs(all), set)
        /\ queue' = Append(queue, SwapOut(all)) /\ promised' = promised \o f
    BY <1>1, <1>5
  <2>2. \A b \in Blocks : refCount'[b] # 0 => mem'[b] = set[b]
    BY <2>1, FreeBytes
  <2>3. NetBytes /\ UNCHANGED <<sendVars, closed, onWire>>
    BY <1>1 DEF WireInv
  <2>4. NetBytes'
    BY <1>3, <1>5, <2>1, <2>2, <2>3, SealShows
  <2>. QED BY <1>2, <2>4 DEF WireInv
<1>. QED BY <1>4, <1>5

-----------------------------------------------------------------------------
(* Sending and the bytes *)

(* The blocks of what is assembled are still counted after a step of the  *)
(* sender.                                                                 *)
LEMMA AssembledAfter ==
    ASSUME CountsInv', UNCHANGED <<buf, content>>, NEW b \in Blocks,
           RefsOf(buf)[b] > 0 \/ RefsOf(content)[b] > 0
    PROVE  refCount'[b] # 0
<1>. DEFINE q == queue'
            ss == sending'
            counts == refCount'
<1>1. /\ q \in Seq(Seq(WriteHandles)) /\ ss \in Seq(WriteHandles)
      /\ buf \in Seq(WriteHandles) /\ content \in Seq(WriteHandles)
      /\ counts[b] \in Nat
      /\ counts[b] = ((RefsOf(buf)[b] + RefsOf(content)[b]) + QueueRefs(q)[b]) + RefsOf(ss)[b]
  BY DEF CountsInv, BufOK, NetOK, MemOK, OneOwner
<1>. HIDE DEF q, ss, counts
<1>2. /\ QueueRefs(q)[b] \in Nat /\ RefsOf(ss)[b] \in Nat /\ RefsOf(buf)[b] \in Nat
      /\ RefsOf(content)[b] \in Nat
  BY <1>1, QueueRefsType, RefsType
<1>3. counts[b] # 0
  <2>1. counts[b] = ((RefsOf(buf)[b] + RefsOf(content)[b]) + QueueRefs(q)[b]) + RefsOf(ss)[b]
    BY <1>1
  <2>2. ((RefsOf(buf)[b] + RefsOf(content)[b]) + QueueRefs(q)[b]) + RefsOf(ss)[b] > 0
    BY <1>2
  <2>3. ~(0 > 0)
    OBVIOUS
  <2>. QED BY <2>1, <2>2, <2>3
<1>. QED BY <1>3 DEF counts

(* A step of the sender leaves what is assembled as it was. *)
LEMMA SenderKeepsAsm ==
    ASSUME CountsInv, CountsInv', AsmBytes, UNCHANGED <<step, asmVars>>,
           mem' = mem \/ \E freed : Free(freed, mem)
    PROVE  AsmBytes'
<1>1. /\ UNCHANGED <<step, begun, msg, buf, writeBytes, content, from, left, out, room, metaSize,
                     encoded>>
      /\ UNCHANGED <<buf, content>>
  BY DEF asmVars, writeBufVars, streamVars
<1>2. ListsOK
  BY WireTypes
<1>3. ASSUME NEW b \in Blocks, RefsOf(buf)[b] > 0 \/ RefsOf(content)[b] > 0
      PROVE  mem'[b] = mem[b]
  <2>1. CASE mem' = mem
    BY <2>1
  <2>2. CASE \E freed : Free(freed, mem)
    <3>1. refCount'[b] # 0
      BY <1>1, <1>3, AssembledAfter
    <3>. QED BY <2>2, <3>1, FreeBytes
  <2>. QED BY <2>1, <2>2
<1>. QED BY <1>1, <1>2, <1>3, AsmBytesKept

(* The next ReadBuffer starts where the wire has come. *)
LEMMA StartSendBytes == ASSUME CountsInv, CountsInv', WireInv, StartSend PROVE WireInv'
<1>1. /\ ~closed /\ sending = <<>> /\ queue # <<>>
      /\ sending' = Head(queue) /\ queue' = Tail(queue) /\ cur' = 1
      /\ sendingData' = <<sending'[1].block, 0>>
      /\ sendingSize' = sending'[1].size /\ sentSize' = 0
      /\ closed' = closed /\ promised' = promised /\ onWire' = onWire /\ mem' = mem
      /\ UNCHANGED <<step, asmVars>>
  BY DEF StartSend
<1>2. AsmBytes'
  BY <1>1, SenderKeepsAsm DEF WireInv
<1>. DEFINE l == Len(queue)
            hs == queue[1]
            n == Len(promised)
<1>3. /\ queue \in Seq(Seq(WriteHandles)) /\ \A k \in DOMAIN queue : Sendable(queue[k])
  BY WireTypes DEF ListsOK, NetOK
<1>4. /\ l \in Nat /\ l >= 1 /\ DOMAIN queue = 1 .. l
      /\ Head(queue) = hs /\ hs \in Seq(WriteHandles) /\ Sendable(hs)
      /\ Len(Tail(queue)) = l - 1 /\ DOMAIN Tail(queue) = 1 .. l - 1
      /\ \A k \in 1 .. l - 1 : Tail(queue)[k] = queue[k + 1]
  <2>1. /\ Head(queue) = queue[1] /\ 1 \in DOMAIN queue /\ Head(queue) \in Seq(WriteHandles)
        /\ Tail(queue) \in Seq(Seq(WriteHandles)) /\ Len(Tail(queue)) = Len(queue) - 1
        /\ DOMAIN Tail(queue) = 1 .. Len(queue) - 1
        /\ \A k \in DOMAIN Tail(queue) : Tail(queue)[k] = queue[k + 1]
    BY <1>1, <1>3, EmptySeq, HeadTailProperties
  <2>2. l \in Nat /\ DOMAIN queue = 1 .. l
    BY <1>3
  <2>3. l >= 1
    BY <2>1, <2>2
  <2>. QED BY <1>3, <2>1, <2>2, <2>3
<1>5. hs # <<>> /\ hs[1].size \in Nat
  <2>1. hs # <<>>
    BY <1>4 DEF Sendable
  <2>2. 1 \in DOMAIN hs
    BY <1>4, <2>1
  <2>3. hs[1] \in WriteHandles
    BY <1>4, <2>2
  <2>. QED BY <2>1, <2>3 DEF WriteHandles
<1>6. WirePrefix'
  BY <1>1 DEF WireInv, NetBytes, WirePrefix
<1>7. n \in Nat /\ Len(onWire) \in Nat
  BY DEF WireInv, NetBytes, WirePrefix
<1>. HIDE DEF l, hs, n
<1>8. PICK starts \in [1 .. l + 1 -> 0 .. n] : LaidOut(starts)
  BY <1>1 DEF WireInv, NetBytes, l, n
<1>9. /\ starts[l + 1] = n /\ Len(onWire) = starts[1]
      /\ \A k \in 1 .. l : /\ starts[k + 1] = starts[k] + Total(queue[k])
                           /\ Shows(queue[k], mem, promised, 0 - starts[k], n)
  BY <1>1, <1>4, <1>8 DEF LaidOut, l, n
<1>10. PICK rest \in [1 .. l -> 0 .. n] : \A k \in 1 .. l : rest[k] = starts[k + 1]
  <2>. DEFINE w == [k \in 1 .. l |-> starts[k + 1]]
  <2>1. \A k \in 1 .. l : starts[k + 1] \in 0 .. n
    <3>1. \A k \in 1 .. l : k + 1 \in 1 .. l + 1
      BY <1>4
    <3>. QED BY <1>8, <3>1
  <2>2. w \in [1 .. l -> 0 .. n] /\ \A k \in 1 .. l : w[k] = starts[k + 1]
    BY <2>1
  <2>. HIDE DEF w
  <2>. QED BY <2>2
<1>11. rest[1] = starts[1] + Total(hs) /\ rest[l] = n
  <2>1. 1 \in 1 .. l /\ l \in 1 .. l /\ 1 + 1 = 1 + 1
    BY <1>4
  <2>. QED BY <1>9, <1>10, <2>1 DEF hs
<1>12. ASSUME NEW k \in 1 .. l - 1
       PROVE  /\ rest[k + 1] = rest[k] + Total(queue[k + 1])
              /\ Shows(queue[k + 1], mem, promised, 0 - rest[k], n)
  <2>1. k \in 1 .. l /\ k + 1 \in 1 .. l
    BY <1>4
  <2>. QED BY <1>9, <1>10, <2>1
<1>13. Shows(hs, mem, promised, 0 - Len(onWire), n)
  <2>1. 1 \in 1 .. l
    BY <1>4
  <2>. QED BY <1>9, <2>1 DEF hs
<1>14. LaidOut(rest)'
  <2>1. Len(queue') + 1 = l
    <3>1. (l - 1) + 1 = l
      BY <1>4
    <3>. QED BY <1>1, <1>4, <3>1
  <2>2. (rest[Len(queue) + 1] = Len(promised))'
    BY <1>1, <1>11, <2>1 DEF n
  <2>3. ASSUME NEW k \in DOMAIN queue'
        PROVE  /\ rest[k + 1] = rest[k] + Total(queue'[k])
               /\ Shows(queue'[k], mem', promised', 0 - rest[k], Len(promised'))
    <3>1. k \in 1 .. l - 1 /\ queue'[k] = queue[k + 1]
      BY <1>1, <1>4
    <3>. QED BY <1>1, <1>12, <3>1 DEF n
  <2>4. sending' = hs /\ sending' # <<>>
    BY <1>1, <1>4, <1>5
  <2>5. (Len(onWire') - sentSize') + Total(sending') = rest[1]
    <3>1. Len(onWire) - 0 = Len(onWire)
      BY <1>7
    <3>. QED BY <1>1, <1>9, <1>11, <2>4, <3>1
  <2>6. Shows(sending', mem', promised', sentSize' - Len(onWire'), Len(promised'))
    BY <1>1, <1>13, <2>4 DEF n
  <2>7. /\ sendingData'[1] = sending'[cur'].block
        /\ sendingData'[2] \in Nat /\ sendingData'[2] + sendingSize' = sending'[cur'].size
    <3>1. 0 + hs[1].size = hs[1].size
      BY <1>5
    <3>. QED BY <1>1, <2>4, <3>1
  <2>. QED BY <2>2, <2>3, <2>4, <2>5, <2>6, <2>7 DEF LaidOut
<1>15. rest \in [1 .. Len(queue') + 1 -> 0 .. Len(promised')]
  <2>1. Len(queue') + 1 = l
    <3>1. (l - 1) + 1 = l
      BY <1>4
    <3>. QED BY <1>1, <1>4, <3>1
  <2>. QED BY <1>1, <2>1 DEF n
<1>16. NetBytes'
  BY <1>6, <1>14, <1>15 DEF NetBytes
<1>. QED BY <1>2, <1>16 DEF WireInv

(* A close frees what is queued; what is on the wire stays. *)
LEMMA CloseWriterBytes == ASSUME CountsInv, CountsInv', WireInv, CloseWriter PROVE WireInv'
<1>1. /\ closed' = TRUE /\ promised' = promised /\ onWire' = onWire
      /\ UNCHANGED <<step, asmVars>>
      /\ \E freed : Free(freed, mem)
  BY DEF CloseWriter
<1>2. AsmBytes'
  BY <1>1, SenderKeepsAsm DEF WireInv
<1>3. NetBytes'
  BY <1>1 DEF WireInv, NetBytes, WirePrefix
<1>. QED BY <1>2, <1>3 DEF WireInv

(* What one write adds to the wire are the next promised bytes. *)
LEMMA WrittenPromised ==
    ASSUME CountsInv, NetBytes, ~closed, sending # <<>>, NEW n \in 1 .. sendingSize, NEW new,
           new = SubSeq(mem[sendingData[1]], sendingData[2] + 1, sendingData[2] + n)
    PROVE  /\ promised \in Seq(Byte) /\ onWire \in Seq(Byte)
           /\ new \in Seq(Byte) /\ Len(new) = n
           /\ Len(onWire) + n <= Len(promised)
           /\ \A j \in 1 .. n : new[j] = promised[Len(onWire) + j]
<1>1. /\ promised \in Seq(Byte) /\ onWire \in Seq(Byte)
  BY DEF NetBytes, WirePrefix
<1>. DEFINE b == sendingData[1]
            d == sendingData[2]
            w == Len(onWire)
            p == Len(promised)
<1>2. /\ MemOK /\ sending \in Seq(WriteHandles) /\ cur \in 1 .. Len(sending)
      /\ cur \in DOMAIN sending /\ sendingSize \in Nat /\ sentSize \in Nat
      /\ sentSize + sendingSize = Offset(sending, cur + 1)
  <2>1. MemOK /\ NetOK
    BY DEF CountsInv
  <2>2. /\ sending \in Seq(WriteHandles) /\ cur \in DOMAIN sending /\ sendingSize \in Nat
        /\ sentSize \in Nat /\ sentSize + sendingSize = Offset(sending, cur + 1)
    BY <2>1 DEF NetOK
  <2>3. DOMAIN sending = 1 .. Len(sending)
    BY <2>2
  <2>. QED BY <2>1, <2>2, <2>3
<1>3. n \in Nat /\ n >= 1 /\ n <= sendingSize /\ w \in Nat /\ p \in Nat
  BY <1>1, <1>2
<1>. HIDE DEF b, d, w, p
<1>4. PICK starts \in [1 .. Len(queue) + 1 -> 0 .. p] : LaidOut(starts)
  BY DEF NetBytes, p
<1>5. /\ (w - sentSize) + Total(sending) = starts[1]
      /\ Shows(sending, mem, promised, sentSize - w, p)
      /\ b = sending[cur].block
      /\ d \in Nat /\ d + sendingSize = sending[cur].size
  BY <1>4 DEF LaidOut, b, d, w, p
<1>6. starts[1] \in Nat /\ starts[1] <= p
  <2>1. queue \in Seq(Seq(WriteHandles))
    BY WireTypes DEF ListsOK
  <2>2. Len(queue) \in Nat
    BY <2>1
  <2>3. 1 \in 1 .. Len(queue) + 1
    BY <2>2
  <2>4. starts[1] \in 0 .. p
    BY <1>4, <2>3
  <2>. QED BY <1>3, <2>4
<1>7. /\ sending[cur] \in WriteHandles /\ sending[cur].size \in Nat /\ b \in Blocks
      /\ Offset(sending, cur) \in Nat /\ Total(sending) \in Nat
      /\ Offset(sending, cur + 1) = Offset(sending, cur) + sending[cur].size
      /\ Offset(sending, cur + 1) <= Total(sending)
  <2>1. sending[cur] \in WriteHandles
    BY <1>2
  <2>2. sending[cur].size \in Nat /\ b \in Blocks
    BY <1>5, <2>1 DEF WriteHandles
  <2>3. /\ Total(sending) = Offset(sending, Len(sending) + 1) /\ Total(sending) \in Nat
        /\ Offset(sending, cur) \in Nat
        /\ Offset(sending, cur + 1) = Offset(sending, cur) + sending[cur].size
    <3>1. cur \in 1 .. Len(sending) + 1
      BY <1>2
    <3>. QED BY <1>2, <3>1, Offsets
  <2>4. Offset(sending, cur + 1) <= Offset(sending, Len(sending) + 1)
    <3>1. cur + 1 \in 1 .. Len(sending) + 1 /\ Len(sending) + 1 \in cur + 1 .. Len(sending) + 1
      BY <1>2
    <3>. QED BY <1>2, <3>1, OffsetsGrow
  <2>. QED BY <2>1, <2>2, <2>3, <2>4
<1>8. sentSize = Offset(sending, cur) + d
  <2>. DEFINE z == sending[cur].size
              a == Offset(sending, cur)
  <2>1. /\ sentSize + sendingSize = a + z /\ d + sendingSize = z /\ a \in Nat /\ z \in Nat
        /\ d \in Nat /\ sendingSize \in Nat /\ sentSize \in Nat
    BY <1>2, <1>5, <1>7
  <2>. HIDE DEF z, a
  <2>2. sentSize = a + d
    BY <2>1
  <2>. QED BY <2>2 DEF a
<1>9. w + n <= p
  <2>. DEFINE t == Total(sending)
  <2>1. /\ t \in Nat /\ (w - sentSize) + t <= p /\ sentSize + sendingSize <= t
        /\ sentSize \in Nat /\ sendingSize \in Nat
    BY <1>2, <1>5, <1>6, <1>7
  <2>. HIDE DEF t
  <2>. QED BY <1>3, <2>1
<1>10. mem[b] \in Seq(Byte) /\ sending[cur].size <= Len(mem[b])
  <2>1. sending[cur] \in AllHandles
    BY <1>2 DEF AllHandles, HandlesOf, RangeOf
  <2>. QED BY <1>2, <1>5, <1>7, <2>1 DEF MemOK
<1>11. /\ new \in Seq(Byte) /\ Len(new) = n
       /\ \A j \in 1 .. n : new[j] = mem[b][d + j]
  <2>. DEFINE s == mem[b]
              z == sending[cur].size
  <2>1. new = SubSeq(s, d + 1, d + n)
    BY DEF b, d
  <2>2. /\ s \in Seq(Byte) /\ Len(s) \in Nat /\ z <= Len(s) /\ z \in Nat /\ d \in Nat
        /\ d + sendingSize = z
    BY <1>5, <1>7, <1>10
  <2>. HIDE DEF s, z
  <2>3. d + n <= Len(s)
    BY <1>2, <1>3, <2>2
  <2>4. d + 1 \in Nat /\ d + 1 >= 1 /\ d + n \in Nat /\ d + 1 <= d + n
    BY <1>3, <2>2
  <2>5. SubSeq(s, d + 1, d + n) \in Seq(Byte)
    BY <2>2, <2>3, <2>4, PartType
  <2>6. Len(SubSeq(s, d + 1, d + n)) = n
    <3>1. Len(SubSeq(s, d + 1, d + n)) = ((d + n) - (d + 1)) + 1
      BY <2>2, <2>3, <2>4
    <3>2. ((d + n) - (d + 1)) + 1 = n
      BY <1>3, <2>2
    <3>. QED BY <3>1, <3>2
  <2>7. ASSUME NEW j \in 1 .. n PROVE SubSeq(s, d + 1, d + n)[j] = s[d + j]
    BY <1>3, <2>2, <2>3
  <2>. QED BY <2>1, <2>5, <2>6, <2>7 DEF s
<1>12. ASSUME NEW j \in 1 .. n PROVE mem[b][d + j] = promised[w + j]
  <2>. DEFINE o == d + j
              z == sending[cur].size
              a == Offset(sending, cur)
  <2>1. j \in Nat /\ j >= 1 /\ j <= n
    BY <1>3
  <2>2. o \in 1 .. z
    <3>1. d \in Nat /\ d + sendingSize = z /\ z \in Nat /\ sendingSize \in Nat
      BY <1>2, <1>5, <1>7
    <3>. HIDE DEF z
    <3>. QED BY <1>3, <2>1, <3>1
  <2>3. (a + o) - (sentSize - w) = w + j
    <3>1. a \in Nat /\ d \in Nat /\ sentSize = a + d
      BY <1>5, <1>7, <1>8
    <3>. HIDE DEF a
    <3>2. (a + (d + j)) - ((a + d) - w) = w + j
      BY <1>3, <2>1, <3>1
    <3>. QED BY <3>1, <3>2
  <2>4. w + j \in 1 .. p
    BY <1>3, <1>9, <2>1
  <2>5. (a + o) - (sentSize - w) \in 1 .. p
    BY <2>3, <2>4
  <2>. HIDE DEF o
  <2>6. mem[sending[cur].block][o] = promised[(a + o) - (sentSize - w)]
    BY <1>2, <1>5, <2>2, <2>5 DEF Shows
  <2>. QED BY <1>5, <2>3, <2>6 DEF o
<1>13. \A j \in 1 .. n : new[j] = promised[w + j]
  BY <1>11, <1>12
<1>. QED BY <1>1, <1>9, <1>11, <1>13 DEF w, p

(* A write moves what has been sent and what has to be, and nothing else. *)
LEMMA OnWriteSomeBytes == ASSUME CountsInv, CountsInv', WireInv, OnWriteSome PROVE WireInv'
<1>1. /\ sending # <<>> /\ ~closed /\ UNCHANGED <<step, asmVars, queue, closed, promised>>
      /\ queue' = queue /\ closed' = closed /\ promised' = promised
  BY DEF OnWriteSome
<1>. DEFINE new(n) == SubSeq(mem[sendingData[1]], sendingData[2] + 1, sendingData[2] + n)
<1>2. PICK n \in 1 .. sendingSize :
          /\ onWire' = onWire \o new(n)
          /\ sentSize' = sentSize + n
          /\ IF n < sendingSize
             THEN /\ sendingData' = <<sendingData[1], sendingData[2] + n>>
                  /\ sendingSize' = sendingSize - n
                  /\ UNCHANGED <<mem, refCount, sending, cur>>
             ELSE IF cur < Len(sending)
             THEN /\ cur' = cur + 1
                  /\ sendingData' = <<sending[cur'].block, 0>>
                  /\ sendingSize' = sending[cur'].size
                  /\ UNCHANGED <<mem, refCount, sending>>
             ELSE /\ Free(RefsOf(sending), mem)
                  /\ sending' = <<>>
                  /\ UNCHANGED <<cur, sendingData, sendingSize>>
  BY DEF OnWriteSome
<1>3. mem' = mem \/ \E freed : Free(freed, mem)
  BY <1>2
<1>4. AsmBytes'
  BY <1>1, <1>3, SenderKeepsAsm DEF WireInv
<1>5. /\ ListsOK /\ sending \in Seq(WriteHandles) /\ cur \in 1 .. Len(sending)
      /\ sendingSize \in Nat /\ sentSize \in Nat
      /\ sentSize + sendingSize = Offset(sending, cur + 1)
      /\ Len(sending) \in Nat /\ cur \in Nat
  <2>1. ListsOK /\ NetOK
    BY WireTypes
  <2>2. /\ sending \in Seq(WriteHandles) /\ cur \in DOMAIN sending /\ sendingSize \in Nat
        /\ sentSize \in Nat /\ sentSize + sendingSize = Offset(sending, cur + 1)
    BY <1>1, <2>1 DEF NetOK
  <2>3. DOMAIN sending = 1 .. Len(sending) /\ Len(sending) \in Nat
    BY <2>2
  <2>. QED BY <2>1, <2>2, <2>3
<1>. DEFINE t == new(n)
            w == Len(onWire)
            p == Len(promised)
<1>6. /\ promised \in Seq(Byte) /\ onWire \in Seq(Byte)
      /\ t \in Seq(Byte) /\ Len(t) = n
      /\ w + n <= p
      /\ \A j \in 1 .. n : t[j] = promised[w + j]
  BY <1>1, WrittenPromised DEF WireInv
<1>7. onWire' = onWire \o t
  BY <1>2
<1>. HIDE DEF t, new
<1>8. n \in Nat /\ n >= 1 /\ n <= sendingSize /\ w \in Nat /\ p \in Nat
  BY <1>5, <1>6
<1>9. /\ onWire' \in Seq(Byte) /\ Len(onWire') = w + n
      /\ \A j \in 1 .. w : onWire'[j] = onWire[j]
      /\ \A j \in 1 .. n : onWire'[w + j] = t[j]
  <2>1. onWire \in Seq(Byte) /\ t \in Seq(Byte)
    BY <1>6
  <2>2. /\ onWire \o t \in Seq(Byte) /\ Len(onWire \o t) = Len(onWire) + Len(t)
        /\ Len(onWire) \in Nat /\ Len(t) \in Nat
        /\ \A j \in 1 .. Len(onWire) : (onWire \o t)[j] = onWire[j]
        /\ \A j \in 1 .. Len(t) : (onWire \o t)[Len(onWire) + j] = t[j]
    BY <2>1, Joined
  <2>. QED BY <1>6, <1>7, <2>2
<1>. HIDE DEF w, p
<1>10. WirePrefix'
  <2>1. \A j \in 1 .. w : onWire[j] = promised[j]
    BY DEF WireInv, NetBytes, WirePrefix, w
  <2>2. ASSUME NEW j \in 1 .. w + n PROVE onWire'[j] = promised[j]
    <3>1. CASE j \in 1 .. w
      BY <1>9, <2>1, <3>1
    <3>2. CASE j \notin 1 .. w
      <4>. DEFINE i == j - w
      <4>1. i \in 1 .. n /\ w + i = j
        BY <1>8, <3>2
      <4>. HIDE DEF i
      <4>2. onWire'[w + i] = t[i] /\ t[i] = promised[w + i]
        BY <1>6, <1>9, <4>1
      <4>. QED BY <4>1, <4>2
    <3>. QED BY <3>1, <3>2
  <2>. QED BY <1>1, <1>6, <1>9, <2>2 DEF WirePrefix, p
<1>11. PICK starts \in [1 .. Len(queue) + 1 -> 0 .. p] : LaidOut(starts)
  BY <1>1 DEF WireInv, NetBytes, p
<1>12. /\ starts[Len(queue) + 1] = p
       /\ \A k \in DOMAIN queue : /\ starts[k + 1] = starts[k] + Total(queue[k])
                                  /\ Shows(queue[k], mem, promised, 0 - starts[k], p)
       /\ (w - sentSize) + Total(sending) = starts[1]
       /\ Shows(sending, mem, promised, sentSize - w, p)
       /\ sendingData[1] = sending[cur].block
       /\ sendingData[2] \in Nat /\ sendingData[2] + sendingSize = sending[cur].size
  BY <1>1, <1>11 DEF LaidOut, w, p
<1>13. ASSUME NEW k \in DOMAIN queue
       PROVE  Shows(queue[k], mem', promised, 0 - starts[k], p)
  <2>1. Shows(queue[k], mem, promised, 0 - starts[k], p)
    BY <1>12
  <2>2. CASE mem' = mem
    BY <2>1, <2>2
  <2>3. CASE \E freed : Free(freed, mem)
    <3>1. ASSUME NEW i \in DOMAIN queue[k] PROVE mem'[queue[k][i].block] = mem[queue[k][i].block]
      <4>1. queue[k][i].block \in Blocks /\ refCount'[queue[k][i].block] # 0
        BY <1>1, KeptAfter
      <4>. QED BY <2>3, <4>1, FreeBytes
    <3>. QED BY <2>1, <3>1, ShowsKept
  <2>. QED BY <1>3, <2>2, <2>3
<1>14. /\ (w + n) - (sentSize + n) = w - sentSize
       /\ (sentSize + n) - (w + n) = sentSize - w
  BY <1>5, <1>8
<1>15. ASSUME sending' # <<>>
       PROVE  /\ (Len(onWire') - sentSize') + Total(sending') = starts[1]
              /\ Shows(sending', mem', promised', sentSize' - Len(onWire'), Len(promised'))
              /\ sendingData'[1] = sending'[cur'].block
              /\ sendingData'[2] \in Nat /\ sendingData'[2] + sendingSize' = sending'[cur'].size
  <2>1. sending' = sending /\ mem' = mem /\ (n < sendingSize \/ cur < Len(sending))
    BY <1>2, <1>15
  <2>2. (Len(onWire') - sentSize') + Total(sending') = starts[1]
    BY <1>2, <1>9, <1>12, <1>14, <2>1
  <2>3. Shows(sending', mem', promised', sentSize' - Len(onWire'), Len(promised'))
    BY <1>1, <1>2, <1>9, <1>12, <1>14, <2>1 DEF p
  <2>4. CASE n < sendingSize
    <3>1. sendingData' = <<sendingData[1], sendingData[2] + n>> /\ sendingSize' = sendingSize - n
          /\ cur' = cur
      BY <1>2, <2>4
    <3>2. sendingData[2] + n \in Nat
          /\ (sendingData[2] + n) + (sendingSize - n) = sendingData[2] + sendingSize
      <4>. DEFINE d == sendingData[2]
      <4>1. d \in Nat
        BY <1>12
      <4>. HIDE DEF d
      <4>2. d + n \in Nat /\ (d + n) + (sendingSize - n) = d + sendingSize
        BY <1>5, <1>8, <4>1
      <4>. QED BY <4>2 DEF d
    <3>3. sendingData'[1] = sendingData[1] /\ sendingData'[2] = sendingData[2] + n
      BY <3>1
    <3>. QED BY <1>12, <2>1, <2>2, <2>3, <3>1, <3>2, <3>3
  <2>5. CASE ~(n < sendingSize)
    <3>1. /\ cur' = cur + 1 /\ sendingData' = <<sending[cur'].block, 0>>
          /\ sendingSize' = sending[cur'].size
      BY <1>2, <2>1, <2>5
    <3>2. sending[cur + 1].size \in Nat
      <4>1. cur + 1 \in 1 .. Len(sending)
        BY <1>5, <2>1, <2>5
      <4>2. sending[cur + 1] \in WriteHandles
        BY <1>5, <4>1
      <4>. QED BY <4>2 DEF WriteHandles
    <3>3. 0 + sending[cur + 1].size = sending[cur + 1].size
      BY <3>2
    <3>. QED BY <2>1, <2>2, <2>3, <3>1, <3>3
  <2>. QED BY <2>4, <2>5
<1>16. ASSUME sending' = <<>> PROVE Len(onWire') = starts[1]
  <2>1. n = sendingSize /\ cur = Len(sending)
    <3>1. ~(n < sendingSize) /\ ~(cur < Len(sending))
      BY <1>1, <1>2, <1>16
    <3>. QED BY <1>5, <1>8, <3>1
  <2>2. Total(sending) = sentSize + n
    <3>1. Total(sending) = Offset(sending, Len(sending) + 1)
      BY <1>5, Offsets
    <3>. QED BY <1>5, <2>1, <3>1
  <2>3. (w - sentSize) + (sentSize + n) = w + n
    BY <1>5, <1>8
  <2>. QED BY <1>9, <1>12, <2>2, <2>3
<1>17. LaidOut(starts)'
  <2>1. (starts[Len(queue) + 1] = Len(promised))'
    BY <1>1, <1>12 DEF p
  <2>2. ASSUME NEW k \in DOMAIN queue'
        PROVE  /\ starts[k + 1] = starts[k] + Total(queue'[k])
               /\ Shows(queue'[k], mem', promised', 0 - starts[k], Len(promised'))
    <3>1. k \in DOMAIN queue
      BY <1>1
    <3>. QED BY <1>1, <1>12, <1>13, <3>1 DEF p
  <2>. QED BY <2>1, <2>2, <1>15, <1>16 DEF LaidOut
<1>18. NetBytes'
  BY <1>1, <1>10, <1>11, <1>17 DEF NetBytes, p
<1>. QED BY <1>4, <1>18 DEF WireInv

-----------------------------------------------------------------------------
(* The bytes on the wire *)

(* Nothing has been assembled or promised at first. *)
LEMMA WireStarts == WriteInit => WireInv
<1>. SUFFICES ASSUME WriteInit PROVE WireInv
  OBVIOUS
<1>1. AsmBytes
  <2>1. step = "idle"
    BY DEF WriteInit
  <2>. QED BY <2>1 DEF AsmBytes, AsmStage, PageBytes, StreamBytes, StreamSteps, ContentBytes
<1>2. /\ queue = <<>> /\ sending = <<>> /\ promised = <<>> /\ onWire = <<>>
  BY DEF WriteInit
<1>3. WirePrefix
  BY <1>2 DEF WirePrefix
<1>4. \E starts \in [1 .. Len(queue) + 1 -> 0 .. Len(promised)] : LaidOut(starts)
  <2>. DEFINE starts == [k \in 1 .. 1 |-> 0]
  <2>1. Len(queue) + 1 = 1 /\ Len(promised) = 0 /\ Len(onWire) = 0 /\ DOMAIN queue = {}
    BY <1>2
  <2>2. starts[1] = 0 /\ starts \in [1 .. 1 -> 0 .. 0]
    OBVIOUS
  <2>. HIDE DEF starts
  <2>3. LaidOut(starts)
    BY <1>2, <2>1, <2>2 DEF LaidOut
  <2>. QED BY <2>1, <2>2, <2>3
<1>. QED BY <1>1, <1>3, <1>4 DEF WireInv, NetBytes

(* Every step keeps the bytes where they are, as long as the compressor *)
(* gets the blocks it asks for.                                          *)
LEMMA WireNextKeeps ==
    ASSUME "compressed" \notin OutOfMemory, CountsInv, WireInv, [WriteNext]_writeVars
    PROVE  WireInv'
<1>1. CountsInv'
  BY WriteNextKeeps
<1>2. CASE UNCHANGED writeVars
  <2>1. /\ UNCHANGED netVars /\ mem' = mem
        /\ UNCHANGED <<step, begun, msg, buf, writeBytes, content, from, left, out, room, metaSize,
                       encoded>>
    BY <1>2 DEF writeVars, writeBufVars, streamVars
  <2>2. ListsOK
    BY WireTypes
  <2>3. AsmBytes'
    BY <2>1, <2>2, AsmBytesKept DEF WireInv
  <2>4. NetBytes'
    BY <2>1, NetBytesUsed DEF WireInv
  <2>. QED BY <2>3, <2>4 DEF WireInv
<1>3. CASE WriteNext
  BY <1>1, <1>3, BeginBytes, AppendPieceBytes, ReserveBytes, HeaderReservedBytes,
     PieceReservedBytes, ContentDoneBytes, RefillBytes, PutBytes, MetaDoneBytes, FillChunkBytes,
     FlushBytes, BodyDoneBytes, SealBytes, StartSendBytes, OnWriteSomeBytes, CloseWriterBytes
     DEF WriteNext
<1>. QED BY <1>2, <1>3

(* The wire has the promised bytes from the first on, and all of them when *)
(* nothing waits to be sent.                                               *)
LEMMA WireInvExact == CountsInv /\ WireInv => WireExact
<1>. SUFFICES ASSUME CountsInv, WireInv PROVE WireExact
  OBVIOUS
<1>1. /\ promised \in Seq(Byte) /\ onWire \in Seq(Byte)
      /\ Len(onWire) <= Len(promised)
      /\ \A j \in 1 .. Len(onWire) : onWire[j] = promised[j]
  BY DEF WireInv, NetBytes, WirePrefix
<1>2. onWire = SubSeq(promised, 1, Len(onWire))
  <2>. DEFINE part == SubSeq(promised, 1, Len(onWire))
  <2>1. Len(onWire) \in Nat /\ Len(promised) \in Nat
    BY <1>1
  <2>2. part \in Seq(Byte) /\ Len(part) = Len(onWire)
    BY <1>1, <2>1
  <2>3. \A j \in 1 .. Len(onWire) : part[j] = promised[j]
    BY <1>1, <2>1
  <2>. HIDE DEF part
  <2>4. \A j \in 1 .. Len(onWire) : onWire[j] = part[j]
    BY <1>1, <2>3
  <2>5. onWire = part
    BY <1>1, <2>2, <2>4
  <2>. QED BY <2>5 DEF part
<1>3. ASSUME ~closed, queue = <<>>, sending = <<>> PROVE onWire = promised
  <2>1. PICK starts \in [1 .. Len(queue) + 1 -> 0 .. Len(promised)] : LaidOut(starts)
    BY <1>3 DEF WireInv, NetBytes
  <2>2. starts[Len(queue) + 1] = Len(promised) /\ Len(onWire) = starts[1]
    BY <1>3, <2>1 DEF LaidOut
  <2>3. Len(queue) + 1 = 1
    BY <1>3
  <2>4. Len(onWire) = Len(promised)
    BY <2>2, <2>3
  <2>. QED BY <1>1, <2>4
<1>. QED BY <1>2, <1>3 DEF WireExact

(* The bytes on the wire are the frames of the messages, whole and in order, *)
(* with the sizes of their parts in the header, for any sizes of blocks,      *)
(* messages and partial writes, and whichever messages run out of memory but  *)
(* a compressed one, whose Flush() does not ask whether the stream below      *)
(* could write (buffer.h, block_wrappers.cc, on_write_some() of the message   *)
(* stream).                                                                   *)
THEOREM WireCorrect == ASSUME "compressed" \notin OutOfMemory PROVE WriteSpec => []WireExact
<1>1. WriteInit => CountsInv /\ WireInv
  BY WriteInitOK, WireStarts
<1>2. (CountsInv /\ WireInv) /\ [WriteNext]_writeVars => (CountsInv /\ WireInv)'
  BY WriteNextKeeps, WireNextKeeps
<1>3. CountsInv /\ WireInv => WireExact
  BY WireInvExact
<1>. QED BY <1>1, <1>2, <1>3, PTL DEF WriteSpec
-----------------------------------------------------------------------------
USE KindAssumption, SizeAssumption
-----------------------------------------------------------------------------
(* The invariant *)

Handles == [block : Blocks, offset : Nat, size : Nat]
Messages == [frame : FrameIds, kind : Kinds, parts : Seq(Handles)]

ReadTypeOK ==
    /\ pc \in {"wait", "split", "closed"}
    /\ wire \in Nat /\ filled \in Nat /\ size \in Nat /\ got \in Nat /\ body \in Nat
    /\ completed \in 0 .. Frames
    /\ block \in Blocks
    /\ origin \in [Blocks -> Nat]
    /\ refs \in [Blocks -> Int]
    /\ frame \in 0 .. Frames
    /\ parts \in Seq(Handles)
    /\ parser \in Kinds
    /\ received \in SUBSET Messages
    /\ held \in SUBSET Messages

(* The frames follow each other without a gap, each with a head longer than *)
(* the magic string.                                                        *)
Layout ==
    /\ magic \in MagicSizes
    /\ kind \in [FrameIds -> Kinds]
    /\ magic = 0 => \A k \in FrameIds : kind[k] = Binary
    /\ head \in [FrameIds -> Nat]
    /\ \A k \in FrameIds : magic < head[k]
    /\ start \in [1 .. Frames + 1 -> Nat]
    /\ start[1] = 0
    /\ \A k \in FrameIds : start[k] + head[k] <= start[k + 1]
    /\ \A i, j \in 1 .. Frames + 1 : i < j => start[i] < start[j]

(* The bytes processed so far are those of the frames completed, and of     *)
(* head and body of the next one.                                           *)
Progress ==
    /\ size <= filled /\ filled <= Capacity
    /\ pc # "split" => size = 0
    /\ pc = "wait" => filled < Capacity
    /\ wire = origin[block] + filled
    /\ wire <= start[Frames + 1]
    /\ Position = start[completed + 1] + got + body
    /\ got > 0 => frame = completed + 1
    /\ completed = Frames => got = 0
    /\ completed < Frames => LET k == completed + 1 IN
          /\ got <= head[k]
          /\ got = head[k] => body < BodySize(k)
    /\ ~(got > 0 /\ got = head[frame]) => body = 0 /\ parts = <<>>

(* The parser is the one the frame asks for, and no other is in use.        *)
ParserChosen ==
    /\ magic = 0 => parser = Binary /\ busy = {}
    /\ got < magic => busy = {}
    /\ got >= magic /\ magic > 0 => parser = kind[completed + 1] /\ busy = {parser}

(* Handles that hold a number of bytes from a position of the wire on. *)
Covers(ps, first, length) ==
    LET At(i) == origin[ps[i].block] + ps[i].offset
        n == Len(ps)
    IN  /\ n = 0 => length = 0
        /\ n > 0 => /\ At(1) = first
                    /\ At(n) + ps[n].size = first + length
        /\ \A i \in 1 .. n - 1 : At(i + 1) = At(i) + ps[i].size

(* The messages are those of frames completed and have their bytes; so has  *)
(* the one being received, as far as it has come.                           *)
MessagesWhole ==
    /\ \A m \in received \cup held : m.frame <= completed
    /\ \A m \in received, n \in held : m.frame # n.frame
    /\ MessagesIntact

ReceivingWhole ==
    pc # "closed" /\ got > 0 /\ got = head[frame] => Covers(parts, start[frame] + head[frame], body)

\* The handles that Uses() counts.
Pairs(ms, b) == UNION { { <<m, i>> : i \in { j \in DOMAIN m.parts : m.parts[j].block = b } }
                        : m \in ms }

(* References counted for each owner apart. *)
RefsCounted ==
    \A b \in Blocks :
        /\ IsFiniteSet(Pairs(held, b)) /\ IsFiniteSet(Pairs(received, b))
        /\ refs[b] = Uses(held, b) + Uses(received, b) + Cardinality(InBlock(parts, b))
                       + (IF pc # "closed" /\ block = b THEN 1 ELSE 0)

(* The cursor of the buffer being read. *)
CursorInv ==
    /\ reading \in SUBSET Messages
    /\ \A m, n \in reading : m = n
    /\ \A m \in reading :
          /\ next \in 1 .. Len(m.parts) + 1
          /\ pos \in Nat /\ last \in Nat /\ count \in Nat /\ skip \in Nat
          /\ count = Before(m, next) + pos
          /\ pos > 0 => next <= Len(m.parts) /\ pos < m.parts[next].size
          /\ last > 0 => pos = 0 /\ next > 1 /\ last <= m.parts[next - 1].size

ReadInv == ReadTypeOK /\ Layout /\ Progress /\ ParserChosen
           /\ MessagesWhole /\ ReceivingWhole /\ RefsCounted
-----------------------------------------------------------------------------
(* Counting handles *)

(* A counted handle belongs to a message and lies in the block. *)
LEMMA PairsElement ==
    ASSUME NEW ms, NEW b, NEW x
    PROVE  x \in Pairs(ms, b) <=> \E m \in ms : \E i \in InBlock(m.parts, b) : x = <<m, i>>
BY DEF Pairs, InBlock

(* Uses() counts the handles of Pairs(). *)
LEMMA UsesPairs == ASSUME NEW ms, NEW b PROVE Uses(ms, b) = Cardinality(Pairs(ms, b))
BY DEF Uses, Pairs

(* One message is counted once for each of its handles. *)
LEMMA UsesOne ==
    ASSUME NEW m, m.parts \in Seq(Handles), NEW b
    PROVE  /\ IsFiniteSet(Pairs({m}, b))
           /\ Uses({m}, b) = Cardinality(InBlock(m.parts, b))
<1>. DEFINE S == InBlock(m.parts, b)
            T == Pairs({m}, b)
            f == [i \in S |-> <<m, i>>]
<1>1. IsFiniteSet(S)
  BY InBlockFinite
<1>2. \A x : x \in T <=> \E i \in S : x = <<m, i>>
  BY PairsElement
<1>. HIDE DEF S, T
<1>3. f \in [S -> T] /\ \A x \in T : \E i \in S : f[i] = x
  BY <1>2
<1>4. \A i, j \in S : f[i] = f[j] => i = j
  OBVIOUS
<1>. HIDE DEF f
<1>5. f \in Bijection(S, T)
  BY <1>3, <1>4 DEF Bijection, Injection, Surjection, IsInjective
<1>6. ExistsBijection(S, T)
  BY <1>5 DEF ExistsBijection
<1>7. IsFiniteSet(T) /\ Cardinality(T) = Cardinality(S)
  BY <1>1, <1>6, FS_Bijection
<1>. QED BY <1>7, UsesPairs DEF S, T

(* Sets of messages that share none that has handles are counted apart. *)
Apart(A, B) == \A m \in A \cap B : m.parts = <<>>
CountsAdd(A, B, b) ==
    /\ IsFiniteSet(Pairs(A \cup B, b))
    /\ Uses(A, b) \in Nat /\ Uses(B, b) \in Nat
    /\ Uses(A \cup B, b) = Uses(A, b) + Uses(B, b)

(* Such sets are counted apart, each handle with its own message. *)
LEMMA UsesUnion ==
    ASSUME NEW A, NEW B, NEW b, IsFiniteSet(Pairs(A, b)), IsFiniteSet(Pairs(B, b)),
           Apart(A, B)
    PROVE  CountsAdd(A, B, b)
<1>. DEFINE PA == Pairs(A, b)
            PB == Pairs(B, b)
<1>1. Pairs(A \cup B, b) = PA \cup PB
  <2>1. \A x : x \in Pairs(A \cup B, b) <=> x \in PA \cup PB
    BY PairsElement
  <2>. QED BY <2>1
<1>2. PA \cap PB = {}
  <2>1. ASSUME NEW x, x \in PA, x \in PB PROVE FALSE
    <3>1. PICK m \in A : \E i \in InBlock(m.parts, b) : x = <<m, i>>
      BY <2>1, PairsElement
    <3>2. PICK i \in InBlock(m.parts, b) : x = <<m, i>>
      BY <3>1
    <3>3. PICK n \in B : \E j \in InBlock(n.parts, b) : x = <<n, j>>
      BY <2>1, PairsElement
    <3>4. m = n
      BY <3>2, <3>3
    <3>5. m.parts = <<>>
      BY <3>4 DEF Apart
    <3>. QED BY <3>2, <3>5, InBlockEmpty
  <2>. QED BY <2>1
<1>3. IsFiniteSet(PA) /\ IsFiniteSet(PB)
  OBVIOUS
<1>. HIDE DEF PA, PB
<1>4. Cardinality(PA) \in Nat /\ Cardinality(PB) \in Nat
  BY <1>3, FS_CardinalityType
<1>5. IsFiniteSet(PA \cup PB) /\ Cardinality(PA \cup PB) = Cardinality(PA) + Cardinality(PB)
  <2>1. Cardinality(PA \cap PB) = 0
    BY <1>2, FS_EmptySet
  <2>2. /\ IsFiniteSet(PA \cup PB)
        /\ Cardinality(PA \cup PB) = Cardinality(PA) + Cardinality(PB) - Cardinality(PA \cap PB)
    BY <1>3, FS_Union
  <2>. QED BY <1>4, <2>1, <2>2
<1>. QED BY <1>1, <1>4, <1>5, UsesPairs DEF CountsAdd, PA, PB

(* A block with a handle is in use. *)
LEMMA UsesSome ==
    ASSUME NEW ms, NEW m \in ms, NEW b, NEW i \in DOMAIN m.parts, m.parts[i].block = b,
           IsFiniteSet(Pairs(ms, b))
    PROVE  Uses(ms, b) >= 1
<1>1. <<m, i>> \in Pairs(ms, b)
  BY PairsElement DEF InBlock
<1>2. Pairs(ms, b) # {} /\ Cardinality(Pairs(ms, b)) \in Nat
  BY <1>1, FS_CardinalityType
<1>3. Cardinality(Pairs(ms, b)) # 0
  BY <1>2, FS_EmptySet
<1>. QED BY <1>2, <1>3, UsesPairs
-----------------------------------------------------------------------------
(* The layout of the wire *)

(* A sequence of positions that grows at each step grows throughout. *)
LEMMA Increasing ==
    ASSUME NEW n \in Nat, NEW f \in [1 .. n + 1 -> Nat], \A k \in 1 .. n : f[k] < f[k + 1]
    PROVE  \A i, j \in 1 .. n + 1 : i < j => f[i] < f[j]
<1>. SUFFICES ASSUME NEW i \in 1 .. n + 1 PROVE \A j \in 1 .. n + 1 : i < j => f[i] < f[j]
  OBVIOUS
<1>. DEFINE T == { j \in 1 .. n + 1 : i < j /\ ~(f[i] < f[j]) }
<1>1. ASSUME T # {} PROVE FALSE
  <2>1. PICK j \in T : \A m \in T : j <= m
    <3>1. T \subseteq Nat
      OBVIOUS
    <3>. QED BY <1>1, <3>1, LeastNat
  <2>2. j \in 1 .. n + 1 /\ i < j /\ ~(f[i] < f[j])
    BY <2>1
  <2>3. j - 1 \in 1 .. n /\ j - 1 \in 1 .. n + 1 /\ j - 1 < j
    BY <2>2
  <2>4. i = j - 1 \/ f[i] < f[j - 1]
    BY <2>1, <2>2, <2>3
  <2>5. f[j - 1] < f[j]
    BY <2>3
  <2>6. f[i] \in Nat /\ f[j] \in Nat /\ f[j - 1] \in Nat
    BY <2>2, <2>3
  <2>. QED BY <2>2, <2>4, <2>5, <2>6
<1>. QED BY <1>1

(* The positions of the frames, sums of their sizes, leave no gap. *)
LEMMA LayoutInit == Init => Layout
<1>. SUFFICES ASSUME Init PROVE Layout
  OBVIOUS
<1>1. /\ magic \in MagicSizes /\ magic \in Nat /\ Frames \in Nat
      /\ kind \in [FrameIds -> Kinds]
      /\ magic = 0 => \A k \in FrameIds : kind[k] = Binary
  BY DEF Init
<1>2. \A k \in FrameIds : head[k] \in HeadSizes[kind[k]] /\ head[k] \in Nat /\ magic < head[k]
  <2>1. \A k \in FrameIds : head[k] \in HeadSizes[kind[k]]
    BY DEF Init
  <2>. QED BY <1>1, <2>1
<1>3. head \in [FrameIds -> Nat]
  <2>1. \E S : head \in [FrameIds -> S]
    BY DEF Init
  <2>. QED BY <1>2, <2>1
<1>4. PICK b \in [FrameIds -> 0 .. MaxBody] :
         start = [k \in 1 .. Frames + 1 |-> Sums([f \in FrameIds |-> head[f] + b[f]])[k - 1]]
  BY DEF Init
<1>. DEFINE d == [f \in FrameIds |-> head[f] + b[f]]
<1>5. /\ d \in Seq(Nat) /\ Len(d) = Frames
      /\ \A k \in FrameIds : d[k] = head[k] + b[k] /\ d[k] >= head[k]
  <2>1. \A k \in FrameIds : head[k] \in Nat /\ b[k] \in Nat
    BY <1>3
  <2>2. \A k \in FrameIds : d[k] = head[k] + b[k]
    OBVIOUS
  <2>3. d \in [1 .. Frames -> Nat]
    BY <2>1 DEF FrameIds
  <2>4. d \in Seq(Nat) /\ Len(d) = Frames
    <3>. HIDE DEF d
    <3>. QED BY <1>1, <2>3
  <2>5. ASSUME NEW k \in FrameIds PROVE d[k] >= head[k]
    <3>. HIDE DEF d
    <3>1. d[k] = head[k] + b[k] /\ head[k] \in Nat /\ b[k] \in Nat
      BY <2>1, <2>2
    <3>. QED BY <3>1
  <2>. QED BY <2>2, <2>4, <2>5
<1>6. start = [k \in 1 .. Frames + 1 |-> Sums(d)[k - 1]]
  BY <1>4
<1>. HIDE DEF d
<1>7. /\ Sums(d) \in [0 .. Frames -> Nat] /\ Sums(d)[0] = 0
      /\ \A i \in 1 .. Frames : Sums(d)[i] = Sums(d)[i - 1] + d[i]
  BY <1>5, SumsValue
<1>8. start \in [1 .. Frames + 1 -> Nat] /\ start[1] = 0
  <2>1. \A k \in 1 .. Frames + 1 : k - 1 \in 0 .. Frames
    BY <1>1
  <2>. QED BY <1>1, <1>6, <1>7, <2>1
<1>9. ASSUME NEW k \in FrameIds PROVE start[k] + head[k] <= start[k + 1] /\ start[k] < start[k + 1]
  <2>1. k \in 1 .. Frames /\ k \in 1 .. Frames + 1 /\ k + 1 \in 1 .. Frames + 1 /\ k - 1 \in 0 .. Frames
    BY <1>1 DEF FrameIds
  <2>2. start[k] = Sums(d)[k - 1] /\ start[k + 1] = Sums(d)[(k + 1) - 1] /\ (k + 1) - 1 = k
    BY <1>6, <2>1
  <2>3. start[k + 1] = start[k] + d[k] /\ start[k] \in Nat
    BY <1>7, <1>8, <2>1, <2>2
  <2>. QED BY <1>1, <1>2, <1>5, <2>3
<1>10. \A i, j \in 1 .. Frames + 1 : i < j => start[i] < start[j]
  BY <1>1, <1>8, <1>9, Increasing DEF FrameIds
<1>. QED BY <1>1, <1>2, <1>3, <1>8, <1>9, <1>10 DEF Layout

(* The invariant holds before anything is read. *)
LEMMA ReadInit == Init => ReadInv
<1>. SUFFICES ASSUME Init PROVE ReadInv
  OBVIOUS
<1>1. Layout
  BY LayoutInit
<1>2. ReadTypeOK
  BY DEF Init, ReadTypeOK
<1>3. Progress
  <2>1. start[1] = 0 /\ start[Frames + 1] \in Nat /\ Frames \in Nat
    BY <1>1 DEF Layout
  <2>2. \A k \in FrameIds : head[k] # 0
    BY <1>1 DEF Layout
  <2>3. completed < Frames => completed + 1 \in FrameIds
    BY <2>1 DEF Init, FrameIds
  <2>. QED BY <2>1, <2>2, <2>3 DEF Init, Progress, Position
<1>4. ParserChosen /\ MessagesWhole /\ ReceivingWhole
  <2>1. magic \in Nat
    BY <1>1 DEF Layout
  <2>. QED BY <2>1 DEF Init, ParserChosen, MessagesWhole, MessagesIntact, ReceivingWhole
<1>5. RefsCounted
  <2>1. \A b : Pairs({}, b) = {}
    BY DEF Pairs
  <2>2. \A b : IsFiniteSet(Pairs({}, b)) /\ Uses({}, b) = 0
    BY <2>1, UsesPairs, FS_EmptySet
  <2>. QED BY <2>2, InBlockEmpty DEF Init, RefsCounted
<1>. QED BY <1>1, <1>2, <1>3, <1>4, <1>5 DEF ReadInv

(* While there is data, the frame it belongs to is the next to complete. *)
LEMMA FrameOfData ==
    ASSUME ReadTypeOK, Layout, Progress, size > 0
    PROVE  /\ completed < Frames /\ completed + 1 \in FrameIds
           /\ FrameHere = completed + 1 /\ pc = "split"
<1>1. /\ Frames \in Nat /\ completed \in Nat /\ completed <= Frames
      /\ size \in Nat /\ filled \in Nat /\ got \in Nat /\ body \in Nat /\ origin[block] \in Nat
  BY DEF ReadTypeOK
<1>2. /\ wire = origin[block] + filled /\ wire <= start[Frames + 1]
      /\ Position = start[completed + 1] + got + body
      /\ got > 0 => frame = completed + 1
      /\ pc # "split" => size = 0
      /\ got = 0 => body = 0
  BY DEF Progress
<1>3. \A k \in 1 .. Frames + 1 : start[k] \in Nat
  BY DEF Layout
<1>4. Position = origin[block] + (filled - size) /\ completed + 1 \in 1 .. Frames + 1
  BY <1>1 DEF Position
<1>5. completed # Frames
  <2>1. completed = Frames => start[completed + 1] = start[Frames + 1]
    OBVIOUS
  <2>2. start[completed + 1] \in Nat /\ start[Frames + 1] \in Nat
    BY <1>1, <1>3, <1>4
  <2>. QED BY <1>1, <1>2, <1>4, <2>1, <2>2
<1>6. completed + 1 \in FrameIds
  BY <1>1, <1>5 DEF FrameIds
<1>7. CASE got > 0
  BY <1>1, <1>2, <1>5, <1>6, <1>7 DEF FrameHere
<1>8. CASE ~(got > 0)
  <2>1. got = 0 /\ body = 0
    BY <1>1, <1>2, <1>8
  <2>2. start[completed + 1] = Position
    BY <1>2, <1>3, <1>4, <2>1
  <2>3. ASSUME NEW k \in FrameIds, start[k] = Position PROVE k = completed + 1
    <3>1. k \in 1 .. Frames + 1 /\ start[k] \in Nat /\ k \in Int
      BY <1>1, <1>3 DEF FrameIds
    <3>2. ~(k < completed + 1) /\ ~(completed + 1 < k)
      BY <1>3, <1>4, <2>2, <2>3, <3>1 DEF Layout
    <3>. QED BY <1>1, <3>1, <3>2
  <2>4. (CHOOSE k \in FrameIds : start[k] = Position) = completed + 1
    BY <1>6, <2>2, <2>3
  <2>5. \E k \in FrameIds : start[k] = Position
    BY <1>6, <2>2
  <2>6. FrameHere = completed + 1
    BY <1>8, <2>4, <2>5 DEF FrameHere
  <2>. QED BY <1>1, <1>2, <1>5, <1>6, <2>6
<1>. QED BY <1>7, <1>8

(* The next frame: its head is longer than the magic string, and its body   *)
(* ends where the frame after it begins.                                    *)
LEMMA FrameShape ==
    ASSUME Layout, NEW k \in FrameIds
    PROVE  /\ magic \in Nat /\ head[k] \in Nat /\ magic < head[k]
           /\ start[k] \in Nat /\ start[k + 1] \in Nat /\ BodySize(k) \in Nat
           /\ start[k + 1] = start[k] + head[k] + BodySize(k)
<1>1. k \in 1 .. Frames + 1 /\ k + 1 \in 1 .. Frames + 1
  BY DEF FrameIds
<1>2. magic \in Nat /\ head[k] \in Nat /\ magic < head[k]
  BY DEF Layout
<1>3. start[k] \in Nat /\ start[k + 1] \in Nat /\ start[k] + head[k] <= start[k + 1]
  BY <1>1 DEF Layout
<1>. QED BY <1>2, <1>3 DEF BodySize

(* The smaller of two numbers is one of them and no larger than either. *)
LEMMA MinimumValue ==
    ASSUME NEW a \in Int, NEW b \in Int
    PROVE  /\ Minimum(a, b) \in Int /\ Minimum(a, b) <= a /\ Minimum(a, b) <= b
           /\ Minimum(a, b) \in {a, b}
BY DEF Minimum

(* Nothing on the wire moves and no message is touched. *)
LEMMA MessagesStay ==
    ASSUME MessagesWhole, UNCHANGED <<wireVars, origin, received, held, completed>>
    PROVE  MessagesWhole'
BY DEF MessagesWhole, MessagesIntact, Intact, BodySize, wireVars

(* Each action keeps what is true of the stream.  OnReadSome: the bytes that *)
(* arrive follow those in the block, and all before them are processed.      *)
LEMMA ReadOnRead ==
    ASSUME ReadInv, OnReadSome
    PROVE  ReadInv'
<1>. ReadTypeOK /\ Layout /\ Progress /\ ParserChosen /\ MessagesWhole /\ ReceivingWhole /\ RefsCounted
  BY DEF ReadInv
<1>1. PICK n \in 1 .. Minimum(Capacity - filled, start[Frames + 1] - wire) :
         wire' = wire + n /\ filled' = filled + n /\ size' = n
  BY DEF OnReadSome
<1>2. /\ pc = "wait" /\ pc' = "split"
      /\ UNCHANGED <<wireVars, block, origin, refs, parseVars, received, held, completed>>
  BY DEF OnReadSome
<1>3. /\ size = 0 /\ wire \in Nat /\ filled \in Nat /\ start[Frames + 1] \in Nat
      /\ wire = origin[block] + filled /\ origin[block] \in Nat /\ Capacity \in Nat
  BY <1>2 DEF Progress, ReadTypeOK, Layout
<1>4. /\ n \in Nat /\ n >= 1 /\ filled + n <= Capacity /\ wire + n <= start[Frames + 1]
  <2>1. Capacity - filled \in Int /\ start[Frames + 1] - wire \in Int
    BY <1>3
  <2>2. /\ Minimum(Capacity - filled, start[Frames + 1] - wire) \in Int
        /\ Minimum(Capacity - filled, start[Frames + 1] - wire) <= Capacity - filled
        /\ Minimum(Capacity - filled, start[Frames + 1] - wire) <= start[Frames + 1] - wire
    BY <2>1, MinimumValue
  <2>. QED BY <1>3, <2>2
<1>5. ReadTypeOK'
  <2>1. wire' \in Nat /\ filled' \in Nat /\ size' \in Nat
    BY <1>1, <1>3, <1>4
  <2>. QED BY <1>2, <2>1 DEF ReadTypeOK, parseVars
<1>6. Layout' /\ ParserChosen' /\ ReceivingWhole'
  BY <1>2 DEF Layout, ParserChosen, ReceivingWhole, Covers, wireVars, parseVars
<1>7. Position' = Position
  BY <1>1, <1>2, <1>3, <1>4 DEF Position
<1>8. Progress'
  BY <1>1, <1>2, <1>3, <1>4, <1>7 DEF Progress, BodySize, wireVars, parseVars
<1>9. RefsCounted'
  BY <1>2 DEF RefsCounted, Pairs, Uses, InBlock, parseVars
<1>10. MessagesWhole'
  BY <1>2, MessagesStay
<1>. QED BY <1>5, <1>6, <1>8, <1>9, <1>10 DEF ReadInv

(* ReadMagic: the magic string is a part of the head, and where it ends the  *)
(* parser is chosen that the frame asks for.                                 *)
LEMMA ReadMagicKeeps ==
    ASSUME ReadInv, ReadMagic
    PROVE  ReadInv'
<1>. ReadTypeOK /\ Layout /\ Progress /\ ParserChosen /\ MessagesWhole /\ ReceivingWhole /\ RefsCounted
  BY DEF ReadInv
<1>1. PICK n : /\ n = Minimum(size, magic - got)
              /\ size' = size - n /\ got' = got + n /\ frame' = FrameHere
              /\ IF got + n = magic /\ FrameHere # 0
                 THEN parser' = kind[FrameHere] /\ busy' = busy \cup {parser'}
                 ELSE UNCHANGED <<parser, busy>>
  BY DEF ReadMagic, Consume
<1>2. /\ size > 0 /\ got < magic
      /\ UNCHANGED <<wireVars, pc, bufVars, refs, body, parts, received, held, completed>>
  BY DEF ReadMagic
<1>3. PICK k \in FrameIds : k = completed + 1 /\ FrameHere = k /\ completed < Frames
  BY <1>2, FrameOfData
<1>4. /\ magic \in Nat /\ head[k] \in Nat /\ magic < head[k] /\ start[k] \in Nat
      /\ size \in Nat /\ got \in Nat /\ body \in Nat /\ filled \in Nat /\ origin[block] \in Nat
  BY <1>3, FrameShape DEF ReadTypeOK
<1>5. n \in Nat /\ n >= 1 /\ n <= size /\ got + n <= magic
  <2>1. size \in Int /\ magic - got \in Int
    BY <1>4
  <2>2. n \in {size, magic - got} /\ n <= size /\ n <= magic - got
    BY <1>1, <2>1, MinimumValue
  <2>. QED BY <1>2, <1>4, <2>2
<1>6. k \in Nat /\ k # 0 /\ k \in 0 .. Frames
  BY DEF FrameIds
<1>7. body = 0 /\ parts = <<>>
  <2>1. got > 0 => frame = k
    BY <1>3 DEF Progress
  <2>2. ~(got > 0 /\ got = head[frame])
    BY <1>2, <1>4, <2>1
  <2>. QED BY <2>2 DEF Progress
<1>8. ReadTypeOK'
  <2>1. parser' \in Kinds
    BY <1>1, <1>3 DEF ReadTypeOK, Layout
  <2>2. size' \in Nat /\ got' \in Nat /\ frame' \in 0 .. Frames
    BY <1>1, <1>3, <1>4, <1>5, <1>6
  <2>. QED BY <1>2, <2>1, <2>2 DEF ReadTypeOK, bufVars
<1>9. Layout'
  BY <1>2 DEF Layout, wireVars
<1>10. Position' = Position + n /\ Position \in Int
  BY <1>1, <1>2, <1>4, <1>5 DEF Position, bufVars
<1>11. got' < head[k] /\ got' > 0 /\ frame' = k /\ completed' = completed
  BY <1>1, <1>2, <1>3, <1>4, <1>5
<1>12. Progress'
  <2>1. Position' = start[completed + 1] + got' + body
    <3>1. Position = start[k] + got + body
      BY <1>3 DEF Progress
    <3>2. got' = got + n
      BY <1>1
    <3>. QED BY <1>3, <1>4, <1>5, <1>10, <3>1, <3>2
  <2>2. /\ size' <= filled /\ filled <= Capacity /\ pc = "split" /\ wire <= start[Frames + 1]
        /\ wire = origin[block] + filled
    <3>1. /\ size <= filled /\ filled <= Capacity /\ wire <= start[Frames + 1]
          /\ wire = origin[block] + filled /\ pc = "split"
      BY <1>2 DEF Progress, ReadMagic
    <3>2. size' = size - n
      BY <1>1
    <3>3. size' <= filled
      BY <1>4, <1>5, <3>1, <3>2
    <3>. QED BY <3>1, <3>3
  <2>3. Position' = (start[completed + 1] + got + body)'
    BY <1>2, <2>1 DEF wireVars
  <2>4. ~(got' > 0 /\ got' = head'[frame']) /\ body' = 0 /\ parts' = <<>>
    BY <1>2, <1>4, <1>7, <1>11 DEF wireVars
  <2>5. got' <= head'[completed' + 1] /\ got' # head'[completed' + 1] /\ frame' = completed' + 1
    BY <1>1, <1>2, <1>3, <1>4, <1>5, <1>11 DEF wireVars
  <2>6. (size <= filled /\ filled <= Capacity /\ wire <= start[Frames + 1]
        /\ wire = origin[block] + filled)'
    BY <1>2, <2>2 DEF wireVars, bufVars
  <2>7. pc' = "split" /\ completed' # Frames
    BY <1>2, <1>3, <2>2
  <2>. QED BY <2>3, <2>4, <2>5, <2>6, <2>7 DEF Progress
<1>13. ParserChosen'
  <2>1. busy = {} /\ magic > 0
    BY <1>2, <1>4 DEF ParserChosen
  <2>2. CASE got + n = magic
    <3>1. parser' = kind[k] /\ busy' = {parser'}
      BY <1>1, <1>3, <1>6, <2>1, <2>2
    <3>. QED BY <1>1, <1>2, <1>3, <2>1, <2>2, <3>1 DEF ParserChosen, wireVars
  <2>3. CASE got + n # magic
    <3>1. busy' = {} /\ got' < magic
      BY <1>1, <1>4, <1>5, <2>1, <2>3
    <3>. QED BY <1>1, <1>2, <1>4, <1>5, <2>1, <2>3, <3>1 DEF ParserChosen, wireVars
  <2>. QED BY <2>2, <2>3
<1>14. ReceivingWhole'
  BY <1>2, <1>4, <1>11 DEF ReceivingWhole, wireVars
<1>15. RefsCounted' /\ MessagesWhole'
  BY <1>2, MessagesStay DEF RefsCounted, Pairs, Uses, InBlock, bufVars
<1>. QED BY <1>8, <1>9, <1>12, <1>13, <1>14, <1>15 DEF ReadInv

(* The parser that has seen the magic string is the one of the frame. *)
LEMMA ParserOfFrame ==
    ASSUME Layout, ParserChosen, NEW k \in FrameIds, k = completed + 1, got >= magic
    PROVE  parser = kind[k] /\ busy \ {parser} = {}
<1>1. magic \in Nat
  BY DEF Layout
<1>2. CASE magic = 0
  BY <1>2 DEF ParserChosen, Layout
<1>3. CASE magic # 0
  BY <1>1, <1>3 DEF ParserChosen
<1>. QED BY <1>2, <1>3

(* The step that completes frame k: n bytes bring its end, ps holds its     *)
(* body, and each handle in ps that was not in parts counts for its block.  *)
Completes(k, n, ps) ==
    /\ k = completed + 1 /\ completed < Frames
    /\ pc = "split" /\ got >= magic /\ n <= size
    /\ Position + n = start[k + 1]
    /\ Covers(ps, start[k] + head[k], BodySize(k))
    /\ Complete(k, ps) /\ frame' = k /\ size' = size - n
    /\ UNCHANGED <<wireVars, pc, bufVars, parser, held>>
    /\ refs' \in [Blocks -> Int]
    /\ \A b \in Blocks : refs'[b] = refs[b] + Cardinality(InBlock(ps, b))
                                             - Cardinality(InBlock(parts, b))

(* A message is completed with all the bytes of its frame. *)
LEMMA CompleteKeeps ==
    ASSUME ReadInv, NEW k \in FrameIds, NEW n \in Nat, NEW ps \in Seq(Handles), Completes(k, n, ps)
    PROVE  ReadInv'
<1>. ReadTypeOK /\ Layout /\ Progress /\ ParserChosen /\ MessagesWhole /\ ReceivingWhole /\ RefsCounted
  BY DEF ReadInv
<1>. DEFINE M == [frame |-> k, kind |-> parser, parts |-> ps]
<1>1. /\ received' = received \cup {M}
      /\ completed' = k /\ got' = 0 /\ body' = 0 /\ parts' = <<>> /\ busy' = busy \ {parser}
  BY DEF Completes, Complete, Message
<1>1a. /\ k = completed + 1 /\ completed < Frames /\ pc = "split" /\ got >= magic /\ n <= size
       /\ Position + n = start[k + 1] /\ Covers(ps, start[k] + head[k], BodySize(k))
       /\ frame' = k /\ size' = size - n
       /\ UNCHANGED <<wireVars, pc, bufVars, parser, held>>
       /\ refs' \in [Blocks -> Int]
  BY DEF Completes
<1>2. M \in Messages /\ M.frame = k /\ M.kind = parser /\ M.parts = ps
  BY DEF Messages, ReadTypeOK
<1>. HIDE DEF M
<1>3. parser = kind[k] /\ busy' = {}
  BY <1>1a, <1>1, ParserOfFrame
<1>4. /\ k \in Nat /\ k \in 0 .. Frames /\ Frames \in Nat /\ size \in Nat /\ size' \in Nat
      /\ filled \in Nat /\ origin[block] \in Nat /\ magic \in Nat
  BY <1>1a DEF FrameIds, ReadTypeOK, Layout
<1>5. ReadTypeOK'
  BY <1>1a, <1>1, <1>2, <1>4 DEF ReadTypeOK, bufVars
<1>6. Layout'
  BY <1>1a DEF Layout, wireVars
<1>7. Progress'
  <2>1. Position' = Position + n
    <3>1. size' = size - n /\ origin'[block'] = origin[block] /\ filled' = filled
      BY <1>1a DEF bufVars
    <3>. QED BY <1>4, <3>1 DEF Position
  <2>2. start[k + 1] \in Nat
    BY FrameShape
  <2>3. Position' = (start[completed + 1] + got + body)'
    BY <1>1a, <1>1, <2>1, <2>2 DEF wireVars
  <2>4. (size <= filled /\ filled <= Capacity /\ wire <= start[Frames + 1]
        /\ wire = origin[block] + filled)'
    <3>1. size <= filled /\ filled <= Capacity /\ wire <= start[Frames + 1]
          /\ wire = origin[block] + filled
      BY DEF Progress
    <3>2. size' <= filled
      BY <1>1a, <1>4, <3>1
    <3>. QED BY <1>1a, <3>1, <3>2 DEF wireVars, bufVars
  <2>5. pc' = "split" /\ got' = 0 /\ body' = 0 /\ parts' = <<>> /\ completed' = k
    BY <1>1a, <1>1
  <2>6. completed' < Frames => got' <= head'[completed' + 1] /\ got' # head'[completed' + 1]
    <3>1. ASSUME k < Frames PROVE head[k + 1] \in Nat /\ 0 < head[k + 1]
      <4>1. k + 1 \in FrameIds
        BY <1>4, <3>1 DEF FrameIds
      <4>. QED BY <1>4, <4>1, FrameShape
    <3>. QED BY <1>1a, <1>1, <3>1 DEF wireVars
  <2>7. ~(got' > 0) /\ ~(got' > 0 /\ got' = head'[frame'])
    BY <2>5
  <2>8. pc' # "wait"
    BY <2>5
  <2>. QED BY <2>3, <2>4, <2>5, <2>6, <2>7, <2>8 DEF Progress
<1>8. ParserChosen'
  <2>1. magic = 0 => parser = Binary
    BY DEF ParserChosen
  <2>. QED BY <1>1a, <1>1, <1>3, <1>4, <2>1 DEF ParserChosen, wireVars
<1>9. ReceivingWhole'
  BY <1>1 DEF ReceivingWhole
<1>10. MessagesWhole'
  <2>1. \A m \in received \cup held : m \in Messages /\ m.frame <= completed /\ m.frame \in FrameIds
    BY DEF MessagesWhole, ReadTypeOK, Messages
  <2>2. \A m \in received \cup held : m.frame < k /\ m.frame <= k /\ m.frame # k
    <3>1. completed \in Nat /\ k = completed + 1
      BY <1>1a DEF ReadTypeOK
    <3>2. ASSUME NEW m \in received \cup held PROVE m.frame < k /\ m.frame <= k /\ m.frame # k
      <4>1. m.frame \in Nat /\ m.frame <= completed
        BY <2>1 DEF FrameIds
      <4>. QED BY <3>1, <4>1
    <3>. QED BY <3>2
  <2>3. Intact(M)
    <3>1. /\ start[k + 1] = (start[k] + head[k]) + BodySize(k)
          /\ head[k] \in Nat /\ start[k] \in Nat /\ BodySize(k) \in Nat
      BY FrameShape
    <3>2. /\ Len(ps) = 0 => BodySize(k) = 0
          /\ Len(ps) > 0 => /\ origin[ps[1].block] + ps[1].offset = start[k] + head[k]
                            /\ origin[ps[Len(ps)].block] + ps[Len(ps)].offset + ps[Len(ps)].size = start[k + 1]
          /\ \A i \in 1 .. Len(ps) - 1 :
                origin[ps[i + 1].block] + ps[i + 1].offset = origin[ps[i].block] + ps[i].offset + ps[i].size
      BY <1>1a, <3>1 DEF Covers
    <3>. QED BY <1>2, <3>2, Zenon DEF Intact
  <2>4. \A m \in received \cup held \cup {M} : Intact(m) /\ m.kind = kind[m.frame]
    BY <1>2, <1>3, <2>3 DEF MessagesWhole, MessagesIntact
  <2>5. \A m : Intact(m)' <=> Intact(m)
    BY <1>1a DEF Intact, BodySize, wireVars, bufVars
  <2>6. MessagesIntact'
    BY <1>1a, <1>1, <2>4, <2>5 DEF MessagesIntact, wireVars
  <2>7. (\A m \in received \cup held : m.frame <= completed)'
    BY <1>1a, <1>1, <1>2, <1>4, <2>2
  <2>8. (\A m \in received, h \in held : m.frame # h.frame)'
    BY <1>1a, <1>1, <1>2, <2>2 DEF MessagesWhole
  <2>. QED BY <2>6, <2>7, <2>8 DEF MessagesWhole
<1>11. RefsCounted'
  <2>. SUFFICES ASSUME NEW b \in Blocks
                PROVE  /\ IsFiniteSet(Pairs(held', b)) /\ IsFiniteSet(Pairs(received', b))
                       /\ refs'[b] = Uses(held', b) + Uses(received', b) + Cardinality(InBlock(parts', b))
                                       + (IF pc' # "closed" /\ block' = b THEN 1 ELSE 0)
    BY DEF RefsCounted, Uses, Pairs, InBlock
  <2>1. /\ IsFiniteSet(Pairs(held, b)) /\ IsFiniteSet(Pairs(received, b))
        /\ refs[b] = Uses(held, b) + Uses(received, b) + Cardinality(InBlock(parts, b))
                       + (IF pc # "closed" /\ block = b THEN 1 ELSE 0)
    BY DEF RefsCounted
  <2>2. IsFiniteSet(Pairs({M}, b)) /\ Uses({M}, b) = Cardinality(InBlock(ps, b))
    BY <1>2, UsesOne
  <2>3. Apart(received, {M})
    <3>1. \A m \in received : m.frame <= completed /\ m.frame \in Nat /\ completed \in Nat
      <4>1. received \in SUBSET Messages /\ completed \in 0 .. Frames
        BY DEF ReadTypeOK
      <4>2. \A m \in received : m.frame <= completed
        BY DEF MessagesWhole
      <4>3. \A m \in Messages : m.frame \in Nat
        BY DEF Messages, FrameIds
      <4>4. completed \in Nat
        BY <4>1
      <4>. QED BY <4>1, <4>2, <4>3, <4>4
    <3>. QED BY <1>1a, <1>2, <3>1 DEF Apart
  <2>4. /\ IsFiniteSet(Pairs(received', b)) /\ Uses(received', b) = Uses(received, b) + Uses({M}, b)
        /\ Uses(received, b) \in Nat
    <3>1. /\ IsFiniteSet(Pairs(received \cup {M}, b)) /\ Uses(received, b) \in Nat
          /\ Uses(received \cup {M}, b) = Uses(received, b) + Uses({M}, b)
      <4>1. CountsAdd(received, {M}, b)
        BY <2>1, <2>2, <2>3, UsesUnion
      <4>. QED BY <4>1 DEF CountsAdd
    <3>. QED BY <1>1, <3>1
  <2>5. Uses(held, b) \in Nat
    BY <2>1, UsesPairs, FS_CardinalityType
  <2>6. Cardinality(InBlock(ps, b)) \in Nat /\ Cardinality(InBlock(parts, b)) \in Nat
    BY InBlockFinite DEF ReadTypeOK
  <2>7. Cardinality(InBlock(parts', b)) = 0
    BY <1>1, InBlockEmpty
  <2>8. /\ refs'[b] = refs[b] + Cardinality(InBlock(ps, b)) - Cardinality(InBlock(parts, b))
        /\ held' = held /\ pc' = pc /\ block' = block
    BY DEF Completes, bufVars
  <2>9. PICK x \in Nat : x = (IF pc # "closed" /\ block = b THEN 1 ELSE 0)
    OBVIOUS
  <2>10. refs'[b] = Uses(held, b) + Uses(received', b) + x
    BY <2>1, <2>2, <2>4, <2>5, <2>6, <2>8, <2>9
  <2>11. /\ x = (IF pc' # "closed" /\ block' = b THEN 1 ELSE 0)
         /\ Uses(held', b) = Uses(held, b) /\ Pairs(held', b) = Pairs(held, b)
    BY <2>8, <2>9
  <2>12. Uses(received', b) \in Nat
    BY <2>4, UsesPairs, FS_CardinalityType
  <2>13. refs'[b] = Uses(held', b) + Uses(received', b) + Cardinality(InBlock(parts', b)) + x
    BY <2>5, <2>7, <2>10, <2>11, <2>12
  <2>. QED BY <2>1, <2>4, <2>11, <2>13
<1>. QED BY <1>5, <1>6, <1>7, <1>8, <1>9, <1>10, <1>11 DEF ReadInv

(* No handles hold no bytes. *)
LEMMA CoversNone == \A first : Covers(<<>>, first, 0)
BY DEF Covers

(* ReadHead: the head ends either in a message without a body, which is     *)
(* complete, or where the body begins.                                      *)
LEMMA ReadHeadKeeps ==
    ASSUME ReadInv, ReadHead
    PROVE  ReadInv'
<1>. ReadTypeOK /\ Layout /\ Progress /\ ParserChosen /\ MessagesWhole /\ ReceivingWhole /\ RefsCounted
  BY DEF ReadInv
<1>1. PICK k \in FrameIds : k = completed + 1 /\ FrameHere = k /\ completed < Frames /\ pc = "split"
  BY FrameOfData DEF ReadHead
<1>2. PICK n :
         /\ n = Minimum(size, head[k] - got)
         /\ size' = size - n
         /\ IF got + n = head[k] /\ BodySize(k) = 0
            THEN Complete(k, <<>>)
            ELSE got' = got + n /\ UNCHANGED <<body, parts, busy, received, completed>>
  BY <1>1 DEF ReadHead, Consume
<1>3. /\ size > 0 /\ got >= magic /\ got < head[k] /\ frame' = k
      /\ UNCHANGED <<wireVars, pc, bufVars, refs, parser, held>>
  BY <1>1 DEF ReadHead
<1>4. /\ magic \in Nat /\ head[k] \in Nat /\ start[k] \in Nat /\ BodySize(k) \in Nat
      /\ start[k + 1] = start[k] + head[k] + BodySize(k) /\ start[k + 1] \in Nat
      /\ size \in Nat /\ got \in Nat /\ body \in Nat /\ filled \in Nat /\ origin[block] \in Nat
      /\ k \in Nat /\ k # 0 /\ k \in 0 .. Frames
  <2>1. k \in Nat /\ k # 0 /\ k \in 0 .. Frames
    BY DEF FrameIds
  <2>. QED BY <2>1, FrameShape DEF ReadTypeOK
<1>5. n \in Nat /\ n >= 1 /\ n <= size /\ got + n <= head[k]
  <2>1. size \in Int /\ head[k] - got \in Int
    BY <1>4
  <2>2. n \in {size, head[k] - got} /\ n <= size /\ n <= head[k] - got
    BY <1>2, <2>1, MinimumValue
  <2>. QED BY <1>3, <1>4, <2>2
<1>6. body = 0 /\ parts = <<>>
  <2>1. got > 0 => frame = k
    BY <1>1 DEF Progress
  <2>2. ~(got > 0 /\ got = head[frame])
    BY <1>3, <1>4, <2>1
  <2>. QED BY <2>2 DEF Progress
<1>7. Position = start[k] + got
  BY <1>1, <1>4, <1>6 DEF Progress
<1>8. CASE got + n = head[k] /\ BodySize(k) = 0
  <2>1. Completes(k, n, <<>>)
    <3>1. Position + n = start[k + 1]
      BY <1>4, <1>5, <1>7, <1>8
    <3>2. Covers(<<>>, start[k] + head[k], BodySize(k))
      BY <1>8, CoversNone
    <3>3. Complete(k, <<>>)
      BY <1>2, <1>8
    <3>4. refs' \in [Blocks -> Int] /\ \A b \in Blocks : refs'[b] = refs[b] + 0 - 0
      BY <1>3 DEF ReadTypeOK
    <3>5. \A b \in Blocks : refs'[b] = refs[b] + Cardinality(InBlock(<<>>, b)) - Cardinality(InBlock(parts, b))
      BY <1>6, <3>4, InBlockEmpty
    <3>. QED BY <1>1, <1>2, <1>3, <1>5, <3>1, <3>2, <3>3, <3>4, <3>5 DEF Completes
  <2>2. <<>> \in Seq(Handles)
    OBVIOUS
  <2>. QED BY <1>5, <2>1, <2>2, CompleteKeeps
<1>9. CASE ~(got + n = head[k] /\ BodySize(k) = 0)
  <2>1. got' = got + n /\ UNCHANGED <<body, parts, busy, received, completed>>
    BY <1>2, <1>9
  <2>2. ReadTypeOK'
    <3>1. size' \in Nat /\ got' \in Nat /\ body' \in Nat /\ frame' \in 0 .. Frames
      <4>1. size' = size - n /\ got' = got + n /\ body' = body /\ frame' = k
        BY <1>2, <1>3, <2>1
      <4>. QED BY <1>4, <1>5, <4>1
    <3>. QED BY <1>3, <2>1, <3>1 DEF ReadTypeOK, bufVars
  <2>3. Layout'
    BY <1>3 DEF Layout, wireVars
  <2>4. Progress'
    <3>1. Position' = Position + n
      <4>1. size' = size - n /\ origin'[block'] = origin[block] /\ filled' = filled
        BY <1>2, <1>3 DEF bufVars
      <4>. QED BY <1>4, <1>5, <4>1 DEF Position
    <3>2. Position' = (start[completed + 1] + got + body)'
      <4>1. start'[completed' + 1] = start[k] /\ got' = got + n /\ body' = 0
        BY <1>1, <1>3, <1>6, <2>1 DEF wireVars
      <4>. QED BY <1>4, <1>5, <1>7, <3>1, <4>1
    <3>3. (size <= filled /\ filled <= Capacity /\ wire <= start[Frames + 1]
          /\ wire = origin[block] + filled)'
      <4>1. size <= filled /\ filled <= Capacity /\ wire <= start[Frames + 1]
            /\ wire = origin[block] + filled
        BY DEF Progress
      <4>2. size' = size - n
        BY <1>2
      <4>3. size' <= filled
        BY <1>4, <1>5, <4>1, <4>2
      <4>. QED BY <1>3, <4>1, <4>3 DEF wireVars, bufVars
    <3>4. pc' = "split" /\ body' = 0 /\ parts' = <<>> /\ completed' # Frames
      BY <1>1, <1>3, <1>6, <2>1
    <3>5. frame' = completed' + 1
      BY <1>1, <1>3, <2>1
    <3>6. got' <= head'[completed' + 1]
      BY <1>1, <1>3, <1>5, <2>1 DEF wireVars
    <3>7. got' = head'[completed' + 1] =>
             body' < start'[(completed' + 1) + 1] - start'[completed' + 1] - head'[completed' + 1]
      <4>1. got + n = head[k] => 0 < BodySize(k)
        BY <1>4, <1>9
      <4>2. got + n = head[k] => 0 < start[k + 1] - start[k] - head[k]
        BY <4>1 DEF BodySize
      <4>. QED BY <1>1, <1>3, <2>1, <3>4, <4>2 DEF wireVars
    <3>8. pc' # "wait"
      BY <3>4
    <3>. QED BY <3>2, <3>3, <3>4, <3>5, <3>6, <3>7, <3>8 DEF Progress, BodySize
  <2>5. ParserChosen'
    BY <1>3, <1>4, <1>5, <2>1 DEF ParserChosen, wireVars
  <2>6. ReceivingWhole'
    BY <1>6, <2>1, CoversNone DEF ReceivingWhole, Covers
  <2>7. RefsCounted' /\ MessagesWhole'
    BY <1>3, <2>1, MessagesStay DEF RefsCounted, Pairs, Uses, InBlock, bufVars
  <2>. QED BY <2>2, <2>3, <2>4, <2>5, <2>6, <2>7 DEF ReadInv
<1>. QED BY <1>8, <1>9

(* A handle for the bytes that follow continues the handles before it. *)
LEMMA CoversAppend ==
    ASSUME NEW ps \in Seq(Handles), NEW h \in Handles, origin \in [Blocks -> Nat],
           NEW first \in Nat, NEW length \in Nat, Covers(ps, first, length),
           origin[h.block] + h.offset = first + length
    PROVE  Covers(Append(ps, h), first, length + h.size)
<1>. DEFINE n == Len(ps)
            more == Append(ps, h)
<1>1. /\ more \in Seq(Handles) /\ Len(more) = n + 1 /\ n \in Nat
      /\ \A i \in 1 .. n : more[i] = ps[i]
      /\ more[n + 1] = h
  BY AppendProperties
<1>2. h.size \in Nat /\ h.offset \in Nat /\ h.block \in Blocks /\ origin[h.block] \in Nat
  BY DEF Handles
<1>3. /\ n = 0 => length = 0
      /\ n > 0 => /\ origin[ps[1].block] + ps[1].offset = first
                  /\ origin[ps[n].block] + ps[n].offset + ps[n].size = first + length
      /\ \A i \in 1 .. n - 1 :
            origin[ps[i + 1].block] + ps[i + 1].offset = origin[ps[i].block] + ps[i].offset + ps[i].size
  BY DEF Covers
<1>. HIDE DEF n, more
<1>4. origin[more[1].block] + more[1].offset = first
  <2>1. CASE n = 0
    BY <1>1, <1>2, <1>3, <2>1
  <2>2. CASE n > 0
    BY <1>1, <1>3, <2>2
  <2>. QED BY <1>1, <2>1, <2>2
<1>5. origin[more[n + 1].block] + more[n + 1].offset + more[n + 1].size = first + (length + h.size)
  BY <1>1, <1>2
<1>6. ASSUME NEW i \in 1 .. n
      PROVE  origin[more[i + 1].block] + more[i + 1].offset
                = origin[more[i].block] + more[i].offset + more[i].size
  <2>1. CASE i = n
    BY <1>1, <1>3, <2>1
  <2>2. CASE i # n
    <3>1. i \in 1 .. n - 1 /\ i + 1 \in 1 .. n
      BY <1>1, <2>2
    <3>. QED BY <1>1, <1>3, <3>1
  <2>. QED BY <2>1, <2>2
<1>7. Len(more) # 0 /\ (n + 1) - 1 = n
  BY <1>1
<1>. QED BY <1>1, <1>4, <1>5, <1>6, <1>7 DEF Covers, more

(* ReadBody: the new handle continues those before it and counts once.      *)
LEMMA ReadBodyKeeps ==
    ASSUME ReadInv, ReadBody
    PROVE  ReadInv'
<1>. ReadTypeOK /\ Layout /\ Progress /\ ParserChosen /\ MessagesWhole /\ ReceivingWhole /\ RefsCounted
  BY DEF ReadInv
<1>1. PICK k \in FrameIds : k = completed + 1 /\ completed < Frames /\ pc = "split"
  BY FrameOfData DEF ReadBody
<1>2. k \in Nat /\ k # 0 /\ k \in 0 .. Frames
  BY DEF FrameIds
<1>3. frame = k /\ got = head[k] /\ got > 0
  <2>1. frame \in FrameIds /\ got = head[frame]
    BY DEF ReadBody, ReadTypeOK, FrameIds
  <2>2. head[frame] > 0
    BY <2>1, FrameShape
  <2>3. got > 0 => frame = k
    BY <1>1 DEF Progress
  <2>. QED BY <2>1, <2>2, <2>3
<1>4. /\ magic \in Nat /\ head[k] \in Nat /\ start[k] \in Nat /\ BodySize(k) \in Nat /\ magic < head[k]
      /\ start[k + 1] = start[k] + head[k] + BodySize(k) /\ start[k + 1] \in Nat
      /\ size \in Nat /\ size > 0 /\ got \in Nat /\ body \in Nat /\ filled \in Nat
      /\ origin[block] \in Nat /\ block \in Blocks /\ parts \in Seq(Handles)
  BY FrameShape DEF ReadTypeOK, ReadBody
<1>5. body < BodySize(k) /\ size <= filled
  BY <1>1, <1>3 DEF Progress
<1>. DEFINE h(n) == [block |-> block, offset |-> filled - size, size |-> n]
<1>6. PICK n :
         /\ n = Minimum(size, BodySize(k) - body)
         /\ size' = size - n
         /\ IF body + n = BodySize(k) THEN Complete(k, Append(parts, h(n)))
            ELSE /\ body' = body + n
                 /\ parts' = Append(parts, h(n))
                 /\ UNCHANGED <<got, busy, received, completed>>
  BY <1>3 DEF ReadBody, Consume
<1>7. /\ refs' = [refs EXCEPT ![block] = @ + 1]
      /\ UNCHANGED <<wireVars, pc, bufVars, frame, parser, held>>
  BY DEF ReadBody
<1>8. n \in Nat /\ n >= 1 /\ n <= size /\ body + n <= BodySize(k)
  <2>1. size \in Int /\ BodySize(k) - body \in Int
    BY <1>4
  <2>2. n \in {size, BodySize(k) - body} /\ n <= size /\ n <= BodySize(k) - body
    BY <1>6, <2>1, MinimumValue
  <2>. QED BY <1>4, <1>5, <2>2
<1>9. Position = start[k] + head[k] + body
  BY <1>1, <1>3 DEF Progress
<1>10. PICK handle \in Handles : /\ handle = h(n) /\ handle.block = block /\ handle.size = n
                                 /\ origin[handle.block] + handle.offset = Position
  <2>1. h(n) \in Handles
    BY <1>4, <1>5, <1>8 DEF Handles
  <2>. QED BY <2>1 DEF Position
<1>. HIDE DEF h
<1>11. PICK more \in Seq(Handles) : more = Append(parts, handle)
  BY <1>4, AppendProperties
<1>12. Covers(more, start[k] + head[k], body + n)
  <2>1. Covers(parts, start[k] + head[k], body)
    BY <1>1, <1>3 DEF ReceivingWhole
  <2>2. PICK first \in Nat : first = start[k] + head[k]
    BY <1>4
  <2>3. Covers(Append(parts, handle), first, body + handle.size)
    BY <1>4, <1>9, <1>10, <2>1, <2>2, CoversAppend DEF ReadTypeOK
  <2>. QED BY <1>10, <1>11, <2>2, <2>3
<1>13. refs' \in [Blocks -> Int] /\ \A b \in Blocks : refs'[b] = refs[b] + (IF b = block THEN 1 ELSE 0)
  BY <1>7 DEF ReadTypeOK
<1>14. ASSUME NEW b \in Blocks
       PROVE  /\ Cardinality(InBlock(more, b)) = Cardinality(InBlock(parts, b)) + (IF b = block THEN 1 ELSE 0)
              /\ Cardinality(InBlock(parts, b)) \in Nat /\ refs[b] \in Int
  <2>1. Cardinality(InBlock(Append(parts, handle), b))
           = Cardinality(InBlock(parts, b)) + (IF handle.block = b THEN 1 ELSE 0)
    BY <1>4, InBlockAppend
  <2>2. handle.block = block /\ more = Append(parts, handle)
    BY <1>10, <1>11
  <2>3. Cardinality(InBlock(parts, b)) \in Nat /\ refs[b] \in Int
    BY <1>4, InBlockFinite DEF ReadTypeOK
  <2>. QED BY <2>1, <2>2, <2>3
<1>15. CASE body + n = BodySize(k)
  <2>1. Completes(k, n, more)
    <3>1. Position + n = start[k + 1]
      <4>1. /\ start[k + 1] = start[k] + head[k] + BodySize(k)
            /\ start[k] \in Nat /\ head[k] \in Nat /\ body \in Nat /\ n \in Nat
        BY <1>4, <1>8
      <4>. QED BY <1>9, <1>15, <4>1
    <3>2. Covers(more, start[k] + head[k], BodySize(k))
      BY <1>12, <1>15
    <3>3. Complete(k, more)
      BY <1>6, <1>10, <1>11, <1>15
    <3>4. \A b \in Blocks : refs'[b] = refs[b] + Cardinality(InBlock(more, b)) - Cardinality(InBlock(parts, b))
      BY <1>13, <1>14
    <3>5. frame' = k /\ got >= magic
      BY <1>3, <1>4, <1>7
    <3>. QED BY <1>1, <1>6, <1>7, <1>8, <1>13, <3>1, <3>2, <3>3, <3>4, <3>5 DEF Completes
  <2>. QED BY <1>8, <2>1, CompleteKeeps
<1>16. CASE body + n # BodySize(k)
  <2>1. body' = body + n /\ parts' = more /\ UNCHANGED <<got, busy, received, completed>>
    BY <1>6, <1>10, <1>11, <1>16
  <2>2. size' = size - n /\ body' \in Nat /\ size' \in Nat
    <3>1. size' = size - n
      BY <1>6
    <3>. QED BY <1>4, <1>8, <2>1, <3>1
  <2>3. ReadTypeOK'
    BY <1>7, <1>13, <2>1, <2>2 DEF ReadTypeOK, bufVars
  <2>4. Layout'
    BY <1>7 DEF Layout, wireVars
  <2>5. Progress'
    <3>1. Position' = Position + n
      <4>1. origin'[block'] = origin[block] /\ filled' = filled
        BY <1>7 DEF bufVars
      <4>2. size \in Nat /\ n \in Nat /\ filled \in Nat /\ origin[block] \in Nat
        BY <1>4, <1>8
      <4>. QED BY <2>2, <4>1, <4>2 DEF Position
    <3>2. Position' = (start[completed + 1] + got + body)'
      <4>1. start'[completed' + 1] = start[k] /\ got' = head[k] /\ body' = body + n
        BY <1>1, <1>3, <1>7, <2>1 DEF wireVars
      <4>2. /\ start[k] \in Nat /\ head[k] \in Nat /\ body \in Nat /\ n \in Nat
        BY <1>4, <1>8
      <4>. QED BY <1>9, <3>1, <4>1, <4>2
    <3>3. (size <= filled /\ filled <= Capacity /\ wire <= start[Frames + 1]
          /\ wire = origin[block] + filled)'
      <4>1. size <= filled /\ filled <= Capacity /\ wire <= start[Frames + 1]
            /\ wire = origin[block] + filled
        BY DEF Progress
      <4>2. size' <= filled
        BY <1>4, <1>8, <2>2, <4>1
      <4>. QED BY <1>7, <4>1, <4>2 DEF wireVars, bufVars
    <3>4. pc' = "split" /\ completed' # Frames /\ got' > 0 /\ got' = head'[frame']
      BY <1>1, <1>3, <1>7, <2>1 DEF wireVars
    <3>5. frame' = completed' + 1
      BY <1>1, <1>3, <1>7, <2>1
    <3>6. got' <= head'[completed' + 1]
      BY <1>1, <1>3, <1>4, <1>7, <2>1 DEF wireVars
    <3>7. body' < start'[(completed' + 1) + 1] - start'[completed' + 1] - head'[completed' + 1]
      <4>1. body + n < BodySize(k)
        <5>1. body \in Nat /\ n \in Nat /\ BodySize(k) \in Nat
          BY <1>4, <1>8
        <5>2. body + n <= BodySize(k)
          BY <1>8
        <5>. QED BY <1>16, <5>1, <5>2
      <4>. QED BY <1>1, <1>7, <2>1, <4>1 DEF BodySize, wireVars
    <3>8. pc' # "wait"
      BY <3>4
    <3>. QED BY <3>2, <3>3, <3>4, <3>5, <3>6, <3>7, <3>8 DEF Progress, BodySize
  <2>6. ParserChosen'
    BY <1>7, <2>1 DEF ParserChosen, wireVars
  <2>7. ReceivingWhole'
    BY <1>3, <1>7, <1>12, <2>1 DEF ReceivingWhole, Covers, wireVars, bufVars
  <2>8. MessagesWhole'
    BY <1>7, <2>1, MessagesStay DEF bufVars
  <2>9. RefsCounted'
    <3>. SUFFICES ASSUME NEW b \in Blocks
                  PROVE  /\ IsFiniteSet(Pairs(held', b)) /\ IsFiniteSet(Pairs(received', b))
                         /\ refs'[b] = Uses(held', b) + Uses(received', b) + Cardinality(InBlock(parts', b))
                                         + (IF pc' # "closed" /\ block' = b THEN 1 ELSE 0)
      BY DEF RefsCounted, Uses, Pairs, InBlock
    <3>1. /\ IsFiniteSet(Pairs(held, b)) /\ IsFiniteSet(Pairs(received, b))
          /\ refs[b] = Uses(held, b) + Uses(received, b) + Cardinality(InBlock(parts, b))
                         + (IF pc # "closed" /\ block = b THEN 1 ELSE 0)
      BY DEF RefsCounted
    <3>2. Uses(held, b) \in Nat /\ Uses(received, b) \in Nat
      BY <3>1, UsesPairs, FS_CardinalityType
    <3>3. held' = held /\ received' = received /\ pc' = pc /\ block' = block /\ parts' = more
      BY <1>7, <2>1 DEF bufVars
    <3>4. refs'[b] = Uses(held, b) + Uses(received, b) + Cardinality(InBlock(more, b))
                       + (IF pc # "closed" /\ block = b THEN 1 ELSE 0)
      BY <1>13, <1>14, <3>1, <3>2
    <3>. QED BY <3>1, <3>3, <3>4
  <2>. QED BY <2>3, <2>4, <2>5, <2>6, <2>7, <2>8, <2>9 DEF ReadInv
<1>. QED BY <1>15, <1>16

(* References counted in a block: none of its parts is negative. *)
LEMMA RefsParts ==
    ASSUME ReadTypeOK, RefsCounted, NEW b \in Blocks
    PROVE  /\ Uses(held, b) \in Nat /\ Uses(received, b) \in Nat /\ refs[b] \in Int
           /\ Cardinality(InBlock(parts, b)) \in Nat
           /\ IsFiniteSet(Pairs(held, b)) /\ IsFiniteSet(Pairs(received, b))
           /\ refs[b] = Uses(held, b) + Uses(received, b) + Cardinality(InBlock(parts, b))
                          + (IF pc # "closed" /\ block = b THEN 1 ELSE 0)
<1>1. IsFiniteSet(Pairs(held, b)) /\ IsFiniteSet(Pairs(received, b))
  BY DEF RefsCounted
<1>2. Uses(held, b) \in Nat /\ Uses(received, b) \in Nat
  BY <1>1, UsesPairs, FS_CardinalityType
<1>3. Cardinality(InBlock(parts, b)) \in Nat /\ refs[b] \in Int
  BY InBlockFinite DEF ReadTypeOK
<1>. QED BY <1>1, <1>2, <1>3 DEF RefsCounted

(* A block that nothing counts has no handle. *)
LEMMA NoHandle ==
    ASSUME ReadTypeOK, RefsCounted, NEW b \in Blocks,
           Uses(held, b) = 0, Uses(received, b) = 0, Cardinality(InBlock(parts, b)) = 0
    PROVE  /\ \A m \in received \cup held : \A i \in DOMAIN m.parts : m.parts[i].block # b
           /\ \A i \in DOMAIN parts : parts[i].block # b
<1>1. IsFiniteSet(Pairs(held, b)) /\ IsFiniteSet(Pairs(received, b))
  BY RefsParts
<1>2. ASSUME NEW m \in held, NEW i \in DOMAIN m.parts, m.parts[i].block = b PROVE FALSE
  <2>1. Uses(held, b) >= 1
    BY <1>1, <1>2, UsesSome
  <2>. QED BY <2>1
<1>3. ASSUME NEW m \in received, NEW i \in DOMAIN m.parts, m.parts[i].block = b PROVE FALSE
  <2>1. Uses(received, b) >= 1
    BY <1>1, <1>3, UsesSome
  <2>. QED BY <2>1
<1>4. InBlock(parts, b) = {}
  BY InBlockFinite, FS_EmptySet DEF ReadTypeOK
<1>. QED BY <1>2, <1>3, <1>4 DEF InBlock

(* What the end of a read does to the block: it is not full afterwards, and  *)
(* no block that holds bytes of a message is filled from its start.          *)
LEMMA EndReadBlock ==
    ASSUME ReadInv, EndRead
    PROVE  /\ origin' \in [Blocks -> Nat] /\ refs' \in [Blocks -> Int]
           /\ block' \in Blocks /\ filled' \in Nat /\ filled' < Capacity
           /\ wire = origin'[block'] + filled'
           /\ \A c \in Blocks :
                 refs'[c] = Uses(held, c) + Uses(received, c) + Cardinality(InBlock(parts, c))
                              + (IF block' = c THEN 1 ELSE 0)
           /\ \A m \in received \cup held : \A i \in DOMAIN m.parts :
                 origin'[m.parts[i].block] = origin[m.parts[i].block]
           /\ \A i \in DOMAIN parts : origin'[parts[i].block] = origin[parts[i].block]
<1>. ReadTypeOK /\ Progress /\ RefsCounted
  BY DEF ReadInv
<1>1. /\ pc = "split"
      /\ IF filled = Capacity THEN ResetTranBuf ELSE UNCHANGED <<block, filled, origin, refs>>
  BY DEF EndRead
<1>2. /\ wire = origin[block] + filled /\ filled <= Capacity /\ wire \in Nat /\ filled \in Nat
      /\ block \in Blocks /\ origin \in [Blocks -> Nat] /\ refs \in [Blocks -> Int] /\ Capacity \in Nat
      /\ Capacity > 0
  BY DEF Progress, ReadTypeOK
<1>3. CASE filled # Capacity
  <2>1. UNCHANGED <<block, filled, origin, refs>>
    BY <1>1, <1>3
  <2>2. filled < Capacity
    BY <1>2, <1>3
  <2>3. \A c \in Blocks :
           refs[c] = Uses(held, c) + Uses(received, c) + Cardinality(InBlock(parts, c))
                       + (IF block = c THEN 1 ELSE 0)
    BY <1>1, RefsParts
  <2>. QED BY <1>2, <2>1, <2>2, <2>3
<1>4. CASE filled = Capacity
  <2>. DEFINE rest == [refs EXCEPT ![block] = @ - 1]
  <2>1. PICK b \in Blocks :
           /\ rest[b] = 0
           /\ block' = b
           /\ refs' = [rest EXCEPT ![b] = 1]
           /\ origin' = [origin EXCEPT ![b] = wire]
           /\ filled' = 0
    BY <1>1, <1>4, Zenon DEF ResetTranBuf
  <2>2. /\ rest \in [Blocks -> Int]
        /\ \A c \in Blocks :
              rest[c] = Uses(held, c) + Uses(received, c) + Cardinality(InBlock(parts, c))
    <3>1. rest \in [Blocks -> Int] /\ \A c \in Blocks : rest[c] = refs[c] - (IF block = c THEN 1 ELSE 0)
      BY <1>2
    <3>. HIDE DEF rest
    <3>2. ASSUME NEW c \in Blocks
          PROVE  rest[c] = Uses(held, c) + Uses(received, c) + Cardinality(InBlock(parts, c))
      <4>1. PICK x \in Nat : x = (IF block = c THEN 1 ELSE 0)
        OBVIOUS
      <4>2. rest[c] = refs[c] - x
        BY <3>1, <4>1
      <4>3. refs[c] = Uses(held, c) + Uses(received, c) + Cardinality(InBlock(parts, c)) + x
        BY <1>1, <4>1, RefsParts
      <4>. QED BY <4>2, <4>3, RefsParts
    <3>. QED BY <3>1, <3>2
  <2>. HIDE DEF rest
  <2>3. /\ Uses(held, b) = 0 /\ Uses(received, b) = 0 /\ Cardinality(InBlock(parts, b)) = 0
    <3>1. Uses(held, b) + Uses(received, b) + Cardinality(InBlock(parts, b)) = 0
      BY <2>1, <2>2
    <3>2. /\ Uses(held, b) \in Nat /\ Uses(received, b) \in Nat
          /\ Cardinality(InBlock(parts, b)) \in Nat
      BY RefsParts
    <3>3. \A x, y, z \in Nat : (x + y) + z = 0 => x = 0 /\ y = 0 /\ z = 0
      OBVIOUS
    <3>. QED BY <3>1, <3>2, <3>3
  <2>4. /\ \A m \in received \cup held : \A i \in DOMAIN m.parts : m.parts[i].block # b
        /\ \A i \in DOMAIN parts : parts[i].block # b
    BY <2>3, NoHandle
  <2>5. \A c : c # b => origin'[c] = origin[c]
    BY <2>1, <1>2
  <2>6. ASSUME NEW c \in Blocks
        PROVE  refs'[c] = Uses(held, c) + Uses(received, c) + Cardinality(InBlock(parts, c))
                            + (IF block' = c THEN 1 ELSE 0)
    <3>1. CASE c = b
      BY <2>1, <2>2, <2>3, <3>1
    <3>2. CASE c # b
      <4>1. refs'[c] = rest[c] /\ block' # c
        BY <2>1, <2>2, <3>2
      <4>. QED BY <2>2, <4>1, RefsParts
    <3>. QED BY <3>1, <3>2
  <2>7. origin' \in [Blocks -> Nat] /\ refs' \in [Blocks -> Int] /\ origin'[b] = wire
    BY <1>2, <2>1, <2>2
  <2>. QED BY <1>2, <2>1, <2>4, <2>5, <2>6, <2>7
<1>. QED BY <1>3, <1>4

(* EndRead: the messages change owner with their handles, and bytes in use  *)
(* are where they were.                                                     *)
LEMMA EndReadKeeps ==
    ASSUME ReadInv, EndRead
    PROVE  ReadInv'
<1>. ReadTypeOK /\ Layout /\ Progress /\ ParserChosen /\ MessagesWhole /\ ReceivingWhole /\ RefsCounted
  BY DEF ReadInv
<1>1. /\ pc = "split" /\ size = 0 /\ pc' = "wait" /\ held' = held \cup received /\ received' = {}
      /\ UNCHANGED <<wireVars, wire, size, parseVars, completed>>
  BY DEF EndRead
<1>2. /\ origin' \in [Blocks -> Nat] /\ refs' \in [Blocks -> Int]
      /\ block' \in Blocks /\ filled' \in Nat /\ filled' < Capacity
      /\ wire = origin'[block'] + filled'
      /\ \A m \in received \cup held : \A i \in DOMAIN m.parts :
            origin'[m.parts[i].block] = origin[m.parts[i].block]
      /\ \A i \in DOMAIN parts : origin'[parts[i].block] = origin[parts[i].block]
  BY EndReadBlock
<1>3. ReadTypeOK'
  BY <1>1, <1>2 DEF ReadTypeOK, parseVars
<1>4. Layout' /\ ParserChosen'
  BY <1>1 DEF Layout, ParserChosen, wireVars, parseVars
<1>5. Progress'
  <2>1. Position' = Position
    <3>1. Position = wire
      BY <1>1 DEF Position, Progress, ReadTypeOK
    <3>2. Position' = wire
      BY <1>1, <1>2 DEF Position
    <3>. QED BY <3>1, <3>2
  <2>2. Capacity \in Nat /\ size' <= filled' /\ filled' <= Capacity
    BY <1>1, <1>2
  <2>. QED BY <1>1, <1>2, <2>1, <2>2 DEF Progress, BodySize, wireVars, parseVars
<1>6. ReceivingWhole'
  <2>1. ASSUME got > 0 /\ got = head[frame] PROVE Covers(parts, start[frame] + head[frame], body)'
    <3>1. Covers(parts, start[frame] + head[frame], body)
      BY <1>1, <2>1 DEF ReceivingWhole
    <3>2. Len(parts) \in Nat /\ DOMAIN parts = 1 .. Len(parts)
      BY DEF ReadTypeOK
    <3>3. \A i \in 1 .. Len(parts) : origin'[parts[i].block] = origin[parts[i].block]
      BY <1>2, <3>2
    <3>4. UNCHANGED <<parts, start, head, frame, body>>
      BY <1>1 DEF wireVars, parseVars
    <3>5. \A i \in 1 .. Len(parts) - 1 : i \in 1 .. Len(parts) /\ i + 1 \in 1 .. Len(parts)
      BY <3>2
    <3>6. Len(parts) > 0 => 1 \in 1 .. Len(parts) /\ Len(parts) \in 1 .. Len(parts)
      BY <3>2
    <3>. QED BY <3>1, <3>3, <3>4, <3>5, <3>6 DEF Covers
  <2>. QED BY <1>1, <2>1 DEF ReceivingWhole, wireVars, parseVars
<1>7. MessagesWhole'
  <2>1. ASSUME NEW m \in received \cup held PROVE Intact(m)'
    <3>1. Intact(m)
      BY DEF MessagesWhole, MessagesIntact
    <3>2. Len(m.parts) \in Nat /\ DOMAIN m.parts = 1 .. Len(m.parts)
      BY DEF ReadTypeOK, Messages
    <3>. QED BY <1>1, <1>2, <3>1, <3>2 DEF Intact, BodySize, wireVars
  <2>2. (\A m \in received \cup held : m.frame <= completed)' /\ MessagesIntact'
    BY <1>1, <2>1 DEF MessagesWhole, MessagesIntact, wireVars
  <2>. QED BY <1>1, <2>2 DEF MessagesWhole
<1>8. RefsCounted'
  <2>. SUFFICES ASSUME NEW b \in Blocks
                PROVE  /\ IsFiniteSet(Pairs(held', b)) /\ IsFiniteSet(Pairs(received', b))
                       /\ refs'[b] = Uses(held', b) + Uses(received', b) + Cardinality(InBlock(parts', b))
                                       + (IF pc' # "closed" /\ block' = b THEN 1 ELSE 0)
    BY DEF RefsCounted, Uses, Pairs, InBlock
  <2>1. Apart(held, received)
    BY DEF MessagesWhole, Apart
  <2>2. CountsAdd(held, received, b)
    BY <2>1, RefsParts, UsesUnion
  <2>3. Pairs({}, b) = {} /\ Uses({}, b) = 0 /\ IsFiniteSet(Pairs({}, b))
    <3>1. Pairs({}, b) = {}
      BY DEF Pairs
    <3>. QED BY <3>1, UsesPairs, FS_EmptySet
  <2>4. /\ IsFiniteSet(Pairs(held', b)) /\ IsFiniteSet(Pairs(received', b))
        /\ Uses(held', b) = Uses(held, b) + Uses(received, b) /\ Uses(received', b) = 0
    BY <1>1, <2>2, <2>3 DEF CountsAdd
  <2>5. PICK x \in Nat : x = (IF block' = b THEN 1 ELSE 0)
    OBVIOUS
  <2>6. refs'[b] = Uses(held, b) + Uses(received, b) + Cardinality(InBlock(parts, b)) + x
    BY <2>5, EndReadBlock
  <2>7. parts' = parts /\ x = (IF pc' # "closed" /\ block' = b THEN 1 ELSE 0)
    BY <1>1, <2>5 DEF parseVars
  <2>8. refs'[b] = Uses(held', b) + Uses(received', b) + Cardinality(InBlock(parts', b)) + x
    BY <2>4, <2>6, <2>7, RefsParts
  <2>. QED BY <2>4, <2>7, <2>8
<1>. QED BY <1>3, <1>4, <1>5, <1>6, <1>7, <1>8 DEF ReadInv

(* The message being received is not one of those complete. *)
LEMMA ReceivingApart ==
    ASSUME ReadTypeOK, Layout, Progress, MessagesWhole, NEW b
    PROVE  /\ Apart(received, {Receiving}) /\ Apart(held \cup received, {Receiving})
           /\ IsFiniteSet(Pairs({Receiving}, b))
           /\ Uses({Receiving}, b) = Cardinality(InBlock(parts, b))
<1>1. Receiving.frame = frame /\ Receiving.parts = parts /\ parts \in Seq(Handles)
  BY DEF Receiving, Message, ReadTypeOK
<1>2. \A m \in received \cup held : m.frame <= completed /\ m.frame \in Nat
  BY DEF MessagesWhole, ReadTypeOK, Messages, FrameIds
<1>3. parts # <<>> => frame = completed + 1
  BY DEF Progress
<1>4. completed \in Nat
  BY DEF ReadTypeOK
<1>. HIDE DEF Receiving
<1>5. \A m \in received \cup held : m = Receiving => m.parts = <<>>
  BY <1>1, <1>2, <1>3, <1>4
<1>6. Apart(received, {Receiving}) /\ Apart(held \cup received, {Receiving})
  BY <1>5 DEF Apart
<1>. QED BY <1>1, <1>6, UsesOne

(* Close: the stream gives up its block, and the message being received and *)
(* those not handed on give up theirs.                                      *)
LEMMA CloseKeeps ==
    ASSUME ReadInv, Close
    PROVE  ReadInv'
<1>. ReadTypeOK /\ Layout /\ Progress /\ ParserChosen /\ MessagesWhole /\ ReceivingWhole /\ RefsCounted
  BY DEF ReadInv
<1>1. /\ pc # "closed" /\ size = 0 /\ pc' = "closed" /\ received' = {} /\ parts' = <<>>
      /\ UNCHANGED <<wireVars, bufVars, size, frame, got, body, parser, busy, held, completed>>
  BY DEF Close, Progress
<1>2. /\ refs' \in [Blocks -> Int]
      /\ \A b \in Blocks : refs'[b] = refs[b] - Uses(received \cup {Receiving}, b)
                                              - (IF block = b THEN 1 ELSE 0)
  <2>. DEFINE rest == Dropped(received \cup {Receiving})
  <2>1. /\ rest \in [Blocks -> Int]
        /\ \A b \in Blocks : rest[b] = refs[b] - Uses(received \cup {Receiving}, b)
    <3>1. ASSUME NEW b \in Blocks PROVE refs[b] - Uses(received \cup {Receiving}, b) \in Int
      <4>1. CountsAdd(received, {Receiving}, b)
        BY RefsParts, ReceivingApart, UsesUnion
      <4>2. Uses(received \cup {Receiving}, b) \in Int
        BY <4>1 DEF CountsAdd
      <4>. QED BY <4>2 DEF ReadTypeOK
    <3>. QED BY <3>1 DEF Dropped
  <2>2. refs' = [rest EXCEPT ![block] = @ - 1]
    BY DEF Close
  <2>. HIDE DEF rest
  <2>3. \A b \in Blocks : refs'[b] = rest[b] - (IF block = b THEN 1 ELSE 0)
    BY <2>1, <2>2
  <2>4. refs' \in [Blocks -> Int]
    BY <2>1, <2>2 DEF ReadTypeOK
  <2>. QED BY <2>1, <2>3, <2>4
<1>3. ReadTypeOK'
  BY <1>1, <1>2 DEF ReadTypeOK, bufVars
<1>4. Layout' /\ ParserChosen' /\ ReceivingWhole'
  BY <1>1 DEF Layout, ParserChosen, ReceivingWhole, wireVars
<1>5. Progress'
  BY <1>1 DEF Progress, Position, BodySize, wireVars, bufVars
<1>6. MessagesWhole'
  BY <1>1 DEF MessagesWhole, MessagesIntact, Intact, BodySize, wireVars, bufVars
<1>7. RefsCounted'
  <2>. SUFFICES ASSUME NEW b \in Blocks
                PROVE  /\ IsFiniteSet(Pairs(held', b)) /\ IsFiniteSet(Pairs(received', b))
                       /\ refs'[b] = Uses(held', b) + Uses(received', b) + Cardinality(InBlock(parts', b))
                                       + (IF pc' # "closed" /\ block' = b THEN 1 ELSE 0)
    BY DEF RefsCounted, Uses, Pairs, InBlock
  <2>1. CountsAdd(received, {Receiving}, b)
    BY RefsParts, ReceivingApart, UsesUnion
  <2>2. Uses(received \cup {Receiving}, b) = Uses(received, b) + Cardinality(InBlock(parts, b))
    BY <2>1, ReceivingApart DEF CountsAdd
  <2>3. Pairs({}, b) = {} /\ Uses({}, b) = 0 /\ IsFiniteSet(Pairs({}, b))
    <3>1. Pairs({}, b) = {}
      BY DEF Pairs
    <3>. QED BY <3>1, UsesPairs, FS_EmptySet
  <2>4. PICK x \in Nat : x = (IF block = b THEN 1 ELSE 0)
    OBVIOUS
  <2>5. refs'[b] = refs[b] - Uses(received \cup {Receiving}, b) - x
    BY <1>2, <2>4
  <2>6. refs[b] = Uses(held, b) + Uses(received, b) + Cardinality(InBlock(parts, b)) + x
    BY <1>1, <2>4, RefsParts
  <2>7. refs'[b] = Uses(held, b)
    BY <2>2, <2>5, <2>6, RefsParts
  <2>8. /\ held' = held /\ Uses(received', b) = 0 /\ Cardinality(InBlock(parts', b)) = 0
        /\ IsFiniteSet(Pairs(held, b)) /\ IsFiniteSet(Pairs(received', b)) /\ Uses(held, b) \in Nat
    BY <1>1, <2>3, InBlockEmpty, RefsParts
  <2>. QED BY <1>1, <2>7, <2>8
<1>. QED BY <1>3, <1>4, <1>5, <1>6, <1>7 DEF ReadInv

(* Release: the references of one message are given back. *)
LEMMA ReleaseKeeps ==
    ASSUME ReadInv, NEW m \in held, Release(m)
    PROVE  ReadInv'
<1>. ReadTypeOK /\ Layout /\ Progress /\ ParserChosen /\ MessagesWhole /\ ReceivingWhole /\ RefsCounted
  BY DEF ReadInv
<1>1. /\ held' = held \ {m} /\ refs' = Dropped({m})
      /\ UNCHANGED <<wireVars, pc, bufVars, size, parseVars, received, completed>>
  BY DEF Release
<1>2. ASSUME NEW b \in Blocks
      PROVE  /\ IsFiniteSet(Pairs(held', b)) /\ Uses(held', b) \in Nat /\ Uses({m}, b) \in Nat
             /\ Uses(held, b) = Uses(held', b) + Uses({m}, b)
  <2>1. IsFiniteSet(Pairs(held', b))
    <3>1. \A x : x \in Pairs(held', b) => x \in Pairs(held, b)
      BY <1>1 DEF Pairs
    <3>. QED BY <3>1, RefsParts, FS_Subset
  <2>2. IsFiniteSet(Pairs({m}, b))
    BY UsesOne DEF ReadTypeOK, Messages
  <2>3. Apart(held', {m}) /\ held' \cup {m} = held
    BY <1>1 DEF Apart
  <2>4. CountsAdd(held', {m}, b)
    BY <2>1, <2>2, <2>3, UsesUnion
  <2>. QED BY <2>1, <2>3, <2>4 DEF CountsAdd
<1>3. refs' \in [Blocks -> Int] /\ \A b \in Blocks : refs'[b] = refs[b] - Uses({m}, b)
  <2>1. ASSUME NEW b \in Blocks PROVE refs[b] - Uses({m}, b) \in Int
    <3>1. Uses({m}, b) \in Nat /\ refs[b] \in Int
      BY <1>2, RefsParts
    <3>. QED BY <3>1
  <2>2. refs' = [b \in Blocks |-> refs[b] - Uses({m}, b)]
    BY <1>1 DEF Dropped
  <2>. QED BY <2>1, <2>2
<1>4. ReadTypeOK'
  BY <1>1, <1>3 DEF ReadTypeOK, bufVars, parseVars
<1>5. Layout' /\ ParserChosen' /\ ReceivingWhole'
  BY <1>1 DEF Layout, ParserChosen, ReceivingWhole, Covers, wireVars, bufVars, parseVars
<1>6. Progress'
  BY <1>1 DEF Progress, Position, BodySize, wireVars, bufVars, parseVars
<1>7. MessagesWhole'
  BY <1>1 DEF MessagesWhole, MessagesIntact, Intact, BodySize, wireVars, bufVars
<1>8. RefsCounted'
  <2>. SUFFICES ASSUME NEW b \in Blocks
                PROVE  /\ IsFiniteSet(Pairs(held', b)) /\ IsFiniteSet(Pairs(received', b))
                       /\ refs'[b] = Uses(held', b) + Uses(received', b) + Cardinality(InBlock(parts', b))
                                       + (IF pc' # "closed" /\ block' = b THEN 1 ELSE 0)
    BY DEF RefsCounted, Uses, Pairs, InBlock
  <2>1. PICK x \in Nat : x = (IF pc # "closed" /\ block = b THEN 1 ELSE 0)
    OBVIOUS
  <2>2. refs[b] = Uses(held, b) + Uses(received, b) + Cardinality(InBlock(parts, b)) + x
    BY <2>1, RefsParts
  <2>3. refs'[b] = Uses(held', b) + Uses(received, b) + Cardinality(InBlock(parts, b)) + x
    <3>1. refs'[b] = refs[b] - Uses({m}, b) /\ Uses(held, b) = Uses(held', b) + Uses({m}, b)
      BY <1>2, <1>3
    <3>2. Uses(held', b) \in Nat /\ Uses({m}, b) \in Nat
      BY <1>2
    <3>. QED BY <2>2, <3>1, <3>2, RefsParts
  <2>4. received' = received /\ parts' = parts /\ x = (IF pc' # "closed" /\ block' = b THEN 1 ELSE 0)
    BY <1>1, <2>1 DEF bufVars, parseVars
  <2>. QED BY <1>2, <2>3, <2>4, RefsParts
<1>. QED BY <1>4, <1>5, <1>6, <1>7, <1>8 DEF ReadInv

(* The user's cursor is apart from the stream. *)
LEMMA OthersKeep ==
    ASSUME ReadInv, UNCHANGED others
    PROVE  ReadInv'
<1>. ReadTypeOK /\ Layout /\ Progress /\ ParserChosen /\ MessagesWhole /\ ReceivingWhole /\ RefsCounted
  BY DEF ReadInv
<1>1. UNCHANGED <<wireVars, pc, bufVars, size, refs, parseVars, received, held, completed>>
  BY DEF others
<1>2. ReadTypeOK'
  BY <1>1 DEF ReadTypeOK, bufVars, parseVars
<1>3. Layout' /\ ParserChosen' /\ ReceivingWhole'
  BY <1>1 DEF Layout, ParserChosen, ReceivingWhole, Covers, wireVars, bufVars, parseVars
<1>4. Progress'
  BY <1>1 DEF Progress, Position, BodySize, wireVars, bufVars, parseVars
<1>5. MessagesWhole'
  BY <1>1, MessagesStay DEF bufVars
<1>6. RefsCounted'
  BY <1>1 DEF RefsCounted, Uses, Pairs, InBlock, bufVars, parseVars
<1>. QED BY <1>2, <1>3, <1>4, <1>5, <1>6 DEF ReadInv

(* Every step keeps what is true of the stream and its messages. *)
LEMMA ReadStep == ReadInv /\ [Next]_vars => ReadInv'
<1>. SUFFICES ASSUME ReadInv, [Next]_vars PROVE ReadInv'
  OBVIOUS
<1>1. CASE OnReadSome
  BY <1>1, ReadOnRead
<1>2. CASE ReadMagic
  BY <1>2, ReadMagicKeeps
<1>3. CASE ReadHead
  BY <1>3, ReadHeadKeeps
<1>4. CASE ReadBody
  BY <1>4, ReadBodyKeeps
<1>5. CASE EndRead
  BY <1>5, EndReadKeeps
<1>6. CASE Close
  BY <1>6, CloseKeeps
<1>7. ASSUME NEW m \in held, Release(m) \/ StartReading(m) PROVE ReadInv'
  BY <1>7, ReleaseKeeps, OthersKeep DEF StartReading
<1>8. ASSUME NEW m \in reading, ReadNext(m) \/ BackUp(m) \/ StartSkip(m) \/ SkipStep(m)
      PROVE  ReadInv'
  BY <1>8, OthersKeep DEF ReadNext, BackUp, StartSkip, SkipStep
<1>9. CASE UNCHANGED vars
  BY <1>9, OthersKeep DEF vars, others
<1>. QED BY <1>1, <1>2, <1>3, <1>4, <1>5, <1>6, <1>7, <1>8, <1>9 DEF Next
-----------------------------------------------------------------------------
(* The cursor *)

(* The bytes before each handle: those before the handle before it and that *)
(* handle's own.                                                            *)
LEMMA BeforeValue ==
    ASSUME NEW m \in Messages
    PROVE  /\ Len(m.parts) \in Nat /\ DOMAIN m.parts = 1 .. Len(m.parts)
           /\ \A i \in 1 .. Len(m.parts) : m.parts[i].size \in Nat
           /\ Before(m, 1) = 0
           /\ \A i \in 1 .. Len(m.parts) + 1 : Before(m, i) \in Nat
           /\ \A i \in 1 .. Len(m.parts) : Before(m, i + 1) = Before(m, i) + m.parts[i].size
<1>. DEFINE n == Len(m.parts)
            d == [j \in DOMAIN m.parts |-> m.parts[j].size]
<1>1. m.parts \in Seq(Handles) /\ n \in Nat /\ DOMAIN m.parts = 1 .. n
  BY DEF Messages
<1>2. \A i \in 1 .. n : m.parts[i].size \in Nat
  <2>1. \A i \in 1 .. n : m.parts[i] \in Handles
    BY <1>1
  <2>. QED BY <2>1 DEF Handles
<1>3. d \in Seq(Nat) /\ Len(d) = n /\ \A i \in 1 .. n : d[i] = m.parts[i].size
  BY <1>1, <1>2
<1>4. \A i : Before(m, i) = Sums(d)[i - 1]
  BY DEF Before
<1>. HIDE DEF n, d
<1>5. /\ Sums(d) \in [0 .. n -> Nat] /\ Sums(d)[0] = 0
      /\ \A i \in 1 .. n : Sums(d)[i] = Sums(d)[i - 1] + d[i]
  BY <1>3, SumsValue
<1>6. Before(m, 1) = 0
  BY <1>4, <1>5
<1>7. ASSUME NEW i \in 1 .. n + 1 PROVE Before(m, i) \in Nat
  <2>1. i - 1 \in 0 .. n
    BY <1>1
  <2>. QED BY <1>4, <1>5, <2>1
<1>8. ASSUME NEW i \in 1 .. n PROVE Before(m, i + 1) = Before(m, i) + m.parts[i].size
  <2>1. (i + 1) - 1 = i
    OBVIOUS
  <2>2. Before(m, i + 1) = Sums(d)[i]
    BY <1>4, <2>1
  <2>3. Sums(d)[i] = Sums(d)[i - 1] + d[i]
    BY <1>5
  <2>. QED BY <1>3, <1>4, <2>2, <2>3
<1>. QED BY <1>1, <1>2, <1>6, <1>7, <1>8 DEF n

(* The cursor moves only with Next(), BackUp() and Skip(), and each leaves it *)
(* behind as many bytes as were counted.                                      *)
LEMMA CursorStep == ReadInv /\ CursorInv /\ [Next]_vars => CursorInv'
<1>. SUFFICES ASSUME ReadInv, CursorInv, [Next]_vars PROVE CursorInv'
  OBVIOUS
<1>1. reading \in SUBSET Messages /\ held \in SUBSET Messages
  BY DEF ReadInv, ReadTypeOK, CursorInv
<1>2. CASE UNCHANGED cursorVars
  BY <1>2 DEF CursorInv, cursorVars, Before
<1>3. ASSUME reading' = {} PROVE CursorInv'
  BY <1>3 DEF CursorInv
<1>4. ASSUME NEW m \in held, Release(m) PROVE CursorInv'
  <2>1. reading' = {} \/ UNCHANGED cursorVars
    BY <1>4 DEF Release
  <2>. QED BY <1>2, <1>3, <2>1
<1>5. ASSUME NEW m \in held, StartReading(m) PROVE CursorInv'
  <2>1. /\ reading' = {m} /\ next' = 1 /\ pos' = 0 /\ last' = 0 /\ count' = 0 /\ skip' = 0
        /\ m \in Messages
    BY <1>1, <1>5 DEF StartReading, Rewind
  <2>2. Before(m, 1) = 0 /\ Len(m.parts) \in Nat
    BY <2>1, BeforeValue
  <2>3. 1 \in 1 .. Len(m.parts) + 1 /\ 0 = Before(m, 1) + 0
    BY <2>2
  <2>4. Before(m, next)' = Before(m, next')
    BY DEF Before
  <2>. QED BY <2>1, <2>3, <2>4 DEF CursorInv, Before
<1>6. ASSUME NEW m \in reading,
             reading' = reading,
             next' \in 1 .. Len(m.parts) + 1,
             pos' \in Nat /\ last' \in Nat /\ count' \in Nat /\ skip' \in Nat,
             count' = Before(m, next') + pos',
             pos' > 0 => next' <= Len(m.parts) /\ pos' < m.parts[next'].size,
             last' > 0 => pos' = 0 /\ next' > 1 /\ last' <= m.parts[next' - 1].size
      PROVE  CursorInv'
  <2>1. \A x \in reading' : x = m
    BY <1>6 DEF CursorInv
  <2>. QED BY <1>1, <1>6, <2>1 DEF CursorInv, Before
<1>7. ASSUME NEW m \in reading
      PROVE  /\ m \in Messages
             /\ next \in 1 .. Len(m.parts) + 1
             /\ pos \in Nat /\ last \in Nat /\ count \in Nat /\ skip \in Nat
             /\ count = Before(m, next) + pos
             /\ pos > 0 => next <= Len(m.parts) /\ pos < m.parts[next].size
             /\ last > 0 => pos = 0 /\ next > 1 /\ last <= m.parts[next - 1].size
  BY <1>1 DEF CursorInv
<1>8. ASSUME NEW m \in reading, ReadNext(m) PROVE CursorInv'
  <2>0. reading' = reading /\ skip' = skip /\ skip \in Nat
    BY <1>7, <1>8 DEF ReadNext
  <2>. DEFINE n == Len(m.parts)
  <2>1. n \in Nat /\ next \in Nat /\ next >= 1 /\ next <= n + 1
    BY <1>7, BeforeValue
  <2>2. CASE next <= n
    <3>1. last' = m.parts[next].size - pos /\ next' = next + 1 /\ pos' = 0 /\ count' = count + last'
      BY <1>8, <2>2 DEF ReadNext
    <3>2. /\ m.parts[next].size \in Nat /\ Before(m, next) \in Nat
          /\ Before(m, next + 1) = Before(m, next) + m.parts[next].size
      BY <1>7, <2>1, <2>2, BeforeValue
    <3>3. last' \in Nat /\ last' <= m.parts[next].size
      <4>1. pos \in Nat /\ pos <= m.parts[next].size
        BY <1>7, <3>2
      <4>. QED BY <3>1, <3>2, <4>1
    <3>4. count' = Before(m, next') + pos' /\ count' \in Nat
      <4>1. pos \in Nat /\ count \in Nat /\ count = Before(m, next) + pos
        BY <1>7
      <4>2. Before(m, next') = Before(m, next) + m.parts[next].size
        BY <3>1, <3>2
      <4>. QED BY <3>1, <3>2, <3>3, <4>1, <4>2
    <3>5. next' \in 1 .. n + 1 /\ next' > 1 /\ next' - 1 = next
      BY <2>1, <2>2, <3>1
    <3>. QED BY <1>6, <2>0, <3>1, <3>3, <3>4, <3>5
  <2>3. CASE ~(next <= n)
    <3>1. last' = 0 /\ next' = next /\ pos' = pos /\ count' = count
      BY <1>8, <2>3 DEF ReadNext
    <3>. QED BY <1>6, <1>7, <2>0, <3>1
  <2>. QED BY <2>2, <2>3
<1>9. ASSUME NEW m \in reading, BackUp(m) PROVE CursorInv'
  <2>1. last > 0 /\ last' = 0 /\ reading' = reading /\ skip' = skip /\ skip \in Nat
    BY <1>7, <1>9 DEF BackUp
  <2>2. PICK n \in 0 .. last :
           /\ IF n = 0 THEN UNCHANGED <<next, pos>>
              ELSE next' = next - 1 /\ pos' = m.parts[next'].size - n
           /\ count' = count - n
    BY <1>9 DEF BackUp
  <2>3. CASE n = 0
    <3>1. next' = next /\ pos' = pos /\ count' = count
      BY <1>7, <2>2, <2>3
    <3>. QED BY <1>6, <1>7, <2>1, <3>1
  <2>4. CASE n # 0
    <3>1. next' = next - 1 /\ pos' = m.parts[next - 1].size - n /\ count' = count - n
      BY <2>2, <2>4
    <3>2. /\ Len(m.parts) \in Nat /\ next - 1 \in 1 .. Len(m.parts)
          /\ pos = 0 /\ last <= m.parts[next - 1].size
      BY <1>7, <2>1, BeforeValue
    <3>3. /\ m.parts[next - 1].size \in Nat /\ Before(m, next - 1) \in Nat
          /\ Before(m, (next - 1) + 1) = Before(m, next - 1) + m.parts[next - 1].size
      <4>1. m \in Messages
        BY <1>7
      <4>2. PICK j \in 1 .. Len(m.parts) : j = next - 1
        BY <3>2
      <4>3. j \in 1 .. Len(m.parts) + 1
        BY <3>2
      <4>. QED BY <4>1, <4>2, <4>3, BeforeValue
    <3>4. n \in Nat /\ n > 0 /\ n <= m.parts[next - 1].size
      <4>1. last \in Nat /\ last <= m.parts[next - 1].size /\ m.parts[next - 1].size \in Nat
        BY <1>7, <3>2, <3>3
      <4>. QED BY <2>4, <4>1
    <3>5. (next - 1) + 1 = next
      BY <1>7
    <3>6. pos' \in Nat /\ pos' < m.parts[next'].size
      BY <3>1, <3>3, <3>4
    <3>7. count' = Before(m, next') + pos' /\ count' \in Nat
      <4>1. count = Before(m, next - 1) + m.parts[next - 1].size
        BY <1>7, <3>2, <3>3, <3>5
      <4>. QED BY <3>1, <3>3, <3>4, <4>1
    <3>8. next' \in 1 .. Len(m.parts) + 1 /\ next' <= Len(m.parts)
      BY <3>1, <3>2
    <3>. QED BY <1>6, <2>1, <3>6, <3>7, <3>8
  <2>. QED BY <2>3, <2>4
<1>10. ASSUME NEW m \in reading, StartSkip(m) PROVE CursorInv'
  <2>1. /\ reading' = reading /\ next' = next /\ pos' = pos /\ count' = count
        /\ last' = 0 \/ last' = last
        /\ skip' \in 0 .. (Before(m, Len(m.parts) + 1) - count) + 1
    BY <1>10 DEF StartSkip
  <2>. DEFINE b == Before(m, Len(m.parts) + 1)
  <2>2. b \in Nat /\ count \in Nat
    <3>1. m \in Messages /\ count \in Nat
      BY <1>7
    <3>2. Len(m.parts) \in Nat /\ Len(m.parts) + 1 \in 1 .. Len(m.parts) + 1
      BY <3>1, BeforeValue
    <3>. QED BY <3>1, <3>2, BeforeValue
  <2>. HIDE DEF b
  <2>3. \A k \in 0 .. (b - count) + 1 : k \in Nat
    BY <2>2
  <2>4. skip' \in Nat
    BY <2>1, <2>3 DEF b
  <2>. QED BY <1>6, <1>7, <2>1, <2>4
<1>11. ASSUME NEW m \in reading, SkipStep(m) PROVE CursorInv'
  <2>. DEFINE z == m.parts[next].size
              n == z - pos
  <2>1. /\ m \in Messages /\ Len(m.parts) \in Nat /\ next \in Nat /\ next >= 1
        /\ next <= Len(m.parts) + 1 /\ pos \in Nat /\ count \in Nat /\ skip \in Nat /\ skip > 0
        /\ reading' = reading
    BY <1>7, <1>11, BeforeValue DEF SkipStep
  <2>2. CASE next > Len(m.parts)
    <3>1. skip' = 0 /\ last' = 0 /\ next' = next /\ pos' = pos /\ count' = count
      BY <1>11, <2>2 DEF SkipStep
    <3>. QED BY <1>6, <1>7, <2>1, <3>1
  <2>3. CASE ~(next > Len(m.parts))
    <3>1. /\ next \in 1 .. Len(m.parts) /\ next + 1 \in 1 .. Len(m.parts) + 1
          /\ (next + 1) - 1 = next /\ next + 1 > 1
      BY <2>1, <2>3
    <3>2. /\ z \in Nat /\ Before(m, next) \in Nat /\ Before(m, next + 1) \in Nat
          /\ Before(m, next + 1) = Before(m, next) + z
      BY <1>7, <2>1, <3>1, BeforeValue
    <3>3. n \in Nat /\ n <= z
      <4>1. pos > 0 => pos < z
        BY <1>7
      <4>2. pos \in Nat /\ z \in Nat
        BY <2>1, <3>2
      <4>. HIDE DEF z
      <4>. QED BY <4>1, <4>2
    <3>4. /\ IF n > skip THEN next' = next /\ pos' = z - (n - skip)
             ELSE next' = next + 1 /\ pos' = 0
          /\ last' = IF n < skip THEN n ELSE 0
          /\ skip' = skip - Minimum(n, skip)
          /\ count' = count + Minimum(n, skip)
      BY <1>11, <2>3 DEF SkipStep
    <3>. DEFINE b == Before(m, next)
    <3>5. b \in Nat /\ count = b + pos /\ Before(m, next + 1) = b + z
      BY <1>7, <3>2
    <3>. HIDE DEF z, n, b
    <3>6. pos \in Nat /\ skip \in Nat /\ skip > 0 /\ z \in Nat /\ n \in Nat /\ n = z - pos
      BY <2>1, <3>2, <3>3 DEF n
    <3>7. CASE n > skip
      <4>1. Minimum(n, skip) = skip
        BY <3>6, <3>7 DEF Minimum
      <4>2. /\ next' = next /\ pos' = z - (n - skip) /\ skip' = skip - skip
            /\ count' = count + skip /\ last' = 0
        <5>1. ~(n < skip)
          BY <3>6, <3>7
        <5>. QED BY <3>4, <3>7, <4>1, <5>1
      <4>3. z - (n - skip) = pos + skip /\ pos + skip \in Nat /\ pos + skip < z
        BY <3>6, <3>7
      <4>4. skip - skip = 0 /\ (b + pos) + skip = b + (pos + skip) /\ (b + pos) + skip \in Nat
        BY <3>5, <3>6
      <4>5. pos' \in Nat /\ pos' < m.parts[next'].size /\ skip' \in Nat /\ last' \in Nat
        BY <4>2, <4>3, <4>4 DEF z
      <4>6. count' \in Nat /\ count' = Before(m, next') + pos'
        BY <3>5, <4>2, <4>3, <4>4 DEF b
      <4>7. next' \in 1 .. Len(m.parts) + 1 /\ next' <= Len(m.parts)
        BY <1>7, <2>1, <2>3, <4>2
      <4>. QED BY <1>6, <2>1, <4>2, <4>5, <4>6, <4>7
    <3>8. CASE ~(n > skip)
      <4>1. Minimum(n, skip) = n
        BY <3>6, <3>8 DEF Minimum
      <4>2. /\ next' = next + 1 /\ pos' = 0 /\ skip' = skip - n /\ count' = count + n
            /\ last' = IF n < skip THEN n ELSE 0
        BY <3>4, <3>8, <4>1
      <4>3. skip - n \in Nat /\ n <= z /\ 0 \in Nat /\ 0 <= z
        BY <3>6, <3>8
      <4>4. (b + pos) + n = (b + z) + 0 /\ (b + pos) + n \in Nat
        BY <3>5, <3>6
      <4>5. skip' \in Nat /\ last' \in Nat /\ last' <= z
        BY <3>6, <4>2, <4>3
      <4>6. count' \in Nat /\ count' = Before(m, next') + pos'
        BY <3>5, <4>2, <4>4
      <4>7. next' \in 1 .. Len(m.parts) + 1 /\ next' > 1 /\ next' - 1 = next
        BY <3>1, <4>2
      <4>. QED BY <1>6, <2>1, <4>2, <4>5, <4>6, <4>7 DEF z
    <3>. QED BY <3>7, <3>8
  <2>. QED BY <2>2, <2>3
<1>12. CASE OnReadSome \/ ReadMagic \/ ReadHead \/ ReadBody \/ EndRead \/ Close \/ UNCHANGED vars
  <2>1. UNCHANGED cursorVars
    BY <1>12 DEF OnReadSome, ReadMagic, ReadHead, ReadBody, EndRead, Close, vars
  <2>. QED BY <1>2, <2>1
<1>. QED BY <1>4, <1>5, <1>8, <1>9, <1>10, <1>11, <1>12 DEF Next
-----------------------------------------------------------------------------
(* What follows from the invariant *)

(* The stream has not reached the end of the next frame. *)
LEMMA NextFrameOpen ==
    ASSUME ReadTypeOK, Layout, Progress, pc = "wait", completed < Frames
    PROVE  wire < start[completed + 2]
<1>1. PICK k \in FrameIds : k = completed + 1
  BY DEF ReadTypeOK, FrameIds
<1>2. /\ head[k] \in Nat /\ start[k] \in Nat /\ BodySize(k) \in Nat /\ magic < head[k]
      /\ start[k + 1] = start[k] + head[k] + BodySize(k)
      /\ got \in Nat /\ body \in Nat /\ wire \in Nat
  BY FrameShape DEF ReadTypeOK
<1>3. wire = start[k] + got + body
  BY <1>1 DEF Progress, Position, ReadTypeOK
<1>4. /\ got <= head[k] /\ (got = head[k] => body < BodySize(k))
      /\ got > 0 => frame = k
      /\ ~(got > 0 /\ got = head[frame]) => body = 0
  BY <1>1 DEF Progress
<1>5. got < head[k] => body = 0
  BY <1>2, <1>4
<1>6. wire < start[k + 1]
  BY <1>2, <1>3, <1>4, <1>5
<1>7. completed + 2 = k + 1
  BY <1>1 DEF ReadTypeOK
<1>. QED BY <1>6, <1>7

(* The parser is in step with the wire: a consequence of where it is. *)
LEMMA InvSync == ReadInv => InSync
<1>. SUFFICES ASSUME ReadInv PROVE InSync
  OBVIOUS
<1>. ReadTypeOK /\ Layout /\ Progress /\ ParserChosen
  BY DEF ReadInv
<1>1. pc = "split" /\ size > 0 => FrameHere = completed + 1
  BY FrameOfData
<1>2. ASSUME pc = "wait", NEW k \in FrameIds PROVE start[k + 1] <= wire <=> k <= completed
  <2>1. /\ k \in Nat /\ completed \in Nat /\ k <= Frames /\ completed <= Frames /\ k >= 1
        /\ wire \in Nat /\ got \in Nat /\ body \in Nat /\ Frames \in Nat
    BY DEF FrameIds, ReadTypeOK
  <2>2. \A i, j \in 1 .. Frames + 1 : i < j => start[i] < start[j]
    BY DEF Layout
  <2>3. \A i \in 1 .. Frames + 1 : start[i] \in Nat
    BY DEF Layout
  <2>4. k + 1 \in 1 .. Frames + 1 /\ completed + 1 \in 1 .. Frames + 1
    BY <2>1
  <2>5. CASE k <= completed
    <3>1. wire = start[completed + 1] + got + body
      BY <1>2 DEF Progress, Position, ReadTypeOK
    <3>2. k + 1 = completed + 1 \/ k + 1 < completed + 1
      BY <2>1, <2>5
    <3>3. start[k + 1] <= start[completed + 1]
      BY <2>2, <2>3, <2>4, <3>2
    <3>. QED BY <2>1, <2>3, <2>4, <2>5, <3>1, <3>3
  <2>6. CASE ~(k <= completed)
    <3>1. completed < Frames /\ completed + 2 \in 1 .. Frames + 1
      BY <2>1, <2>6
    <3>2. wire < start[completed + 2]
      BY <1>2, <3>1, NextFrameOpen
    <3>3. completed + 2 = k + 1 \/ completed + 2 < k + 1
      BY <2>1, <2>6
    <3>4. start[completed + 2] <= start[k + 1]
      BY <2>2, <2>3, <2>4, <3>1, <3>3
    <3>. QED BY <2>1, <2>3, <2>4, <2>6, <3>1, <3>2, <3>4
  <2>. QED BY <2>5, <2>6
<1>3. got < magic => busy = {}
  BY DEF ParserChosen
<1>4. pc = "wait" => filled < Capacity
  BY DEF Progress
<1>. QED BY <1>1, <1>2, <1>3, <1>4 DEF InSync

(* Counting the owners together is counting them apart. *)
LEMMA InvRefs == ReadInv => RefsExact
<1>. SUFFICES ASSUME ReadInv, NEW b \in Blocks
              PROVE  refs[b] = Uses(held \cup received \cup {Receiving}, b)
                                 + (IF pc # "closed" /\ block = b THEN 1 ELSE 0)
  BY DEF RefsExact
<1>. ReadTypeOK /\ Layout /\ Progress /\ MessagesWhole /\ RefsCounted
  BY DEF ReadInv
<1>1. Apart(held, received)
  BY DEF MessagesWhole, Apart
<1>2. CountsAdd(held, received, b)
  BY <1>1, RefsParts, UsesUnion
<1>3. IsFiniteSet(Pairs(held \cup received, b))
  BY <1>2 DEF CountsAdd
<1>4. CountsAdd(held \cup received, {Receiving}, b)
  BY <1>3, ReceivingApart, UsesUnion
<1>5. Uses(held \cup received \cup {Receiving}, b)
         = Uses(held, b) + Uses(received, b) + Cardinality(InBlock(parts, b))
  BY <1>2, <1>4, ReceivingApart DEF CountsAdd
<1>6. PICK x \in Nat : x = (IF pc # "closed" /\ block = b THEN 1 ELSE 0)
  OBVIOUS
<1>7. refs[b] = Uses(held, b) + Uses(received, b) + Cardinality(InBlock(parts, b)) + x
  BY <1>6, RefsParts
<1>. QED BY <1>5, <1>6, <1>7

(* The invariant holds in every state. *)
LEMMA ReadAlways == Spec => []ReadInv
BY ReadInit, ReadStep, PTL DEF Spec

(* A message given to the user has exactly the bytes of the body of its      *)
(* frame, and keeps them while it is in use (on_read_some(), the parsers'    *)
(* Parse() and reset_tran_buf()).                                            *)
THEOREM MessagesCorrect == Spec => []MessagesIntact
<1>1. ReadInv => MessagesIntact
  BY DEF ReadInv, MessagesWhole
<1>. QED BY <1>1, ReadAlways, PTL

(* The stream is never out of step with the frames on the wire: each byte is *)
(* processed for its own frame, a frame that has arrived is complete, every  *)
(* chosen parser is fresh and no read meets a full block.                    *)
THEOREM SyncCorrect == Spec => []InSync
BY InvSync, ReadAlways, PTL

(* The reference count of a block is the number of its handles, and one for  *)
(* the stream while it writes there: no block is freed early or leaks.       *)
THEOREM RefsCorrect == Spec => []RefsExact
BY InvRefs, ReadAlways, PTL

(* The cursor of a ReadBuffer counts the bytes it has passed, whatever was   *)
(* read, backed up and skipped, and never stands at the end of a handle.     *)
THEOREM CursorCorrect == Spec => []CursorExact
<1>1. Init => CursorInv
  BY DEF Init, CursorInv
<1>2. CursorInv => CursorExact
  BY DEF CursorInv, CursorExact
<1>. QED BY <1>1, <1>2, CursorStep, ReadAlways, PTL DEF Spec
=============================================================================
