----------------------------- MODULE WritePath -----------------------------
(***************************************************************************)
(* How a message becomes bytes on the wire.  It is assembled in a          *)
(* WriteBuffer, a list of blocks that grow, by streams that take all that  *)
(* is left of a block (Next) and give back what they do not use (BackUp);  *)
(* the header, reserved first, is filled in last (SetData).  The blocks    *)
(* pass to a ReadBuffer (SwapOut), which the message stream sends one      *)
(* block after the other, in writes that may be partial.                   *)
(*                                                                         *)
(* A message is plain, or compressed in chunks, or an HTTP page, whose     *)
(* content is appended to a buffer of its own before the head is printed.  *)
(* A byte is <<message, part, index, what it says>>.                       *)
(***************************************************************************)
EXTENDS Integers, BufHandles

CONSTANTS
    MaxMessages,    \* messages assembled (bound)
    MessageKinds,   \* of messages: "plain", "compressed", "page"
    OutOfMemory,    \* kinds for which malloc() may fail while one is assembled
    HeaderSize,     \* of RpcMessageHeader
    MetaSizes, BodySizes,
    ChunkSize,      \* BLOCKSIZE, of the input buffer of a compressing stream
    BaseSize, HiddenSize, MaxFactor,    \* of a block of factor 0, of its own header
    BaseFactors     \* values of _base_block_factor

ASSUME WriteSizeAssumption ==
    /\ MaxMessages \in Nat /\ HeaderSize \in Nat \ {0} /\ ChunkSize \in Nat \ {0}
    /\ MetaSizes \subseteq Nat \ {0} /\ BodySizes \subseteq Nat
    /\ BaseSize \in Nat /\ HiddenSize \in Nat /\ BaseSize > HiddenSize
    /\ MaxFactor \in Nat /\ BaseFactors \subseteq Nat
ASSUME MemoryAssumption == OutOfMemory \subseteq MessageKinds

VARIABLES
    step,       \* what is being done for the message: a step, or "aborted"
    begun, msg, \* messages begun, the current one: kind, size of meta and body
    mem, refCount,      \* contents and reference counts of the blocks
    factor, buf, writeBytes, lastBytes, \* the WriteBuffer: _base_block_factor,
                                        \* handles, _write_bytes, _last_bytes
    content,    \* handles of the WriteBuffer with the content of a page
    from, left, \* Reserve(): position it returns, bytes still to reserve
    out,        \* bytes a coded stream or printer has yet to write
    room,       \* bytes it has from Next() and not used
    eager,      \* it was just made and calls Next() whatever it has to write
    raw, chunk, \* bytes of the body to compress, in the input buffer
    metaSize,   \* header.meta_size
    encoded,    \* the body as it has to appear on the wire (history)
    queue, sending, \* ReadBuffers waiting and being sent
    cur, sendingData, sendingSize, sentSize,    \* _cur_it, _sending_data,
                                                \* _sending_size, _sent_size
    closed,
    promised, onWire    \* the frames of all messages queued (history), the bytes written

writeBufVars == <<factor, buf, writeBytes, lastBytes, content>>
streamVars == <<out, room, eager>>
chunkVars == <<raw, chunk>>
sendVars == <<sending, cur, sendingData, sendingSize, sentSize>>
netVars == <<queue, sendVars, closed, promised, onWire>>
writeVars == <<step, begun, msg, mem, refCount, writeBufVars, from, left, streamVars, chunkVars,
               metaSize, encoded, netVars>>

Least(a, b) == IF a < b THEN a ELSE b
Junk == <<>>
Bytes(part, n, says) == [i \in 1 .. n |-> <<begun, part, i, says>>]

\* Size of a block: it doubles with each step of the factor.
BlockSize[f \in 0 .. MaxFactor] == IF f = 0 THEN BaseSize ELSE 2 * BlockSize[f - 1]

WriteInit ==
    /\ step = "idle" /\ begun = 0 /\ msg = [kind |-> "plain", meta |-> 0, body |-> 0]
    /\ mem = [b \in Blocks |-> <<>>] /\ refCount = [b \in Blocks |-> 0]
    /\ factor = 0 /\ buf = <<>> /\ writeBytes = 0 /\ lastBytes = 0 /\ content = <<>>
    /\ from = 0 /\ left = 0 /\ out = <<>> /\ room = 0 /\ eager = FALSE
    /\ raw = 0 /\ chunk = 0 /\ metaSize = 0 /\ encoded = <<>>
    /\ queue = <<>> /\ sending = <<>> /\ cur = 0
    /\ sendingData = <<>> /\ sendingSize = 0 /\ sentSize = 0
    /\ closed = FALSE /\ promised = <<>> /\ onWire = <<>>
-----------------------------------------------------------------------------
(* The buffer.  References to each block are held for each handle of a     *)
(* list; TranBufPool::free() takes some back, and a block whose count       *)
(* reaches 0 is gone.                                                       *)
RefsOf(handles) == [b \in Blocks |-> Cardinality(InBlock(handles, b))]

Free(freed, contents) ==
    /\ refCount' = [b \in Blocks |-> refCount[b] - freed[b]]
    /\ mem' = [b \in Blocks |-> IF refCount'[b] = 0 THEN <<>> ELSE contents[b]]

LastHandle == buf[Len(buf)]
Unused == IF buf = <<>> THEN 0 ELSE Len(mem[LastHandle.block]) - LastHandle.size
Full == Unused = 0
Fresh == CHOOSE b \in Blocks : refCount[b] = 0
FreshSize == BlockSize[Least(MaxFactor, Len(buf) + factor)] - HiddenSize

\* The bytes Next() hands out: what is left of the last block, or a new one.
Room == IF Full THEN FreshSize ELSE Unused

\* Next(), and at once BackUp() of all but the first n bytes.  There is
\* memory, as long as the bound on blocks allows it.
Take(n) ==
    /\ writeBytes' = writeBytes + n
    /\ IF Full
       THEN /\ { b \in Blocks : refCount[b] = 0 } # {}
            /\ buf' = Append(buf, [block |-> Fresh, size |-> n])
            /\ refCount' = [refCount EXCEPT ![Fresh] = 1]
            /\ mem' = [mem EXCEPT ![Fresh] = [i \in 1 .. FreshSize |-> Junk]]
       ELSE /\ buf' = [buf EXCEPT ![Len(buf)].size = @ + n]
            /\ UNCHANGED <<mem, refCount>>

\* BackUp() by a stream that is destroyed, of what it has not used.
GiveBack ==
    IF room = 0 THEN UNCHANGED <<buf, writeBytes, lastBytes>>
    ELSE /\ buf' = [buf EXCEPT ![Len(buf)].size = @ - room]
         /\ writeBytes' = writeBytes - room
         /\ lastBytes' = 0

\* Contents of the blocks after SetData(): byte pos + i of the buffer is bs[i].
SetData(pos, bs) ==
    [b \in Blocks |-> [o \in DOMAIN mem[b] |->
        LET set == { i \in DOMAIN buf : /\ buf[i].block = b /\ o <= buf[i].size
                                        /\ Offset(buf, i) + o - pos \in DOMAIN bs }
        IN  IF set = {} THEN mem[b][o]
            ELSE bs[Offset(buf, CHOOSE i \in set : TRUE) + o - pos]]]
-----------------------------------------------------------------------------
(* Assembling a message: CallMethod() of the client, Assemble*Response() and *)
(* RenderResponse() of the requests.                                         *)
Begin ==
    /\ step = "idle" /\ begun < MaxMessages
    /\ begun' = begun + 1
    /\ msg' \in [kind : MessageKinds, meta : MetaSizes, body : BodySizes]
    /\ factor' \in BaseFactors
    /\ buf' = <<>> /\ writeBytes' = 0 /\ lastBytes' = 0 /\ content' = <<>>
    /\ from' = 0
    /\ room' = 0
    /\ encoded' = <<>>
    /\ out' = <<>>
    /\ IF msg'.kind = "page" THEN step' = "append" /\ left' = 0
       ELSE step' = "reserve" /\ left' = HeaderSize
    /\ UNCHANGED <<mem, refCount, eager, chunkVars, metaSize, netVars>>

\* A servlet appends a piece of the content of a page.
AppendPiece ==
    /\ step = "append" /\ out = <<>> /\ writeBytes < msg.body
    /\ left' \in 1 .. msg.body - writeBytes
    /\ from' = writeBytes
    /\ out' = SubSeq(Bytes("body", msg.body, <<>>), writeBytes + 1, writeBytes + left')
    /\ UNCHANGED <<step, begun, msg, mem, refCount, writeBufVars, room, eager, chunkVars, metaSize,
                   encoded, netVars>>

\* No message is sent; the buffers are destroyed.
Fail ==
    /\ Free(RefsOf(buf \o content), mem)
    /\ step' = "idle"
    /\ buf' = <<>> /\ content' = <<>> /\ writeBytes' = 0 /\ lastBytes' = 0
    /\ left' = 0 /\ out' = <<>> /\ room' = 0 /\ raw' = 0
    /\ UNCHANGED <<begun, msg, factor, from, eager, chunk, metaSize, encoded, netVars>>

NoMemory == Full /\ msg.kind \in OutOfMemory

\* A round of the loop in Reserve().
Reserve ==
    /\ step \in {"reserve", "append"} /\ left > 0
    /\ \/ /\ Take(Least(Room, left))
          /\ lastBytes' = IF Room > left THEN 0 ELSE Room
          /\ left' = left - Least(Room, left)
          /\ UNCHANGED <<step, begun, msg, factor, content, from, streamVars, chunkVars, metaSize,
                         encoded, netVars>>
       \/ NoMemory /\ Fail

\* The header is reserved: a coded stream for the meta is made.
HeaderReserved ==
    /\ step = "reserve" /\ left = 0
    /\ step' = "meta"
    /\ out' = Bytes("meta", msg.meta, <<>>)
    /\ eager' = TRUE
    /\ UNCHANGED <<begun, msg, mem, refCount, writeBufVars, from, left, room, chunkVars, metaSize,
                   encoded, netVars>>

\* The space for a piece is reserved.
PieceReserved ==
    /\ step = "append" /\ left = 0 /\ out # <<>>
    /\ mem' = SetData(from, out)
    /\ encoded' = encoded \o out
    /\ out' = <<>>
    /\ UNCHANGED <<step, begun, msg, refCount, writeBufVars, from, left, room, eager, chunkVars,
                   metaSize, netVars>>

\* The content is complete: its size is part of the head, which a printer
\* writes to another buffer.
ContentDone ==
    /\ step = "append" /\ out = <<>> /\ writeBytes = msg.body
    /\ step' = "head"
    /\ out' = Bytes("head", msg.meta, writeBytes)
    /\ content' = buf
    /\ buf' = <<>> /\ writeBytes' = 0 /\ lastBytes' = 0
    /\ UNCHANGED <<begun, msg, mem, refCount, factor, from, left, room, eager, chunkVars, metaSize,
                   encoded, netVars>>

\* A coded stream or a printer asks for space.  The failure of the call a
\* coded stream begins with is forgotten, a later one makes SerializeTo..()
\* return false; but the stream under a compressing one is never asked.
NeverAsked == msg.kind = "compressed" /\ step # "meta"

Refill ==
    /\ step \in {"meta", "head", "body", "compress"}
    /\ room = 0 /\ (eager \/ out # <<>>)
    /\ \/ /\ Take(Room)
          /\ room' = Room /\ lastBytes' = Room
          /\ eager' = FALSE
          /\ UNCHANGED <<step, begun, msg, factor, content, from, left, out, chunkVars, metaSize,
                         encoded, netVars>>
       \/ /\ NoMemory /\ (eager \/ NeverAsked)
          /\ lastBytes' = 0
          /\ out' = IF eager THEN out ELSE <<>>
          /\ eager' = FALSE
          /\ UNCHANGED <<step, begun, msg, mem, refCount, factor, buf, writeBytes, content, from,
                         left, room, chunkVars, metaSize, encoded, netVars>>
       \/ NoMemory /\ ~eager /\ ~NeverAsked /\ Fail

\* It writes into the space it has.
Put ==
    /\ room > 0 /\ out # <<>>
    /\ LET n == Least(room, Len(out))
           h == LastHandle
       IN  /\ mem' = [mem EXCEPT ![h.block] = [o \in DOMAIN @ |->
                         IF o - (h.size - room) \in 1 .. n THEN out[o - (h.size - room)] ELSE @[o]]]
           /\ out' = SubSeq(out, n + 1, Len(out))
           /\ room' = room - n
    /\ UNCHANGED <<step, begun, msg, refCount, writeBufVars, from, left, eager, chunkVars,
                   metaSize, encoded, netVars>>

Written == ~eager /\ out = <<>>

\* Mutant: ByteCount() is taken before the stream has backed up.
MetaDone_Early ==
    /\ step = "meta" /\ Written
    /\ GiveBack
    /\ room' = 0
    /\ metaSize' = writeBytes - HeaderSize
    /\ eager' = TRUE
    /\ IF msg.kind = "compressed"
       THEN /\ step' = "compress"
            /\ raw' = msg.body
            /\ UNCHANGED <<out, encoded>>
       ELSE /\ step' = "body"
            /\ out' = Bytes("body", msg.body, <<>>)
            /\ encoded' = out'
            /\ UNCHANGED raw
    /\ UNCHANGED <<begun, msg, mem, refCount, factor, content, from, left, chunk, netVars>>

\* The stream for the meta is destroyed, and one for the body is made: on
\* the buffer, or inside the compressing stream.
MetaDone ==
    /\ step = "meta" /\ Written
    /\ GiveBack
    /\ room' = 0
    /\ metaSize' = writeBytes' - HeaderSize
    /\ eager' = TRUE
    /\ IF msg.kind = "compressed"
       THEN /\ step' = "compress"
            /\ raw' = msg.body
            /\ UNCHANGED <<out, encoded>>
       ELSE /\ step' = "body"
            /\ out' = Bytes("body", msg.body, <<>>)
            /\ encoded' = out'
            /\ UNCHANGED raw
    /\ UNCHANGED <<begun, msg, mem, refCount, factor, content, from, left, chunk, netVars>>

\* BlockCompressionOutputStream::Next(): an input buffer is filled.  The
\* coded stream of the message begins with this call, too.
FillChunk ==
    /\ step = "compress" /\ Written
    /\ chunk' = Least(ChunkSize, raw)
    /\ raw' = raw - chunk'
    /\ step' = "flush"
    /\ UNCHANGED <<begun, msg, mem, refCount, writeBufVars, from, left, streamVars, metaSize,
                   encoded, netVars>>

\* Flush(), by the next call of Next() or at the end: a varint and the
\* compressed bytes.  Without bytes it leaves the input buffer in place,
\* and the destructor finds it (SCHECK).
Flush ==
    /\ step = "flush"
    /\ IF chunk = 0 THEN step' = "aborted" /\ UNCHANGED <<out, encoded>>
       ELSE \E n \in 1 .. chunk :
              /\ out' = Bytes("chunk", 1 + n, <<msg.body - raw - chunk, chunk>>)
              /\ encoded' = encoded \o out'
              /\ step' = IF raw > 0 THEN "compress" ELSE "body"
    /\ UNCHANGED <<begun, msg, mem, refCount, writeBufVars, from, left, room, eager, chunkVars,
                   metaSize, netVars>>

\* The last stream on the buffer is destroyed.
BodyDone ==
    /\ step \in {"body", "head"} /\ Written
    /\ GiveBack
    /\ room' = 0
    /\ step' = "seal"
    /\ UNCHANGED <<begun, msg, mem, refCount, factor, content, from, left, out, eager, chunkVars,
                   metaSize, encoded, netVars>>

\* Mutant: a block without bytes is kept.
SwapOut_Empty(handles) == handles

\* SwapOut() of the buffers, in order: handles without bytes are dropped.
SwapOut(handles) ==
    LET kept[n \in 0 .. Len(handles)] ==
          IF n = 0 THEN <<>>
          ELSE IF handles[n].size > 0 THEN Append(kept[n - 1], handles[n])
          ELSE kept[n - 1]
    IN  kept[Len(handles)]

\* Mutant: Append() takes no reference for the ReadBuffer.
SwapRefs_Lost(handles) == RefsOf(handles)

\* Append() to the ReadBuffer takes a reference, and each handle of the
\* WriteBuffer gives one back.
SwapRefs(handles) ==
    [b \in Blocks |-> RefsOf(handles)[b] - RefsOf(SwapOut(handles))[b]]

Header(m, d) == Bytes("header", HeaderSize, <<m, d>>)
Frame ==
    (IF msg.kind = "page" THEN Bytes("head", msg.meta, Len(encoded))
     ELSE Header(msg.meta, Len(encoded)) \o Bytes("meta", msg.meta, <<>>)) \o encoded

\* The header is set, the buffer swapped out, and the message queued unless
\* the stream is closed.
Seal ==
    /\ step = "seal"
    /\ LET all == buf \o content
           filled == IF msg.kind = "page" THEN mem
                     ELSE SetData(from, Header(metaSize, writeBytes - HeaderSize - metaSize))
       IN  IF closed THEN Free(RefsOf(all), filled) /\ UNCHANGED <<queue, promised>>
           ELSE /\ Free(SwapRefs(all), filled)
                /\ queue' = Append(queue, SwapOut(all))
                /\ promised' = promised \o Frame
    /\ step' = "idle"
    /\ buf' = <<>> /\ content' = <<>> /\ writeBytes' = 0 /\ lastBytes' = 0
    /\ UNCHANGED <<begun, msg, factor, from, left, streamVars, chunkVars, metaSize, encoded,
                   sendVars, closed, onWire>>
-----------------------------------------------------------------------------
(* Sending, by the owner of the send token and the io threads.  Next() of    *)
(* the ReadBuffer moves to the next handle.                                  *)
asmVars == <<begun, msg, writeBufVars, from, left, streamVars, chunkVars, metaSize, encoded>>

StartSend ==
    /\ ~closed /\ sending = <<>> /\ queue # <<>>
    /\ sending' = Head(queue)
    /\ queue' = Tail(queue)
    /\ cur' = 1
    /\ sendingData' = <<sending'[1].block, 0>>
    /\ sendingSize' = sending'[1].size
    /\ sentSize' = 0
    /\ UNCHANGED <<step, asmVars, mem, refCount, closed, promised, onWire>>

\* async_write_some() and its handler.
OnWriteSome ==
    /\ sending # <<>> /\ ~closed
    /\ \E n \in 1 .. sendingSize :
          /\ onWire' = onWire \o SubSeq(mem[sendingData[1]], sendingData[2] + 1, sendingData[2] + n)
          /\ sentSize' = sentSize + n
          /\ IF n < sendingSize
             THEN /\ sendingData' = <<sendingData[1], sendingData[2] + n>>
                  /\ sendingSize' = sendingSize - n
                  /\ UNCHANGED <<mem, refCount, sending, cur>>
             ELSE IF cur < Len(sending)
             THEN /\ cur' = cur + 1
                  /\ sendingData' = <<sending[cur'].block, 0>>
                  /\ sendingSize' = sending[cur'].size
                  /\ UNCHANGED <<mem, refCount, sending>>
             ELSE /\ Free(RefsOf(sending), mem)
                  /\ sending' = <<>>
                  /\ UNCHANGED <<cur, sendingData, sendingSize>>
    /\ UNCHANGED <<step, asmVars, queue, closed, promised>>

\* References to each block that a list of messages holds.
QueueRefs(lists) ==
    [b \in Blocks |-> Sums([k \in DOMAIN lists |-> RefsOf(lists[k])[b]])[Len(lists)]]

\* A write fails or the stream is closed: it is destroyed with what it holds.
CloseWriter ==
    /\ ~closed
    /\ closed' = TRUE
    /\ Free([b \in Blocks |-> QueueRefs(queue)[b] + RefsOf(sending)[b]], mem)
    /\ queue' = <<>>
    /\ sending' = <<>>
    /\ UNCHANGED <<step, asmVars, cur, sendingData, sendingSize, sentSize, promised, onWire>>

WriteNext ==
    /\ step # "aborted"
    /\ \/ Begin \/ AppendPiece \/ Reserve \/ HeaderReserved \/ PieceReserved \/ ContentDone
       \/ Refill \/ Put \/ MetaDone \/ FillChunk \/ Flush \/ BodyDone \/ Seal
       \/ StartSend \/ OnWriteSome \/ CloseWriter

WriteSpec == WriteInit /\ [][WriteNext]_writeVars
-----------------------------------------------------------------------------
(* The bytes on the wire are the frames of the messages, whole and in order, *)
(* with the sizes of their parts in the header, whatever the blocks and the  *)
(* partial writes are; a message that could not be assembled leaves none.    *)
WireExact ==
    /\ onWire = SubSeq(promised, 1, Len(onWire))
    /\ ~closed /\ queue = <<>> /\ sending = <<>> => onWire = promised

(* Every block is counted once, for the one buffer that has it, so it goes *)
(* away with that buffer and not before its bytes are written.              *)
OneOwner == \A b \in Blocks :
    /\ refCount[b] = RefsOf(buf)[b] + RefsOf(content)[b] + QueueRefs(queue)[b]
                       + RefsOf(sending)[b]
    /\ refCount[b] <= 1

(* What the code counts is what there is: the references to the blocks, the *)
(* ByteCount() of the buffer, the bytes a stream may back up (SCHECK of     *)
(* BackUp()) and the bytes sent (SCHECK of on_write_some()); and no write   *)
(* is empty (SCHECK of Append()).                                           *)
CountsExact ==
    /\ OneOwner
    /\ writeBytes = Total(buf)
    /\ room > 0 => room <= lastBytes /\ room <= LastHandle.size
    /\ sending # <<>> => sendingSize > 0 /\ sentSize + sendingSize = Offset(sending, cur + 1)

(* The SCHECK of ~BlockCompressionOutputStream() (block_wrappers.cc:101):    *)
(* once Flush() was called there is no input buffer left.                    *)
FlushEmpties == step # "aborted"
=============================================================================
