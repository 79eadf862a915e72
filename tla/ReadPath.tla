------------------------------ MODULE ReadPath ------------------------------
(***************************************************************************)
(* How a stream turns the bytes it reads into messages: on_read_some(),    *)
(* split_and_process_message(), the request parsers of the server and the  *)
(* transport blocks that messages share with the stream by reference.      *)
(*                                                                         *)
(* A frame is a head and a body; frame k holds the bytes after start[k] of *)
(* the wire up to start[k + 1].  A block is filled in order, so the byte   *)
(* at its offset o is byte origin + o of the wire.  The client knows one   *)
(* kind of frame with a head of fixed size; the server reads a magic       *)
(* string, which begins the head, to choose one of its parsers.            *)
(***************************************************************************)
EXTENDS Naturals, BufHandles

CONSTANTS
    Frames,         \* frames on the wire (bound)
    MagicSizes,     \* size of the magic string: 4 for a server, 0 for a client
    Kinds, Binary,  \* registered parsers
    HeadSizes,      \* of each parser: sizes of the heads it accepts
    MaxBody,        \* largest body (bound)
    Capacity        \* of a block

ASSUME KindAssumption == Binary \in Kinds
ASSUME SizeAssumption ==
    /\ Frames \in Nat /\ MaxBody \in Nat /\ Capacity \in Nat \ {0}
    /\ MagicSizes \subseteq Nat
    /\ \A k \in Kinds, m \in MagicSizes : \A h \in HeadSizes[k] : h \in Nat /\ m < h

VARIABLES
    magic,      \* size of the magic string
    head, start, kind,  \* of each frame: size of its head, position, parser
    pc,         \* "wait" for data, "split" it, "closed"
    wire,       \* bytes read from the connection
    block,      \* _tran_buf
    filled,     \* bytes in it
    size,       \* bytes of it still to process
    origin, refs,   \* of each block: wire position of its first byte, reference count
    frame,      \* frame being parsed, 0 for bytes that begin no frame
    got,        \* bytes of its head received
    body,       \* bytes of its body received
    parts,      \* its ReadBuffer: handles of block, offset and size
    parser,     \* parser chosen for it
    busy,       \* parsers that were chosen and not reset since
    received,   \* messages completed by this read
    held,       \* messages handed to on_received() and still in use
    reading,    \* the one of them whose bytes are being read, if any
    next, pos, last, count, \* _cur_it, _cur_pos, _last_bytes, _read_bytes
    skip,       \* bytes the loop of Skip() has still to pass, 0 outside of it
    completed   \* messages completed so far (history)

wireVars == <<magic, head, start, kind>>
bufVars == <<wire, block, filled, origin>>
parseVars == <<frame, got, body, parts, parser, busy>>
cursorVars == <<reading, next, pos, last, count, skip>>
vars == <<wireVars, pc, bufVars, size, refs, parseVars, received, held, completed, cursorVars>>

FrameIds == 1 .. Frames
Minimum(a, b) == IF a < b THEN a ELSE b

BodySize(k) == start[k + 1] - start[k] - head[k]

\* Wire position of the next byte to process.
Position == origin[block] + (filled - size)

Init ==
    /\ magic \in MagicSizes
    /\ kind \in [FrameIds -> IF magic = 0 THEN {Binary} ELSE Kinds]
    /\ head \in { h \in [FrameIds -> UNION { HeadSizes[k] : k \in Kinds }] :
                     \A k \in FrameIds : h[k] \in HeadSizes[kind[k]] }
    /\ \E b \in [FrameIds -> 0 .. MaxBody] :
         start = [k \in 1 .. Frames + 1 |-> Sums([f \in FrameIds |-> head[f] + b[f]])[k - 1]]
    /\ pc = "wait"
    /\ wire = 0
    /\ block \in Blocks
    /\ filled = 0
    /\ size = 0
    /\ origin = [b \in Blocks |-> 0]
    /\ refs = [b \in Blocks |-> IF b = block THEN 1 ELSE 0]
    /\ frame = 0 /\ got = 0 /\ body = 0 /\ parts = <<>>
    /\ parser = Binary
    /\ busy = {}
    /\ received = {}
    /\ held = {}
    /\ completed = 0
    /\ reading = {} /\ next = 1 /\ pos = 0 /\ last = 0 /\ count = 0 /\ skip = 0
-----------------------------------------------------------------------------
(* A message, and the one being received.  free() of its ReadBuffer gives   *)
(* back a reference for each of its handles.                                *)
Message(f, ps) == [frame |-> f, kind |-> parser, parts |-> ps]
Receiving == Message(frame, parts)

Uses(ms, b) ==
    Cardinality(UNION { { <<m, i>> : i \in { j \in DOMAIN m.parts : m.parts[j].block = b } }
                        : m \in ms })
Dropped(ms) == [b \in Blocks |-> refs[b] - Uses(ms, b)]

\* async_read_some() fills the block from where the last read ended.
OnReadSome ==
    /\ pc = "wait"
    /\ \E n \in 1 .. Minimum(Capacity - filled, start[Frames + 1] - wire) :
          /\ wire' = wire + n
          /\ filled' = filled + n
          /\ size' = n
    /\ pc' = "split"
    /\ UNCHANGED <<wireVars, block, origin, refs, parseVars, received, held, completed, cursorVars>>

\* The frame whose head begins at the next byte.
FrameHere ==
    IF got > 0 THEN frame
    ELSE IF \E k \in FrameIds : start[k] = Position
         THEN CHOOSE k \in FrameIds : start[k] = Position
         ELSE 0

Consume(n) == size' = size - n

\* choose_rpc_request_parser(): each parser expects to be fresh (SCHECK).
ReadMagic ==
    /\ pc = "split" /\ size > 0
    /\ got < magic
    /\ LET n == Minimum(size, magic - got)
       IN  /\ Consume(n)
           /\ got' = got + n
           /\ frame' = FrameHere
           /\ IF got + n = magic /\ FrameHere # 0
              THEN parser' = kind[FrameHere] /\ busy' = busy \cup {parser'}
              ELSE UNCHANGED <<parser, busy>>
    /\ UNCHANGED <<wireVars, pc, bufVars, refs, body, parts, received, held, completed, cursorVars>>

\* Mutant: the parser is not reset.
Complete_NoReset(f, ps) ==
    /\ received' = received \cup {Message(f, ps)}
    /\ completed' = completed + 1
    /\ got' = 0
    /\ body' = 0
    /\ parts' = <<>>
    /\ UNCHANGED busy

\* A message is complete: it is queued and the parser is reset.
Complete(f, ps) ==
    /\ received' = received \cup {Message(f, ps)}
    /\ completed' = completed + 1
    /\ got' = 0
    /\ body' = 0
    /\ parts' = <<>>
    /\ busy' = busy \ {parser}

\* Mutant: when the head ends the data the parser waits for more, although
\* the frame may have no body.
ReadHead_Wait ==
    /\ pc = "split" /\ size > 0
    /\ got >= magic
    /\ FrameHere # 0 /\ got <= head[FrameHere]
    /\ frame' = FrameHere
    /\ LET n == Minimum(size, head[FrameHere] - got)
       IN  /\ Consume(n)
           /\ IF size > n /\ got + n = head[FrameHere] /\ BodySize(FrameHere) = 0
              THEN Complete(FrameHere, <<>>)
              ELSE /\ got' = got + n
                   /\ UNCHANGED <<body, parts, busy, received, completed>>
    /\ UNCHANGED <<wireVars, pc, bufVars, refs, parser, held, cursorVars>>

\* The rest of the head; a frame without a body is complete at once.
ReadHead ==
    /\ pc = "split" /\ size > 0
    /\ got >= magic
    /\ FrameHere # 0 /\ got < head[FrameHere]
    /\ frame' = FrameHere
    /\ LET n == Minimum(size, head[FrameHere] - got)
       IN  /\ Consume(n)
           /\ IF got + n = head[FrameHere] /\ BodySize(FrameHere) = 0
              THEN Complete(FrameHere, <<>>)
              ELSE /\ got' = got + n
                   /\ UNCHANGED <<body, parts, busy, received, completed>>
    /\ UNCHANGED <<wireVars, pc, bufVars, refs, parser, held, cursorVars>>

\* Mutant: Append() takes no reference.
ReadBody_NoRef ==
    /\ pc = "split" /\ size > 0
    /\ frame # 0 /\ got = head[frame]
    /\ LET n == Minimum(size, BodySize(frame) - body)
           more == Append(parts, [block |-> block, offset |-> filled - size, size |-> n])
       IN  /\ Consume(n)
           /\ IF body + n = BodySize(frame) THEN Complete(frame, more)
              ELSE /\ body' = body + n
                   /\ parts' = more
                   /\ UNCHANGED <<got, busy, received, completed>>
    /\ UNCHANGED <<wireVars, pc, bufVars, refs, frame, parser, held, cursorVars>>

\* Bytes of the body stay in the block, which is referred to once more.
ReadBody ==
    /\ pc = "split" /\ size > 0
    /\ frame # 0 /\ got = head[frame]
    /\ LET n == Minimum(size, BodySize(frame) - body)
           more == Append(parts, [block |-> block, offset |-> filled - size, size |-> n])
       IN  /\ Consume(n)
           /\ refs' = [refs EXCEPT ![block] = @ + 1]
           /\ IF body + n = BodySize(frame) THEN Complete(frame, more)
              ELSE /\ body' = body + n
                   /\ parts' = more
                   /\ UNCHANGED <<got, busy, received, completed>>
    /\ UNCHANGED <<wireVars, pc, bufVars, frame, parser, held, cursorVars>>

\* reset_tran_buf(): the stream gives up its reference to the old block.
ResetTranBuf ==
    LET left == [refs EXCEPT ![block] = @ - 1]
    IN  \E b \in Blocks :
          /\ left[b] = 0
          /\ block' = b
          /\ refs' = [left EXCEPT ![b] = 1]
          /\ origin' = [origin EXCEPT ![b] = wire]
          /\ filled' = 0

\* Mutant: a block that is just full is kept.
EndRead_KeepBlock ==
    /\ pc = "split" /\ size = 0
    /\ pc' = "wait"
    /\ held' = held \cup received
    /\ received' = {}
    /\ UNCHANGED <<wireVars, bufVars, size, refs, parseVars, completed, cursorVars>>

\* The data is used up: a full block is replaced, the messages are handed on.
EndRead ==
    /\ pc = "split" /\ size = 0
    /\ IF filled = Capacity THEN ResetTranBuf ELSE UNCHANGED <<block, filled, origin, refs>>
    /\ pc' = "wait"
    /\ held' = held \cup received
    /\ received' = {}
    /\ UNCHANGED <<wireVars, wire, size, parseVars, completed, cursorVars>>

\* Mutant: the block of the stream is not freed.
Close_KeepBlock ==
    /\ pc = "wait"
    /\ pc' = "closed"
    /\ refs' = Dropped(received \cup {Receiving})
    /\ received' = {}
    /\ parts' = <<>>
    /\ UNCHANGED <<wireVars, bufVars, size, frame, got, body, parser, busy, held, completed, cursorVars>>

\* The stream is closed and destroyed, with its buffers, between two reads
\* or because there is no memory for a block.
Close ==
    /\ \/ pc = "wait"
       \/ pc = "split" /\ size = 0 /\ filled = Capacity
    /\ pc' = "closed"
    /\ refs' = [Dropped(received \cup {Receiving}) EXCEPT ![block] = @ - 1]
    /\ received' = {}
    /\ parts' = <<>>
    /\ UNCHANGED <<wireVars, bufVars, size, frame, got, body, parser, busy, held, completed, cursorVars>>

Rewind == next' = 1 /\ pos' = 0 /\ last' = 0 /\ count' = 0 /\ skip' = 0

\* The user is done with a message, on any thread, but not inside Skip().
Release(m) ==
    /\ m \in held
    /\ m \in reading => skip = 0
    /\ held' = held \ {m}
    /\ refs' = Dropped({m})
    /\ IF m \in reading THEN reading' = {} /\ Rewind ELSE UNCHANGED cursorVars
    /\ UNCHANGED <<wireVars, pc, bufVars, size, parseVars, received, completed>>
-----------------------------------------------------------------------------
(* The user reads the bytes of a message: the cursor of its ReadBuffer.      *)
(* Buffers have no cursor in common, nor does a cursor depend on the stream, *)
(* so one message is read, when all have been received (bound).              *)
others == <<wireVars, pc, bufVars, size, refs, parseVars, received, held, completed>>

StartReading(m) ==
    /\ reading = {} /\ completed = Frames
    /\ m \in held
    /\ reading' = {m}
    /\ Rewind
    /\ UNCHANGED others

\* Bytes of the handles before handle i.
Before(m, i) == Sums([j \in DOMAIN m.parts |-> m.parts[j].size])[i - 1]

\* ReadBuffer::Next(): the rest of the current handle.
ReadNext(m) ==
    /\ skip = 0
    /\ IF next <= Len(m.parts)
       THEN /\ last' = m.parts[next].size - pos
            /\ next' = next + 1
            /\ pos' = 0
            /\ count' = count + last'
       ELSE last' = 0 /\ UNCHANGED <<next, pos, count>>
    /\ UNCHANGED <<others, reading, skip>>

\* Mutant: the bytes of the handle read before are forgotten.
BackUp_FromStart(m) ==
    /\ skip = 0 /\ last > 0
    /\ \E n \in 0 .. last :
          /\ IF n = 0 THEN UNCHANGED <<next, pos>>
             ELSE /\ next' = next - 1
                  /\ pos' = last - n
          /\ count' = count - n
    /\ last' = 0
    /\ UNCHANGED <<others, reading, skip>>

\* BackUp() of the last n bytes read, only after a Next() that read some.
BackUp(m) ==
    /\ skip = 0 /\ last > 0
    /\ \E n \in 0 .. last :
          /\ IF n = 0 THEN UNCHANGED <<next, pos>>
             ELSE /\ next' = next - 1
                  /\ pos' = m.parts[next'].size - n
          /\ count' = count - n
    /\ last' = 0
    /\ UNCHANGED <<others, reading, skip>>

\* A call of Skip(), with more than is left as well.
StartSkip(m) ==
    /\ skip = 0
    /\ skip' \in 0 .. (Before(m, Len(m.parts) + 1) - count) + 1
    /\ last' = IF skip' = 0 THEN 0 ELSE last
    /\ UNCHANGED <<others, reading, next, pos, count>>

\* Mutant: what Next() gave beyond the bytes to skip is not backed up.
SkipStep_NoBackUp(m) ==
    LET n == m.parts[next].size - pos
    IN  /\ skip > 0
        /\ IF next > Len(m.parts) THEN skip' = 0 /\ last' = 0 /\ UNCHANGED <<next, pos, count>>
           ELSE /\ next' = next + 1 /\ pos' = 0
                /\ last' = IF n < skip THEN n ELSE 0
                /\ skip' = skip - Minimum(n, skip)
                /\ count' = count + Minimum(n, skip)
    /\ UNCHANGED <<others, reading>>

\* A round of its loop: Next() gives n bytes, those too many are backed up.
\* Without bytes left the loop ends, and Skip() returns false.
SkipStep(m) ==
    LET n == m.parts[next].size - pos
    IN  /\ skip > 0
        /\ IF next > Len(m.parts) THEN skip' = 0 /\ last' = 0 /\ UNCHANGED <<next, pos, count>>
           ELSE /\ IF n > skip THEN next' = next /\ pos' = m.parts[next].size - (n - skip)
                   ELSE next' = next + 1 /\ pos' = 0
                /\ last' = IF n < skip THEN n ELSE 0
                /\ skip' = skip - Minimum(n, skip)
                /\ count' = count + Minimum(n, skip)
    /\ UNCHANGED <<others, reading>>

Next ==
    \/ OnReadSome \/ ReadMagic \/ ReadHead \/ ReadBody \/ EndRead \/ Close
    \/ \E m \in held : Release(m) \/ StartReading(m)
    \/ \E m \in reading : ReadNext(m) \/ BackUp(m) \/ StartSkip(m) \/ SkipStep(m)

Spec == Init /\ [][Next]_vars
-----------------------------------------------------------------------------
(* A message has exactly the bytes of the body of its frame, whatever the    *)
(* reads were that brought them, and they stay in their blocks as long as it *)
(* is in use: each handle continues where the one before ends.               *)
Intact(m) ==
    LET At(i) == origin[m.parts[i].block] + m.parts[i].offset
        n == Len(m.parts)
        first == start[m.frame] + head[m.frame]
    IN  /\ n = 0 => BodySize(m.frame) = 0
        /\ n > 0 => /\ At(1) = first
                    /\ At(n) + m.parts[n].size = start[m.frame + 1]
        /\ \A i \in 1 .. n - 1 : At(i + 1) = At(i) + m.parts[i].size
MessagesIntact ==
    \A m \in received \cup held : Intact(m) /\ m.kind = kind[m.frame]

(* Every byte is processed as part of its own frame, and no message waits    *)
(* for bytes that do not belong to it: when all the data is processed every  *)
(* frame that has arrived was completed, also one without a body whose head  *)
(* ends the data.  Every parser is fresh when one is chosen (SCHECK of       *)
(* CheckMagicString()), and no read is started for a block that is full.     *)
InSync ==
    /\ pc = "split" /\ size > 0 => FrameHere = completed + 1
    /\ pc = "wait" => \A k \in FrameIds : start[k + 1] <= wire <=> k <= completed
    /\ pc = "split" /\ size > 0 /\ got < magic => busy = {}
    /\ pc = "wait" => filled < Capacity

(* A block is counted once for the stream and once for each handle, so it is *)
(* freed with its last message and no earlier, also after the stream closed. *)
RefsExact ==
    \A b \in Blocks :
        refs[b] = Uses(held \cup received \cup {Receiving}, b)
                    + (IF pc # "closed" /\ block = b THEN 1 ELSE 0)

(* The reader of a message is given its bytes in order, each once but for    *)
(* those it backs up: the cursor stands behind as many bytes as it counted,  *)
(* and never at the end of a handle (SCHECK of Next()).                      *)
CursorExact ==
    \A m \in reading :
        /\ count = Before(m, next) + pos
        /\ pos > 0 => pos < m.parts[next].size
=============================================================================
