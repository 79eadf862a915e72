------------------------------ MODULE BufHandles ------------------------------
(***************************************************************************)
(* The memory that ReadBuffer and WriteBuffer share: a buffer is a list of *)
(* handles, each of which names a block and how many of its bytes belong   *)
(* to the buffer.                                                          *)
(***************************************************************************)
EXTENDS Naturals, Sequences, FiniteSets

CONSTANT Blocks     \* memory for transport blocks (bound)

\* The sums of the first 0, 1, 2 ... elements of a sequence of sizes.
Sums(sizes) ==
    LET sum[i \in 0 .. Len(sizes)] == IF i = 0 THEN 0 ELSE sum[i - 1] + sizes[i]
    IN  sum

Sizes(handles) == [i \in DOMAIN handles |-> handles[i].size]
Total(handles) == Sums(Sizes(handles))[Len(handles)]

\* How many bytes of the buffer come before handle i.
Offset(handles, i) == Sums(Sizes(handles))[i - 1]

\* The handles of a list that lie in a block.
InBlock(handles, b) == { i \in DOMAIN handles : handles[i].block = b }
=============================================================================
