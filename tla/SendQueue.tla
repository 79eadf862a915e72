----------------------------- MODULE SendQueue -----------------------------
(***************************************************************************)
(* What async_send_message promises its callers while the stream lives: a  *)
(* message is refused at once or queued; queued messages are dealt with in *)
(* the order they were queued, each reported as sent or as failed at most  *)
(* once.  A message may stay in the queue for ever (the stream closed).    *)
(***************************************************************************)
EXTENDS Naturals, Sequences

CONSTANT Messages

VARIABLES queue, outcome

Init == queue = <<>> /\ outcome = [m \in Messages |-> "new"]

\* The stream is closed: on_send_failed at once.
Refuse(m) ==
    /\ outcome[m] = "new"
    /\ outcome' = [outcome EXCEPT ![m] = "failed"]
    /\ UNCHANGED queue

\* The stream is not closed; the message is about to be queued.
Accept(m) ==
    /\ outcome[m] = "new"
    /\ outcome' = [outcome EXCEPT ![m] = "accepted"]
    /\ UNCHANGED queue

Put(m) ==
    /\ outcome[m] = "accepted"
    /\ \A i \in 1 .. Len(queue) : queue[i] # m
    /\ queue' = Append(queue, m)
    /\ UNCHANGED outcome

\* The callback of the message at the head, on_sent or on_send_failed.
Report(result) ==
    /\ queue # <<>>
    /\ outcome[Head(queue)] = "accepted"
    /\ outcome' = [outcome EXCEPT ![Head(queue)] = result]
    /\ queue' = Tail(queue)

Next ==
    \/ \E m \in Messages : Refuse(m) \/ Accept(m) \/ Put(m)
    \/ \E result \in {"sent", "failed"} : Report(result)

Spec == Init /\ [][Next]_<<queue, outcome>>
=============================================================================
