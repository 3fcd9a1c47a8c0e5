---------------------------- MODULE BoundedQueue ----------------------------
(***************************************************************************)
(* What a mailbox or a message queue promises its callers: a bounded queue *)
(* whose operations are atomic.  Blocking, waking, timeouts and storage    *)
(* are the business of the implementations.                                *)
(***************************************************************************)
EXTENDS Naturals, Sequences

CONSTANTS Msgs, Size

VARIABLES queue,   \* the messages inside, first out first
          got      \* the message the last receive returned

Init == queue = <<>> /\ got \in Msgs

Put(v) == /\ Len(queue) < Size
          /\ queue' = Append(queue, v)
          /\ got' = got

\* An urgent message overtakes the others.
PutFirst(v) == /\ Len(queue) < Size
               /\ queue' = <<v>> \o queue
               /\ got' = got

Get == /\ queue # <<>>
       /\ queue' = Tail(queue)
       /\ got' = Head(queue)

Clear == queue' = <<>> /\ got' = got

Next == (\E v \in Msgs : Put(v) \/ PutFirst(v)) \/ Get \/ Clear

Spec == Init /\ [][Next]_<<queue, got>>
=============================================================================
