----------------------------- MODULE LossyQueue -----------------------------
(***************************************************************************)
(* What the receive buffer of a serial device promises its reader: a queue *)
(* of at most Size bytes that always accepts a byte and that, when it is   *)
(* full, forgets the oldest one it holds.                                  *)
(***************************************************************************)
EXTENDS Naturals, Sequences

CONSTANTS Bytes, Size

VARIABLES queue,   \* the bytes inside, oldest first
          got      \* the byte the last read returned

Init == queue = <<>> /\ got \in Bytes

Put(b) == /\ queue' = Append(IF Len(queue) = Size THEN Tail(queue) ELSE queue, b)
          /\ got' = got

Get == /\ queue # <<>>
       /\ queue' = Tail(queue)
       /\ got' = Head(queue)

Next == (\E b \in Bytes : Put(b)) \/ Get

Spec == Init /\ [][Next]_<<queue, got>>
=============================================================================
