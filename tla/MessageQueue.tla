---------------------------- MODULE MessageQueue ----------------------------
(***************************************************************************)
(* The message queue of ipc.c: rt_mq_send_wait, rt_mq_urgent, rt_mq_recv,  *)
(* rt_mq_control(RESET) and rt_mq_delete/rt_mq_detach.  The pool is a set  *)
(* of slots chained by their next fields into a free list and a queue with *)
(* head and tail.  A message is copied into or out of its slot with         *)
(* interrupts enabled, while the slot is in neither list.                  *)
(***************************************************************************)
EXTENDS IpcThread, FiniteSets

CONSTANTS Prio,       \* thread->current_priority
          Msgs,       \* contents of a message
          Max,        \* mq->max_msgs
          Deletable,  \* whether some thread deletes the queue
          None        \* RT_NULL

ASSUME QueueAssumption ==
    /\ IsFiniteSet(Threads) /\ Prio \in [Threads -> Nat] /\ Deletable \in BOOLEAN
    /\ Max \in Nat \ {0}
    /\ None \notin Msgs /\ None \notin 1..Max

VARIABLES next, data,        \* of each slot: msg->next, the bytes behind it
          head, tail, free,  \* mq->msg_queue_head, _tail, _free
          entry,             \* mq->entry
          receivers,         \* mq->parent.suspend_thread
          senders,           \* mq->suspend_sender_thread
          call,              \* the call the thread is in: where (at), the timeout
                             \* left, the message, the slot it has unlinked
          got,               \* the message the last receive took out
          del                \* where rt_mq_delete is

links == <<next, head, tail, free, entry>>
vars == <<stat, error, timer, next, data, head, tail, free, entry, receivers, senders,
          call, got, del>>

Waits == {"no", "timed", "forever"}
Slots == 1..Max   \* the struct rt_mq_message of msg_pool

Idle == [op |-> "idle", at |-> "-", left |-> "no", msg |-> None, slot |-> None]

TypeOK ==
    /\ ThreadTypeOK
    /\ next \in [Slots -> Slots \cup {None}] /\ data \in [Slots -> Msgs]
    /\ {head, tail, free} \subseteq Slots \cup {None}
    /\ entry \in 0..Max
    /\ receivers \in Seq(Threads) /\ senders \in Seq(Threads)
    /\ call \in [Threads -> [op : {"idle", "send", "urgent", "recv"},
                             at : {"-", "wait", "copy", "link"}, left : Waits,
                             msg : Msgs \cup {None}, slot : Slots \cup {None}]]
    /\ got \in Msgs
    /\ del \in {"none", "recvCheck", "recvResume", "sendCheck", "sendResume",
                "free", "gone", "fault", "stale"}

\* rt_mq_init, rt_mq_create: the free list runs from the last slot to the first.
Init ==
    /\ ThreadInit
    /\ next = [s \in Slots |-> IF s = 1 THEN None ELSE s - 1]
    /\ \E v \in Msgs : data = [s \in Slots |-> v] /\ got = v
    /\ head = None /\ tail = None /\ free = Max /\ entry = 0
    /\ receivers = <<>> /\ senders = <<>>
    /\ call = [t \in Threads |-> Idle]
    /\ del = "none"

\* After a fault the kernel has stopped.
Running == del \notin {"fault", "stale"}
Live == Running /\ del # "gone"

\* The first thread of a list, if there is one, is resumed.
ResumeFirst(list) == IF list = <<>> THEN UNCHANGED threadVars ELSE Resume(Head(list))
Rest(list) == IF list = <<>> THEN list ELSE Tail(list)

\* Mutant: only the message that ends emptiness wakes a receiver.
WakeReceiver_WasEmpty ==
    IF entry = 0 THEN ResumeFirst(receivers) /\ receivers' = Rest(receivers)
    ELSE UNCHANGED <<threadVars, receivers>>

WakeReceiver == ResumeFirst(receivers) /\ receivers' = Rest(receivers)

WakeSender == ResumeFirst(senders) /\ senders' = Rest(senders)

At(t, op, at, left, msg, slot) ==
    call' = [call EXCEPT ![t] = [op |-> op, at |-> at, left |-> left, msg |-> msg, slot |-> slot]]

(***************************************************************************)
(* rt_mq_send_wait and rt_mq_urgent.                                       *)
(***************************************************************************)

\* Mutant: the claimed slot stays in the free list.
Claim_NotUnlinked(t, op, v) ==
    /\ free # None
    /\ At(t, op, "copy", "no", v, free)
    /\ UNCHANGED <<threadVars, next, free, data, head, tail, entry, receivers, senders, got>>

\* The free list has a slot: it is unlinked, for the caller alone.
Claim(t, op, v) ==
    /\ free # None
    /\ free' = next[free]
    /\ At(t, op, "copy", "no", v, free)
    /\ UNCHANGED <<threadVars, next, data, head, tail, entry, receivers, senders, got>>

\* The first section of rt_mq_send_wait, with time left w.
SendSection(t, v, w) ==
    \/ Claim(t, "send", v)
    \/ /\ free = None /\ w = "no"
       /\ call' = [call EXCEPT ![t] = Idle]
       /\ UNCHANGED <<threadVars, links, data, receivers, senders, got>>
    \/ /\ free = None /\ w # "no"
       /\ senders' = ListSuspend(senders, t, Prio)
       /\ Suspend(t, w = "timed")
       /\ At(t, "send", "wait", w, v, None)
       /\ UNCHANGED <<links, data, receivers, got>>

\* Mutant: the slot keeps the next field it had in the free list.
CopyIn_KeepsNext(t) ==
    LET c == call[t] IN
    /\ c.op \in {"send", "urgent"} /\ c.at = "copy"
    /\ data' = [data EXCEPT ![c.slot] = c.msg]
    /\ At(t, c.op, "link", "no", c.msg, c.slot)
    /\ UNCHANGED <<threadVars, next, head, tail, free, entry, receivers, senders, got>>

\* msg->next = RT_NULL for a message at the tail, and the copy, unprotected.
CopyIn(t) ==
    LET c == call[t] IN
    /\ c.op \in {"send", "urgent"} /\ c.at = "copy"
    /\ next' = IF c.op = "send" THEN [next EXCEPT ![c.slot] = None] ELSE next
    /\ data' = [data EXCEPT ![c.slot] = c.msg]
    /\ At(t, c.op, "link", "no", c.msg, c.slot)
    /\ UNCHANGED <<threadVars, head, tail, free, entry, receivers, senders, got>>

\* The slot becomes the last message of the queue ...
AppendTail(s) ==
    /\ next' = IF tail # None THEN [next EXCEPT ![tail] = s] ELSE next
    /\ tail' = s
    /\ head' = IF head = None THEN s ELSE head

\* ... or, urgent, its first.
InsertHead(s) ==
    /\ next' = [next EXCEPT ![s] = head]
    /\ head' = s
    /\ tail' = IF tail = None THEN s ELSE tail

\* The message is linked and a receiver woken.
Link(t) ==
    LET c == call[t] IN
    /\ c.at = "link"
    /\ \/ c.op = "send" /\ AppendTail(c.slot)
       \/ c.op = "urgent" /\ InsertHead(c.slot)
    /\ entry' = entry + 1
    /\ WakeReceiver
    /\ call' = [call EXCEPT ![t] = Idle]
    /\ UNCHANGED <<data, free, senders, got>>

(***************************************************************************)
(* rt_mq_recv.                                                             *)
(***************************************************************************)

\* msg_queue_head is unlinked.
Unlink(s) ==
    /\ head' = next[s]
    /\ tail' = IF tail = s THEN None ELSE tail

\* The first section of rt_mq_recv, with time left w.
RecvSection(t, w) ==
    \/ /\ entry = 0 /\ w = "no"
       /\ call' = [call EXCEPT ![t] = Idle]
       /\ UNCHANGED <<threadVars, links, data, receivers, senders, got>>
    \/ /\ entry = 0 /\ w # "no"
       /\ receivers' = ListSuspend(receivers, t, Prio)
       /\ Suspend(t, w = "timed")
       /\ At(t, "recv", "wait", w, None, None)
       /\ UNCHANGED <<links, data, senders, got>>
    \/ /\ entry # 0
       /\ Unlink(head)
       /\ entry' = entry - 1
       /\ got' = data[head]
       /\ At(t, "recv", "copy", "no", data[head], head)
       /\ UNCHANGED <<threadVars, next, data, free, receivers, senders>>

\* The copy out of the slot, unprotected; then the slot goes to the free list and
\* a sender is woken.
CopyOut(t) ==
    LET c == call[t] IN
    /\ c.op = "recv" /\ c.at = "copy"
    /\ At(t, "recv", "link", "no", c.msg, c.slot)
    /\ UNCHANGED <<threadVars, links, data, receivers, senders, got>>

\* Mutant: the slot is pushed without the rest of the free list behind it.
PutBack_Drops(s) == /\ next' = [next EXCEPT ![s] = None]
                    /\ free' = s

PutBack(s) == /\ next' = [next EXCEPT ![s] = free]
              /\ free' = s

GiveBack(t) ==
    LET c == call[t] IN
    /\ c.op = "recv" /\ c.at = "link"
    /\ PutBack(c.slot)
    /\ WakeSender
    /\ call' = [call EXCEPT ![t] = Idle]
    /\ UNCHANGED <<data, head, tail, entry, receivers, got>>

(***************************************************************************)
(* The actions.                                                            *)
(***************************************************************************)

Send(t, v, w) == Live /\ call[t] = Idle /\ SendSection(t, v, w) /\ UNCHANGED del

Urgent(t, v) ==
    /\ Live /\ call[t] = Idle
    /\ \/ Claim(t, "urgent", v) /\ UNCHANGED del
       \/ free = None /\ UNCHANGED vars

Recv(t, w) == Live /\ call[t] = Idle /\ RecvSection(t, w) /\ UNCHANGED del

\* A woken call returns the error it was woken with.
Fail(t) ==
    /\ Running /\ call[t].at = "wait" /\ error[t] # "EOK" /\ Leave(t)
    /\ call' = [call EXCEPT ![t] = Idle]
    /\ UNCHANGED <<links, data, receivers, senders, got, del>>

\* timeout -= elapsed ticks, not below 0; waiting for ever stays so.
Remaining(w) == IF w = "timed" THEN {"timed", "no"} ELSE {w}

\* A woken call tests the queue again.
Retry(t) ==
    /\ call[t].at = "wait" /\ stat[t] = "ready" /\ error[t] = "EOK"
    /\ \E w \in Remaining(call[t].left) :
          \/ call[t].op = "send" /\ SendSection(t, call[t].msg, w)
          \/ call[t].op = "recv" /\ RecvSection(t, w)

\* A call that is past its first section goes on, unless the queue and its pool
\* were freed meanwhile.
Continue(t) ==
    \/ Live /\ (Retry(t) \/ CopyIn(t) \/ Link(t) \/ CopyOut(t) \/ GiveBack(t)) /\ UNCHANGED del
    \/ /\ del = "gone" /\ call[t] # Idle /\ stat[t] = "ready" /\ error[t] = "EOK"
       /\ del' = "stale"
       /\ UNCHANGED <<threadVars, links, data, receivers, senders, call, got>>

\* The tick interrupt finds the timer of a waiting thread due.
Timeout(t) ==
    /\ Running
    /\ ThreadTimeout(t)
    /\ IF call[t].op = "recv"
       THEN receivers' = ListRemove(receivers, t) /\ UNCHANGED senders
       ELSE senders' = ListRemove(senders, t) /\ UNCHANGED receivers
    /\ UNCHANGED <<links, data, call, got, del>>

\* q is the list at p: the field nx of a slot names the one behind it, RT_NULL ends it.
IsChain(nx, q, p) ==
    /\ p = IF q = <<>> THEN None ELSE q[1]
    /\ \A i \in DOMAIN q : nx[q[i]] = IF i = Len(q) THEN None ELSE q[i + 1]

\* The slots from p on, following next.
Chain(p) == CHOOSE q \in UNION {[1..n -> Slots] : n \in 0..Max} : IsChain(next, q, p)

\* rt_mq_control(RT_IPC_CMD_RESET): the queue is moved to the free list, slot by
\* slot from its head.
Reset ==
    LET q == Chain(head) IN
    /\ Live
    /\ ResumeError(Members(receivers) \cup Members(senders))
    /\ receivers' = <<>> /\ senders' = <<>>
    /\ next' = [s \in Slots |->
                  IF \E i \in DOMAIN q : q[i] = s
                  THEN LET i == CHOOSE j \in DOMAIN q : q[j] = s
                       IN  IF i = 1 THEN free ELSE q[i - 1]
                  ELSE next[s]]
    /\ free' = IF q = <<>> THEN free ELSE q[Len(q)]
    /\ head' = None
    /\ tail' = IF tail \in Members(q) THEN None ELSE tail
    /\ entry' = 0
    /\ UNCHANGED <<data, call, got, del>>

\* rt_mq_delete, rt_mq_detach: as for the mailbox.
DeleteCheck ==
    /\ Deletable
    /\ \/ /\ del \in {"none", "recvCheck"}
          /\ del' = IF receivers = <<>> THEN "sendCheck" ELSE "recvResume"
       \/ /\ del = "sendCheck"
          /\ del' = IF senders = <<>> THEN "free" ELSE "sendResume"
    /\ UNCHANGED <<threadVars, links, data, receivers, senders, call, got>>

DeleteResume ==
    /\ \/ /\ del = "recvResume" /\ receivers # <<>>
          /\ ResumeError({Head(receivers)})
          /\ receivers' = Tail(receivers) /\ UNCHANGED senders
          /\ del' = "recvCheck"
       \/ /\ del = "sendResume" /\ senders # <<>>
          /\ ResumeError({Head(senders)})
          /\ senders' = Tail(senders) /\ UNCHANGED receivers
          /\ del' = "sendCheck"
       \/ /\ \/ del = "recvResume" /\ receivers = <<>>
             \/ del = "sendResume" /\ senders = <<>>
          /\ del' = "fault"
          /\ UNCHANGED <<threadVars, receivers, senders>>
    /\ UNCHANGED <<links, data, call, got>>

DeleteFree ==
    /\ del = "free"
    /\ del' = "gone"
    /\ UNCHANGED <<threadVars, links, data, receivers, senders, call, got>>

Next ==
    \/ \E t \in Threads :
          \/ \E v \in Msgs : Urgent(t, v) \/ \E w \in Waits : Send(t, v, w)
          \/ \E w \in Waits : Recv(t, w)
          \/ Fail(t) \/ Continue(t) \/ Timeout(t)
    \/ Reset
    \/ DeleteCheck \/ DeleteResume \/ DeleteFree

Spec == Init /\ [][Next]_vars

-----------------------------------------------------------------------------

\* The slots that calls have unlinked and not linked again.
InFlight == {call[t].slot : t \in Threads} \ {None}

\* msg_queue_tail is the last slot of the queue, and entry its length.
TailAndEntryAgree ==
    LET q == Chain(head) IN
    /\ entry = Len(q)
    /\ tail = IF q = <<>> THEN None ELSE q[Len(q)]

\* Every slot is in exactly one place: the free list, the queue, or one call that
\* copies; none is lost or shared, whatever resets and calls interleave with
\* the unprotected copies; tail and entry stay true of the chain.
SlotsPartitioned ==
    LET f == Chain(free)  q == Chain(head) IN
    /\ TypeOK /\ TailAndEntryAgree
    /\ Distinct(f) /\ Distinct(q)
    /\ Members(f) \cup Members(q) \cup InFlight = Slots
    /\ Members(f) \cap Members(q) = {}
    /\ (Members(f) \cup Members(q)) \cap InFlight = {}
    /\ \A t, u \in Threads : call[t].slot = call[u].slot /\ call[t].slot # None => t = u

\* What a sender copied in is what gets linked, and what a receiver unlinked is
\* what it copies out: nobody writes to a slot during the unprotected copy.
CopyUndisturbed ==
    \A t \in Threads :
        \/ call[t].op \in {"send", "urgent"} /\ call[t].at = "link"
        \/ call[t].op = "recv" /\ call[t].at = "copy"
        => data[call[t].slot] = call[t].msg

Content == LET q == Chain(head) IN [i \in DOMAIN q |-> data[q[i]]]

Queue == INSTANCE BoundedQueue WITH queue <- Content, Size <- Max

\* The chained slots are a bounded queue: a message enters it, at the back or
\* urgent at the front, when it is linked, and leaves it when it is unlinked.
IsQueue == Queue!Spec

Woken(op) == {t \in Threads : /\ call[t].op = op /\ call[t].at = "wait"
                              /\ stat[t] = "ready" /\ error[t] = "EOK"}

\* No lost wakeup for receivers: see Mailbox.
NoReceiverForgotten == receivers # <<>> => entry <= Cardinality(Woken("recv"))

\* No lost wakeup for senders: while one is suspended, every slot of the free
\* list has a woken sender on its way to it.
NoSenderForgotten == senders # <<>> => Len(Chain(free)) <= Cardinality(Woken("send"))
\* Both: neither rt_mq_send_wait and rt_mq_urgent nor rt_mq_recv leaves a thread of
\* the other kind suspended for nothing.
NoneForgotten == NoReceiverForgotten /\ NoSenderForgotten

=============================================================================
