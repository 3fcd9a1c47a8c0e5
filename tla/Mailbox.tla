------------------------------ MODULE Mailbox ------------------------------
(***************************************************************************)
(* The mailbox of ipc.c: rt_mb_send_wait, rt_mb_recv, rt_mb_control(RESET) *)
(* and rt_mb_delete/rt_mb_detach.  The lwIP threads and the Ethernet       *)
(* driver talk through these mailboxes.                                    *)
(*                                                                         *)
(* A send or receive that has to wait is woken without being given         *)
(* anything: it tests the mailbox again, and may find that another thread  *)
(* was faster.                                                             *)
(***************************************************************************)
EXTENDS IpcThread, FiniteSets

CONSTANTS Prio,       \* thread->current_priority
          Msgs,       \* the message words
          Size,       \* mb->size
          Deletable,  \* whether some thread deletes the mailbox
          None

ASSUME MailboxAssumption ==
    /\ IsFiniteSet(Threads) /\ Prio \in [Threads -> Nat] /\ Size \in Nat \ {0}
    /\ Deletable \in BOOLEAN /\ None \notin Msgs

VARIABLES pool,        \* mb->msg_pool
          in, out,     \* mb->in_offset, mb->out_offset
          entry,       \* mb->entry
          receivers,   \* mb->parent.suspend_thread
          senders,     \* mb->suspend_sender_thread
          call,        \* the call the thread waits in, with its timeout and message
          got,         \* *value of the last rt_mb_recv that returned RT_EOK
          del          \* where rt_mb_delete is

boxVars == <<pool, in, out, entry>>
vars == <<stat, error, timer, pool, in, out, entry, receivers, senders, call, got, del>>

Waits == {"no", "timed", "forever"}   \* timeout = 0, > 0, RT_WAITING_FOREVER

Idle == [op |-> "idle", left |-> "no", msg |-> None]

TypeOK ==
    /\ ThreadTypeOK
    /\ pool \in [0..(Size - 1) -> Msgs]
    /\ in \in 0..(Size - 1) /\ out \in 0..(Size - 1) /\ entry \in 0..Size
    /\ receivers \in Seq(Threads) /\ senders \in Seq(Threads)
    /\ call \in [Threads -> [op : {"idle", "send", "recv"}, left : Waits, msg : Msgs \cup {None}]]
    /\ got \in Msgs
    /\ del \in {"none", "recvCheck", "recvResume", "sendCheck", "sendResume",
                "free", "gone", "fault", "stale"}

\* rt_mb_init, rt_mb_create; the pool holds anything.
Init ==
    /\ ThreadInit
    /\ \E v \in Msgs : pool = [i \in 0..(Size - 1) |-> v] /\ got = v
    /\ in = 0 /\ out = 0 /\ entry = 0
    /\ receivers = <<>> /\ senders = <<>>
    /\ call = [t \in Threads |-> Idle]
    /\ del = "none"

\* After a fault the kernel has stopped.
Running == del \notin {"fault", "stale"}
Live == Running /\ del # "gone"

\* Mutant: the offset wraps one slot early.
Advance_Early(i) == IF i + 2 >= Size THEN 0 ELSE i + 1

Advance(i) == IF i + 1 >= Size THEN 0 ELSE i + 1

\* The first thread of a list, if there is one, is resumed.
ResumeFirst(list) == IF list = <<>> THEN UNCHANGED threadVars ELSE Resume(Head(list))
Rest(list) == IF list = <<>> THEN list ELSE Tail(list)

WakeReceiver == ResumeFirst(receivers) /\ receivers' = Rest(receivers)

\* Mutant: only the receive that ends fullness wakes a sender.
WakeSender_WasFull ==
    IF entry = Size THEN ResumeFirst(senders) /\ senders' = Rest(senders)
    ELSE UNCHANGED <<threadVars, senders>>

WakeSender == ResumeFirst(senders) /\ senders' = Rest(senders)

\* The section of rt_mb_send_wait that tests the mailbox, with time left w.
SendSection(t, v, w) ==
    \/ /\ entry = Size /\ w = "no"
       /\ call' = [call EXCEPT ![t] = Idle]
       /\ UNCHANGED <<threadVars, boxVars, receivers, senders>>
    \/ /\ entry = Size /\ w # "no"
       /\ senders' = ListSuspend(senders, t, Prio)
       /\ Suspend(t, w = "timed")
       /\ call' = [call EXCEPT ![t] = [op |-> "send", left |-> w, msg |-> v]]
       /\ UNCHANGED <<boxVars, receivers>>
    \/ /\ entry # Size
       /\ pool' = [pool EXCEPT ![in] = v]
       /\ in' = Advance(in)
       /\ entry' = entry + 1
       /\ WakeReceiver
       /\ call' = [call EXCEPT ![t] = Idle]
       /\ UNCHANGED <<out, senders>>

\* The section of rt_mb_recv that tests the mailbox, with time left w.
RecvSection(t, w) ==
    \/ /\ entry = 0 /\ w = "no"
       /\ call' = [call EXCEPT ![t] = Idle]
       /\ UNCHANGED <<threadVars, boxVars, receivers, senders, got>>
    \/ /\ entry = 0 /\ w # "no"
       /\ receivers' = ListSuspend(receivers, t, Prio)
       /\ Suspend(t, w = "timed")
       /\ call' = [call EXCEPT ![t] = [op |-> "recv", left |-> w, msg |-> None]]
       /\ UNCHANGED <<boxVars, senders, got>>
    \/ /\ entry # 0
       /\ got' = pool[out]
       /\ out' = Advance(out)
       /\ entry' = entry - 1
       /\ WakeSender
       /\ call' = [call EXCEPT ![t] = Idle]
       /\ UNCHANGED <<pool, in, receivers>>

Send(t, v, w) == /\ Live /\ call[t] = Idle
                 /\ SendSection(t, v, w)
                 /\ UNCHANGED <<got, del>>

Recv(t, w) == /\ Live /\ call[t] = Idle
              /\ RecvSection(t, w)
              /\ UNCHANGED del

\* timeout -= elapsed ticks, not below 0; waiting for ever stays so.
Remaining(w) == IF w = "timed" THEN {"timed", "no"} ELSE {w}

\* A woken call returns the error it was woken with ...
Fail(t) ==
    /\ Running /\ call[t] # Idle /\ error[t] # "EOK" /\ Leave(t)
    /\ call' = [call EXCEPT ![t] = Idle]
    /\ UNCHANGED <<boxVars, receivers, senders, got, del>>

\* ... or tests the mailbox again, which rt_mb_delete may have freed.
Retry(t) ==
    /\ Running /\ call[t] # Idle /\ stat[t] = "ready" /\ error[t] = "EOK"
    /\ \/ /\ Live
          /\ \E w \in Remaining(call[t].left) :
                \/ call[t].op = "send" /\ SendSection(t, call[t].msg, w) /\ UNCHANGED got
                \/ call[t].op = "recv" /\ RecvSection(t, w)
          /\ UNCHANGED del
       \/ /\ ~ Live
          /\ del' = "stale"
          /\ UNCHANGED <<threadVars, boxVars, receivers, senders, call, got>>

\* The tick interrupt finds the timer of a waiting thread due.
Timeout(t) ==
    /\ Running
    /\ ThreadTimeout(t)
    /\ IF call[t].op = "recv"
       THEN receivers' = ListRemove(receivers, t) /\ UNCHANGED senders
       ELSE senders' = ListRemove(senders, t) /\ UNCHANGED receivers
    /\ UNCHANGED <<boxVars, call, got, del>>

\* rt_mb_control(RT_IPC_CMD_RESET).
Reset ==
    /\ Live
    /\ ResumeError(Members(receivers) \cup Members(senders))
    /\ receivers' = <<>> /\ senders' = <<>>
    /\ entry' = 0 /\ in' = 0 /\ out' = 0
    /\ UNCHANGED <<pool, call, got, del>>

\* rt_mb_delete, rt_mb_detach: rt_ipc_list_resume_all of the receivers, then of
\* the senders, each a test with interrupts enabled ...
DeleteCheck ==
    /\ Deletable
    /\ \/ /\ del \in {"none", "recvCheck"}
          /\ del' = IF receivers = <<>> THEN "sendCheck" ELSE "recvResume"
       \/ /\ del = "sendCheck"
          /\ del' = IF senders = <<>> THEN "free" ELSE "sendResume"
    /\ UNCHANGED <<threadVars, boxVars, receivers, senders, call, got>>

\* ... and a resume without a second test with interrupts disabled;
DeleteResume ==
    /\ \/ /\ del = "recvResume" /\ receivers # <<>>
          /\ ResumeError({Head(receivers)})
          /\ receivers' = Tail(receivers) /\ UNCHANGED senders
          /\ del' = "recvCheck"
       \/ /\ del = "sendResume" /\ senders # <<>>
          /\ ResumeError({Head(senders)})
          /\ senders' = Tail(senders) /\ UNCHANGED receivers
          /\ del' = "sendCheck"
       \/ /\ \/ del = "recvResume" /\ receivers = <<>>
             \/ del = "sendResume" /\ senders = <<>>
          /\ del' = "fault"
          /\ UNCHANGED <<threadVars, receivers, senders>>
    /\ UNCHANGED <<boxVars, call, got>>

\* then the pool and the object are freed.
DeleteFree ==
    /\ del = "free"
    /\ del' = "gone"
    /\ UNCHANGED <<threadVars, boxVars, receivers, senders, call, got>>

Next ==
    \/ \E t \in Threads :
          \/ \E w \in Waits : Recv(t, w) \/ \E v \in Msgs : Send(t, v, w)
          \/ Fail(t) \/ Retry(t) \/ Timeout(t)
    \/ Reset
    \/ DeleteCheck \/ DeleteResume \/ DeleteFree

Spec == Init /\ [][Next]_vars

-----------------------------------------------------------------------------

\* The messages inside, read from out_offset as a receiver would.
Content == [i \in 1..entry |-> pool[(out + i - 1) % Size]]

Queue == INSTANCE BoundedQueue WITH queue <- Content

\* The ring of msg_pool, in_offset, out_offset and entry is a bounded FIFO queue:
\* every send, receive and reset is one atomic operation of it, no message is
\* lost, repeated or reordered, at the wrap of the offsets and across blocking.
IsQueue == Queue!Spec

\* Threads that were woken to look at the mailbox again and have not run yet.
Woken(op) == {t \in Threads : call[t].op = op /\ stat[t] = "ready" /\ error[t] = "EOK"}

\* No lost wakeup for receivers: while one is suspended, every message inside has
\* a woken receiver on its way to it, although a faster thread may take the
\* message first and a woken receiver may give up for lack of time.
NoReceiverForgotten == receivers # <<>> => entry <= Cardinality(Woken("recv"))

\* No lost wakeup for senders: while one is suspended, every free slot has a woken
\* sender on its way to it.
NoSenderForgotten == senders # <<>> => Size - entry <= Cardinality(Woken("send"))
\* Both, over a state of the right type: neither rt_mb_send_wait nor rt_mb_recv
\* leaves a thread of the other kind suspended for nothing.
NoneForgotten == TypeOK /\ NoReceiverForgotten /\ NoSenderForgotten

=============================================================================
