---------------------------- MODULE MailboxProofs ----------------------------
(***************************************************************************)
(* Proofs about the mailbox, for any number of threads, any priorities,    *)
(* both flags, any size and with or without a deletion: the ring           *)
(* implements BoundedQueue, and neither a receiver nor a sender is         *)
(* forgotten.                                                              *)
(***************************************************************************)
EXTENDS Mailbox, IpcThreadProofs

\* The threads suspended in a call of one kind.
Suspended(op) == {t \in Threads : stat[t] = "suspend" /\ call[t].op = op}

\* A thread outside a call is ready and holds no error; one that waits to send has its
\* message; only a suspended one has a timer, and it has not been woken with an error.
CallInv ==
    \A t \in Threads :
        /\ call[t].op = "idle" => call[t] = Idle /\ stat[t] = "ready" /\ error[t] = "EOK"
        /\ call[t].op = "send" => call[t].msg \in Msgs
        /\ stat[t] = "suspend" => error[t] = "EOK"
        /\ timer[t] => stat[t] = "suspend"

\* The two lists are the suspended receivers and the suspended senders, each once.
ListInv ==
    /\ Distinct(receivers) /\ Members(receivers) = Suspended("recv")
    /\ Distinct(senders) /\ Members(senders) = Suspended("send")

\* The state of the threads and the lists they wait in.
ThreadInv ==
    /\ ThreadTypeOK
    /\ receivers \in Seq(Threads) /\ senders \in Seq(Threads)
    /\ call \in [Threads -> [op : {"idle", "send", "recv"}, left : Waits, msg : Msgs \cup {None}]]
    /\ CallInv /\ ListInv

\* The ring: in_offset is entry slots ahead of out_offset.
BoxInv ==
    /\ pool \in [0..(Size - 1) -> Msgs] /\ got \in Msgs
    /\ in \in 0..(Size - 1) /\ out \in 0..(Size - 1) /\ entry \in 0..Size
    /\ in = (out + entry) % Size

Places == {"none", "recvCheck", "recvResume", "sendCheck", "sendResume",
           "free", "gone", "fault", "stale"}

\* What the promises below rest on.
BaseInv == ThreadInv /\ BoxInv /\ del \in Places

\* BaseInv contains the type of every variable.
LEMMA BaseType == BaseInv => TypeOK
BY DEF BaseInv, ThreadInv, BoxInv, TypeOK, Places

-----------------------------------------------------------------------------
(* The threads and their lists.                                            *)

\* A thread that may run a section of op: outside a call, or woken in one of op.
Enters(t, op) ==
    \/ call[t] = Idle
    \/ call[t].op = op /\ stat[t] = "ready" /\ error[t] = "EOK"

\* Such a thread is in no list and has no timer.
LEMMA EntersReady ==
    ASSUME ThreadInv, NEW t \in Threads, NEW op, Enters(t, op)
    PROVE  /\ stat[t] = "ready" /\ error[t] = "EOK" /\ ~ timer[t]
           /\ t \notin Members(receivers) /\ t \notin Members(senders)
<1>1. stat[t] = "ready" /\ error[t] = "EOK"
  BY DEF ThreadInv, CallInv, Enters, Idle
<1>2. ~ timer[t]
  BY <1>1 DEF ThreadInv, CallInv
<1>3. t \notin Suspended("recv") /\ t \notin Suspended("send")
  BY <1>1 DEF Suspended
<1> QED BY <1>1, <1>2, <1>3 DEF ThreadInv, ListInv

\* A section that ends the call without waking anybody.
LEMMA LeaveKeeps ==
    ASSUME ThreadInv, NEW t \in Threads, stat[t] = "ready",
           error' = [error EXCEPT ![t] = "EOK"], call' = [call EXCEPT ![t] = Idle],
           UNCHANGED <<stat, timer, receivers, senders>>
    PROVE  ThreadInv'
<1>1. call' \in [Threads -> [op : {"idle", "send", "recv"}, left : Waits, msg : Msgs \cup {None}]]
  BY DEF ThreadInv, Idle, Waits
<1>2. ThreadTypeOK'
  BY DEF ThreadInv, ThreadTypeOK, Errors
<1>3. CallInv'
  BY DEF ThreadInv, ThreadTypeOK, CallInv, Idle
<1>4. ListInv'
  BY DEF ThreadInv, ListInv, Suspended, Idle
<1> QED BY <1>1, <1>2, <1>3, <1>4 DEF ThreadInv

\* A section that suspends the caller in one of the lists.
LEMMA WaitKeeps ==
    ASSUME ThreadInv, NEW t \in Threads, NEW op \in {"send", "recv"}, Enters(t, op),
           NEW w \in Waits, NEW m \in Msgs \cup {None}, op = "send" => m \in Msgs,
           Suspend(t, w = "timed"),
           call' = [call EXCEPT ![t] = [op |-> op, left |-> w, msg |-> m]],
           IF op = "recv" THEN receivers' = ListSuspend(receivers, t, Prio) /\ UNCHANGED senders
           ELSE senders' = ListSuspend(senders, t, Prio) /\ UNCHANGED receivers
    PROVE  ThreadInv'
<1>1. t \notin Members(receivers) /\ t \notin Members(senders)
  BY EntersReady
<1>2. call' \in [Threads -> [op : {"idle", "send", "recv"}, left : Waits, msg : Msgs \cup {None}]]
  BY DEF ThreadInv
<1>3. ThreadTypeOK'
  BY DEF ThreadInv, ThreadTypeOK, Errors, Suspend
<1>4. CallInv'
  BY DEF ThreadInv, ThreadTypeOK, CallInv, Idle, Suspend
<1>5. CASE op = "recv"
  <2>1. /\ receivers' \in Seq(Threads) /\ Distinct(receivers')
        /\ Members(receivers') = Members(receivers) \cup {t}
    BY <1>1, <1>5, ListSuspendProperties, MailboxAssumption DEF ThreadInv, ListInv
  <2>2. Suspended("recv")' = Suspended("recv") \cup {t} /\ Suspended("send")' = Suspended("send")
    BY <1>1, <1>5 DEF ThreadInv, ThreadTypeOK, ListInv, Suspended, Suspend
  <2> QED BY <1>2, <1>3, <1>4, <1>5, <2>1, <2>2 DEF ThreadInv, ListInv
<1>6. CASE op = "send"
  <2>1. /\ senders' \in Seq(Threads) /\ Distinct(senders')
        /\ Members(senders') = Members(senders) \cup {t}
    <3>1. senders \in Seq(Threads) /\ Distinct(senders) /\ t \notin Members(senders)
      BY <1>1 DEF ThreadInv, ListInv
    <3> QED BY <1>1, <1>6, <3>1, ListSuspendProperties, MailboxAssumption
  <2>2. Suspended("send")' = Suspended("send") \cup {t} /\ Suspended("recv")' = Suspended("recv")
    BY <1>1, <1>6 DEF ThreadInv, ThreadTypeOK, ListInv, Suspended, Suspend
  <2> QED BY <1>2, <1>3, <1>4, <1>6, <2>1, <2>2 DEF ThreadInv, ListInv
<1> QED BY <1>5, <1>6

\* Resuming the first thread of a list, if there is one, while the caller leaves.
LEMMA WakeKeeps ==
    ASSUME ThreadInv, NEW t \in Threads, NEW op, Enters(t, op),
           call' = [call EXCEPT ![t] = Idle],
           \/ WakeReceiver /\ UNCHANGED senders
           \/ WakeSender /\ UNCHANGED receivers
    PROVE  ThreadInv'
<1>1. /\ stat[t] = "ready" /\ error[t] = "EOK"
      /\ t \notin Members(receivers) /\ t \notin Members(senders)
  BY EntersReady
<1>2. CASE UNCHANGED <<threadVars, receivers, senders>>
  <2>1. error' = [error EXCEPT ![t] = "EOK"]
    BY <1>1, <1>2 DEF threadVars, ThreadInv, ThreadTypeOK
  <2> QED BY <1>1, <1>2, <2>1, LeaveKeeps, Zenon DEF threadVars
<1>3. ASSUME NEW u \in Threads, Resume(u), stat[u] = "suspend" PROVE ThreadTypeOK' /\ CallInv'
  BY <1>1, <1>3 DEF ThreadInv, ThreadTypeOK, Resume, CallInv, Idle
<1>4. call' \in [Threads -> [op : {"idle", "send", "recv"}, left : Waits, msg : Msgs \cup {None}]]
  BY DEF ThreadInv, Idle, Waits
<1>5. CASE /\ receivers # <<>> /\ Resume(Head(receivers))
           /\ receivers' = Tail(receivers) /\ UNCHANGED senders
  <2> DEFINE u == Head(receivers)
  <2>1. /\ u \in Threads /\ u \in Suspended("recv")
        /\ receivers' \in Seq(Threads) /\ Distinct(receivers')
        /\ Members(receivers') = Members(receivers) \ {u}
    BY <1>5, ListTailProperties DEF ThreadInv, ListInv
  <2> HIDE DEF u
  <2>2. Resume(u)
    BY <1>5 DEF u
  <2>3. Suspended("recv")' = Suspended("recv") \ {u} /\ Suspended("send")' = Suspended("send")
    BY <1>1, <2>1, <2>2 DEF ThreadInv, ThreadTypeOK, Suspended, Resume, Idle
  <2>4. ThreadTypeOK' /\ CallInv'
    BY <1>3, <2>1, <2>2 DEF Suspended
  <2> QED BY <1>4, <1>5, <2>1, <2>3, <2>4, Zenon DEF ThreadInv, ListInv
<1>6. CASE /\ senders # <<>> /\ Resume(Head(senders))
           /\ senders' = Tail(senders) /\ UNCHANGED receivers
  <2> DEFINE u == Head(senders)
  <2>1. /\ u \in Threads /\ u \in Suspended("send")
        /\ senders' \in Seq(Threads) /\ Distinct(senders')
        /\ Members(senders') = Members(senders) \ {u}
    BY <1>6, ListTailProperties DEF ThreadInv, ListInv
  <2> HIDE DEF u
  <2>2. Resume(u)
    BY <1>6 DEF u
  <2>3. Suspended("send")' = Suspended("send") \ {u} /\ Suspended("recv")' = Suspended("recv")
    BY <1>1, <2>1, <2>2 DEF ThreadInv, ThreadTypeOK, Suspended, Resume, Idle
  <2>4. ThreadTypeOK' /\ CallInv'
    BY <1>3, <2>1, <2>2 DEF Suspended
  <2> QED BY <1>4, <1>6, <2>1, <2>3, <2>4, Zenon DEF ThreadInv, ListInv
<1> QED BY <1>2, <1>5, <1>6 DEF WakeReceiver, WakeSender, ResumeFirst, Rest

\* rt_thread_timeout takes a suspended thread out of the list it is in.
LEMMA TimeoutKeeps ==
    ASSUME ThreadInv, NEW t \in Threads, Timeout(t)
    PROVE  ThreadInv'
<1>1. stat[t] = "suspend" /\ call[t].op \in {"send", "recv"}
  BY DEF Timeout, ThreadTimeout, ThreadInv, CallInv
<1>2. ThreadTypeOK' /\ CallInv'
  BY <1>1 DEF Timeout, ThreadTimeout, ThreadInv, ThreadTypeOK, CallInv, Errors
<1>3. CASE call[t].op = "recv"
  <2>1. /\ receivers' \in Seq(Threads) /\ Distinct(receivers')
        /\ Members(receivers') = Members(receivers) \ {t}
    <3>1. t \in Members(receivers)
      BY <1>1, <1>3 DEF ThreadInv, ListInv, Suspended
    <3> QED BY <1>3, <3>1, ListRemoveProperties DEF Timeout, ThreadInv, ListInv
  <2>2. Suspended("recv")' = Suspended("recv") \ {t} /\ Suspended("send")' = Suspended("send")
    BY <1>1, <1>3 DEF Timeout, ThreadTimeout, ThreadInv, ThreadTypeOK, Suspended
  <2> QED BY <1>2, <1>3, <2>1, <2>2 DEF Timeout, ThreadInv, ListInv
<1>4. CASE call[t].op = "send"
  <2>1. /\ senders' \in Seq(Threads) /\ Distinct(senders')
        /\ Members(senders') = Members(senders) \ {t}
    <3>1. t \in Members(senders)
      BY <1>1, <1>4 DEF ThreadInv, ListInv, Suspended
    <3> QED BY <1>4, <3>1, ListRemoveProperties DEF Timeout, ThreadInv, ListInv
  <2>2. Suspended("send")' = Suspended("send") \ {t} /\ Suspended("recv")' = Suspended("recv")
    BY <1>1, <1>4 DEF Timeout, ThreadTimeout, ThreadInv, ThreadTypeOK, Suspended
  <2> QED BY <1>2, <1>4, <2>1, <2>2 DEF Timeout, ThreadInv, ListInv
<1> QED BY <1>1, <1>3, <1>4

\* A reset wakes everybody with an error and leaves both lists empty.
LEMMA ResetKeeps ==
    ASSUME ThreadInv, Reset
    PROVE  ThreadInv'
<1>1. ThreadTypeOK'
  BY ResumeErrorType DEF ThreadInv, Reset
<1>2. CallInv'
  BY DEF Reset, ResumeError, ThreadInv, ThreadTypeOK, CallInv, ListInv, Suspended
<1>3. Suspended("recv")' = {} /\ Suspended("send")' = {}
  BY DEF Reset, ResumeError, ThreadInv, ThreadTypeOK, ListInv, Suspended
<1> QED BY <1>1, <1>2, <1>3, EmptyListProperties, Zenon DEF Reset, ThreadInv, ListInv

\* A deletion wakes the first thread of a list with an error.
LEMMA DeleteKeeps ==
    ASSUME ThreadInv, DeleteResume
    PROVE  ThreadInv'
<1>1. CASE /\ receivers # <<>> /\ ResumeError({Head(receivers)})
           /\ receivers' = Tail(receivers) /\ UNCHANGED senders
  <2> DEFINE u == Head(receivers)
  <2>1. /\ u \in Threads /\ u \in Suspended("recv")
        /\ receivers' \in Seq(Threads) /\ Distinct(receivers')
        /\ Members(receivers') = Members(receivers) \ {u}
    BY <1>1, ListTailProperties DEF ThreadInv, ListInv
  <2> HIDE DEF u
  <2>2. ResumeError({u}) /\ call' = call
    BY <1>1 DEF u, DeleteResume
  <2>3. Suspended("recv")' = Suspended("recv") \ {u} /\ Suspended("send")' = Suspended("send")
    BY <2>1, <2>2 DEF ThreadInv, ThreadTypeOK, Suspended, ResumeError
  <2>4. ThreadTypeOK'
    BY <2>2, ResumeErrorType DEF ThreadInv
  <2>5. CallInv'
    BY <2>1, <2>2 DEF ResumeError, ThreadInv, ThreadTypeOK, CallInv, Suspended
  <2> QED BY <1>1, <2>1, <2>2, <2>3, <2>4, <2>5, Zenon DEF ThreadInv, ListInv
<1>2. CASE /\ senders # <<>> /\ ResumeError({Head(senders)})
           /\ senders' = Tail(senders) /\ UNCHANGED receivers
  <2> DEFINE u == Head(senders)
  <2>1. /\ u \in Threads /\ u \in Suspended("send")
        /\ senders' \in Seq(Threads) /\ Distinct(senders')
        /\ Members(senders') = Members(senders) \ {u}
    BY <1>2, ListTailProperties DEF ThreadInv, ListInv
  <2> HIDE DEF u
  <2>2. ResumeError({u}) /\ call' = call
    BY <1>2 DEF u, DeleteResume
  <2>3. Suspended("send")' = Suspended("send") \ {u} /\ Suspended("recv")' = Suspended("recv")
    BY <2>1, <2>2 DEF ThreadInv, ThreadTypeOK, Suspended, ResumeError
  <2>4. ThreadTypeOK'
    BY <2>2, ResumeErrorType DEF ThreadInv
  <2>5. CallInv'
    BY <2>1, <2>2 DEF ResumeError, ThreadInv, ThreadTypeOK, CallInv, Suspended
  <2> QED BY <1>2, <2>1, <2>2, <2>3, <2>4, <2>5, Zenon DEF ThreadInv, ListInv
<1>3. CASE UNCHANGED <<threadVars, receivers, senders>>
  BY <1>3 DEF DeleteResume, threadVars, ThreadInv, ThreadTypeOK, CallInv, ListInv, Suspended
<1> QED BY <1>1, <1>2, <1>3 DEF DeleteResume

-----------------------------------------------------------------------------
(* The ring.                                                               *)

\* The offset of the slot i behind out_offset, wrapped once.
LEMMA WrapOffset ==
    ASSUME NEW o \in 0..(Size - 1), NEW i \in 0..Size
    PROVE  (o + i) % Size = IF o + i < Size THEN o + i ELSE o + i - Size
<1>1. PICK a \in Nat : a = o + i /\ a < Size + Size
  BY MailboxAssumption
<1>2. (a < Size => a % Size = a) /\ (a >= Size => a % Size = a - Size)
  BY <1>1, MailboxAssumption
<1>3. (o + i) % Size = a % Size
  BY <1>1
<1> QED BY <1>1, <1>2, <1>3, MailboxAssumption

\* Moving out_offset on by one makes the second message the first.
LEMMA ShiftOffset ==
    ASSUME NEW o \in 0..(Size - 1), NEW i \in 1..Size
    PROVE  Advance(o) \in 0..(Size - 1) /\ (Advance(o) + (i - 1)) % Size = (o + i) % Size
<1>1. Advance(o) \in 0..(Size - 1) /\ i - 1 \in 0..Size /\ i \in 0..Size
  BY MailboxAssumption DEF Advance
<1>2. (Advance(o) + (i - 1)) % Size
        = IF Advance(o) + (i - 1) < Size THEN Advance(o) + (i - 1) ELSE Advance(o) + (i - 1) - Size
  BY <1>1, WrapOffset
<1>3. (o + i) % Size = IF o + i < Size THEN o + i ELSE o + i - Size
  BY <1>1, WrapOffset
<1> QED BY <1>1, <1>2, <1>3, MailboxAssumption DEF Advance

\* Storing a message keeps in_offset entry slots ahead.
LEMMA PutKeeps ==
    ASSUME BoxInv, NEW v \in Msgs, entry # Size,
           pool' = [pool EXCEPT ![in] = v], in' = Advance(in), entry' = entry + 1,
           UNCHANGED <<out, got>>
    PROVE  BoxInv'
<1>1. entry \in 0..Size /\ entry + 1 \in 0..Size /\ out \in 0..(Size - 1)
  BY MailboxAssumption DEF BoxInv
<1>2. (out + entry) % Size = IF out + entry < Size THEN out + entry ELSE out + entry - Size
  BY <1>1, WrapOffset
<1>3. (out + (entry + 1)) % Size
        = IF out + (entry + 1) < Size THEN out + (entry + 1) ELSE out + (entry + 1) - Size
  BY <1>1, WrapOffset
<1>4. in' = (out + (entry + 1)) % Size /\ in' \in 0..(Size - 1)
  <2>1. in = (IF out + entry < Size THEN out + entry ELSE out + entry - Size) /\ Size \in Nat
    BY <1>2, MailboxAssumption DEF BoxInv
  <2>2. in' = IF in + 1 >= Size THEN 0 ELSE in + 1
    BY DEF Advance
  <2> QED BY <1>1, <1>3, <2>1, <2>2
<1> QED BY <1>1, <1>4 DEF BoxInv

\* So does taking one out.
LEMMA GetKeeps ==
    ASSUME BoxInv, entry # 0,
           got' = pool[out], out' = Advance(out), entry' = entry - 1,
           UNCHANGED <<pool, in>>
    PROVE  BoxInv'
<1>1. entry \in 1..Size /\ out \in 0..(Size - 1)
  BY MailboxAssumption DEF BoxInv
<1>2. Advance(out) \in 0..(Size - 1) /\ (Advance(out) + (entry - 1)) % Size = (out + entry) % Size
  BY <1>1, ShiftOffset
<1>3. entry - 1 \in 0..Size
  BY <1>1, MailboxAssumption
<1> QED BY <1>1, <1>2, <1>3 DEF BoxInv

-----------------------------------------------------------------------------
(* The base invariant.                                                     *)

\* rt_mb_init leaves a mailbox that satisfies BaseInv.
LEMMA InitBase == Init => BaseInv
<1> SUFFICES ASSUME Init PROVE BaseInv
  OBVIOUS
<1>1. ThreadInv
  BY EmptyListProperties
  DEF Init, ThreadInit, ThreadInv, ThreadTypeOK, Errors, CallInv, ListInv, Suspended, Idle, Waits
<1>2. BoxInv
  <2>1. PICK v \in Msgs : pool = [i \in 0..(Size - 1) |-> v] /\ got = v
    BY DEF Init
  <2>2. (0 + 0) % Size = 0
    BY MailboxAssumption
  <2> QED BY <2>1, <2>2, MailboxAssumption DEF Init, BoxInv
<1> QED BY <1>1, <1>2 DEF Init, BaseInv, Places

\* The section of rt_mb_send_wait, run by a thread that may enter it.
LEMMA SendSectionKeeps ==
    ASSUME BaseInv, NEW t \in Threads, NEW v \in Msgs, NEW w \in Waits, Enters(t, "send"),
           SendSection(t, v, w), UNCHANGED <<got, del>>
    PROVE  BaseInv'
<1>1. ThreadInv /\ BoxInv /\ del' \in Places
  BY DEF BaseInv
<1>2. CASE /\ call' = [call EXCEPT ![t] = Idle]
           /\ UNCHANGED <<threadVars, boxVars, receivers, senders>>
  <2>1. stat[t] = "ready" /\ error' = [error EXCEPT ![t] = "EOK"]
    BY <1>1, <1>2, EntersReady DEF threadVars, ThreadInv, ThreadTypeOK
  <2>2. ThreadInv'
    BY <1>1, <1>2, <2>1, LeaveKeeps, Zenon DEF threadVars
  <2> QED BY <1>1, <1>2, <2>2 DEF BaseInv, BoxInv, boxVars
<1>3. CASE /\ senders' = ListSuspend(senders, t, Prio)
           /\ Suspend(t, w = "timed")
           /\ call' = [call EXCEPT ![t] = [op |-> "send", left |-> w, msg |-> v]]
           /\ UNCHANGED <<boxVars, receivers>>
  <2>1. ThreadInv'
    BY <1>1, <1>3, WaitKeeps, Zenon
  <2> QED BY <1>1, <1>3, <2>1 DEF BaseInv, BoxInv, boxVars
<1>4. CASE /\ entry # Size
           /\ pool' = [pool EXCEPT ![in] = v] /\ in' = Advance(in) /\ entry' = entry + 1
           /\ WakeReceiver /\ call' = [call EXCEPT ![t] = Idle]
           /\ UNCHANGED <<out, senders>>
  <2>1. ThreadInv'
    BY <1>1, <1>4, WakeKeeps, Zenon
  <2>2. BoxInv'
    BY <1>1, <1>4, PutKeeps, Zenon
  <2> QED BY <1>1, <2>1, <2>2 DEF BaseInv
<1> QED BY <1>2, <1>3, <1>4 DEF SendSection

\* The section of rt_mb_recv.
LEMMA RecvSectionKeeps ==
    ASSUME BaseInv, NEW t \in Threads, NEW w \in Waits, Enters(t, "recv"),
           RecvSection(t, w), UNCHANGED del
    PROVE  BaseInv'
<1>1. ThreadInv /\ BoxInv /\ del' \in Places
  BY DEF BaseInv
<1>2. CASE /\ call' = [call EXCEPT ![t] = Idle]
           /\ UNCHANGED <<threadVars, boxVars, receivers, senders, got>>
  <2>1. stat[t] = "ready" /\ error' = [error EXCEPT ![t] = "EOK"]
    BY <1>1, <1>2, EntersReady DEF threadVars, ThreadInv, ThreadTypeOK
  <2>2. ThreadInv'
    BY <1>1, <1>2, <2>1, LeaveKeeps, Zenon DEF threadVars
  <2> QED BY <1>1, <1>2, <2>2 DEF BaseInv, BoxInv, boxVars
<1>3. CASE /\ receivers' = ListSuspend(receivers, t, Prio)
           /\ Suspend(t, w = "timed")
           /\ call' = [call EXCEPT ![t] = [op |-> "recv", left |-> w, msg |-> None]]
           /\ UNCHANGED <<boxVars, senders, got>>
  <2>1. ThreadInv'
    BY <1>1, <1>3, WaitKeeps, Zenon
  <2> QED BY <1>1, <1>3, <2>1 DEF BaseInv, BoxInv, boxVars
<1>4. CASE /\ entry # 0
           /\ got' = pool[out] /\ out' = Advance(out) /\ entry' = entry - 1
           /\ WakeSender /\ call' = [call EXCEPT ![t] = Idle]
           /\ UNCHANGED <<pool, in, receivers>>
  <2>1. ThreadInv'
    BY <1>1, <1>4, WakeKeeps, Zenon
  <2>2. BoxInv'
    BY <1>1, <1>4, GetKeeps
  <2> QED BY <1>1, <2>1, <2>2 DEF BaseInv
<1> QED BY <1>2, <1>3, <1>4 DEF RecvSection

\* Every step of the threads, the interrupt handlers and a deletion keeps BaseInv.
LEMMA BaseStep == BaseInv /\ [Next]_vars => BaseInv'
<1> SUFFICES ASSUME BaseInv, [Next]_vars PROVE BaseInv'
  OBVIOUS
<1>1. ASSUME NEW t \in Threads, NEW w \in Waits, NEW v \in Msgs, Send(t, v, w) PROVE BaseInv'
  BY <1>1, SendSectionKeeps DEF Send, Enters
<1>2. ASSUME NEW t \in Threads, NEW w \in Waits, Recv(t, w) PROVE BaseInv'
  BY <1>2, RecvSectionKeeps DEF Recv, Enters
<1>3. ASSUME NEW t \in Threads, Fail(t) PROVE BaseInv'
  <2>1. ThreadInv'
    BY <1>3, LeaveKeeps, Zenon DEF Fail, Leave, BaseInv
  <2> QED BY <1>3, <2>1 DEF Fail, BaseInv, BoxInv, boxVars
<1>4. ASSUME NEW t \in Threads, Retry(t) PROVE BaseInv'
  <2>1. ASSUME NEW w \in Remaining(call[t].left), call[t].op = "send",
               SendSection(t, call[t].msg, w), UNCHANGED <<got, del>>
        PROVE  BaseInv'
    <3>1. w \in Waits /\ call[t].msg \in Msgs
      BY <2>1 DEF BaseInv, ThreadInv, CallInv, Remaining, Waits
    <3>2. Enters(t, "send")
      BY <1>4, <2>1 DEF Retry, Enters
    <3> QED BY <2>1, <3>1, <3>2, SendSectionKeeps
  <2>2. ASSUME NEW w \in Remaining(call[t].left), call[t].op = "recv",
               RecvSection(t, w), UNCHANGED del
        PROVE  BaseInv'
    <3>1. w \in Waits
      BY <2>2 DEF BaseInv, ThreadInv, Remaining, Waits
    <3>2. Enters(t, "recv")
      BY <1>4, <2>2 DEF Retry, Enters
    <3> QED BY <2>2, <3>1, <3>2, RecvSectionKeeps
  <2>3. CASE del' = "stale" /\ UNCHANGED <<threadVars, boxVars, receivers, senders, call, got>>
    BY <2>3
    DEF BaseInv, ThreadInv, ThreadTypeOK, CallInv, ListInv, Suspended, BoxInv, Places, threadVars, boxVars
  <2> QED BY <1>4, <2>1, <2>2, <2>3 DEF Retry
<1>5. ASSUME NEW t \in Threads, Timeout(t) PROVE BaseInv'
  BY <1>5, TimeoutKeeps DEF Timeout, BaseInv, BoxInv, boxVars
<1>6. CASE Reset
  <2>1. ThreadInv'
    BY <1>6, ResetKeeps DEF BaseInv
  <2>2. (0 + 0) % Size = 0
    BY MailboxAssumption
  <2> QED BY <1>6, <2>1, <2>2, MailboxAssumption DEF Reset, BaseInv, BoxInv
<1>7. CASE DeleteCheck \/ DeleteFree
  <2>1. del' \in Places /\ UNCHANGED <<threadVars, boxVars, receivers, senders, call, got>>
    BY <1>7 DEF DeleteCheck, DeleteFree, Places
  <2> QED BY <2>1
    DEF BaseInv, ThreadInv, ThreadTypeOK, CallInv, ListInv, Suspended, BoxInv, threadVars, boxVars
<1>8. CASE DeleteResume
  <2>1. ThreadInv'
    BY <1>8, DeleteKeeps DEF BaseInv
  <2> QED BY <1>8, <2>1 DEF DeleteResume, BaseInv, BoxInv, boxVars, Places
<1>9. CASE UNCHANGED vars
  BY <1>9 DEF vars, BaseInv, ThreadInv, ThreadTypeOK, CallInv, ListInv, Suspended, BoxInv
<1> QED BY <1>1, <1>2, <1>3, <1>4, <1>5, <1>6, <1>7, <1>8, <1>9 DEF Next

\* BaseInv is an invariant of the mailbox.
THEOREM Base == Spec => []BaseInv
BY InitBase, BaseStep, PTL DEF Spec

-----------------------------------------------------------------------------
(* The ring implements the bounded queue.                                  *)

\* The messages inside are a sequence of entry messages.
LEMMA ContentType == BoxInv => Content \in Seq(Msgs) /\ Len(Content) = entry
<1> SUFFICES ASSUME BoxInv PROVE Content \in Seq(Msgs) /\ Len(Content) = entry
  OBVIOUS
<1>1. ASSUME NEW i \in 1..entry PROVE pool[(out + i - 1) % Size] \in Msgs
  <2>1. out \in 0..(Size - 1) /\ i - 1 \in 0..Size /\ out + (i - 1) = out + i - 1
    BY MailboxAssumption DEF BoxInv
  <2>2. (out + (i - 1)) % Size \in 0..(Size - 1)
    BY <2>1, WrapOffset, MailboxAssumption
  <2> QED BY <2>1, <2>2 DEF BoxInv
<1> QED BY <1>1, MailboxAssumption DEF Content, BoxInv

\* Storing a message in the slot at in_offset appends it to the content.
LEMMA PutRefines ==
    ASSUME BoxInv, NEW v \in Msgs, entry # Size,
           pool' = [pool EXCEPT ![in] = v], in' = Advance(in), entry' = entry + 1,
           UNCHANGED <<out, got>>
    PROVE  Queue!Put(v)
<1> DEFINE q == Append(Content, v)
<1>1. Content \in Seq(Msgs) /\ Len(Content) = entry
  BY ContentType
<1>2. BoxInv'
  BY PutKeeps, Zenon
<1>3. (Content \in Seq(Msgs) /\ Len(Content) = entry)'
  BY <1>2, ContentType, PTL
<1>4. entry \in 0..(Size - 1) /\ out \in 0..(Size - 1) /\ in = (out + entry) % Size
  BY MailboxAssumption DEF BoxInv
<1>5. /\ q \in Seq(Msgs) /\ Len(q) = entry + 1 /\ q[entry + 1] = v
      /\ \A i \in 1..entry : q[i] = Content[i]
  BY <1>1, <1>4
<1> HIDE DEF q
<1>6. ASSUME NEW i \in 1..(entry + 1) PROVE Content'[i] = q[i]
  <2>1. Content'[i] = pool'[(out + i - 1) % Size]
    BY <1>4 DEF Content
  <2>2. out + (i - 1) = out + i - 1 /\ i - 1 \in 0..Size /\ entry \in 0..Size
    BY <1>4, MailboxAssumption
  <2>3. CASE i = entry + 1
    <3>1. out + i - 1 = out + entry
      BY <1>4, <2>3
    <3> QED BY <1>4, <1>5, <2>1, <2>3, <3>1 DEF BoxInv
  <2>4. CASE i # entry + 1
    <3>1. (out + (i - 1)) % Size = IF out + (i - 1) < Size THEN out + (i - 1) ELSE out + (i - 1) - Size
      BY <1>4, <2>2, WrapOffset
    <3>2. in = IF out + entry < Size THEN out + entry ELSE out + entry - Size
      BY <1>4, <2>2, WrapOffset
    <3>3. (out + (i - 1)) % Size # in /\ (out + (i - 1)) % Size \in 0..(Size - 1) /\ i \in 1..entry
      BY <1>4, <2>2, <2>4, <3>1, <3>2, MailboxAssumption
    <3>4. pool'[(out + i - 1) % Size] = pool[(out + i - 1) % Size]
      BY <2>2, <3>3 DEF BoxInv
    <3> QED BY <1>5, <2>1, <3>3, <3>4 DEF Content
  <2> QED BY <2>3, <2>4
<1>7. Content' = q
  BY <1>3, <1>4, <1>5, <1>6
<1> QED BY <1>1, <1>4, <1>7, MailboxAssumption DEF Queue!Put, q

\* Taking the message at out_offset takes the first one of the content.
LEMMA GetRefines ==
    ASSUME BoxInv, entry # 0,
           got' = pool[out], out' = Advance(out), entry' = entry - 1,
           UNCHANGED <<pool, in>>
    PROVE  Queue!Get
<1>1. Content \in Seq(Msgs) /\ Len(Content) = entry
  BY ContentType
<1>2. BoxInv'
  BY GetKeeps
<1>3. (Content \in Seq(Msgs) /\ Len(Content) = entry)'
  BY <1>2, ContentType, PTL
<1>4. entry \in 1..Size /\ out \in 0..(Size - 1)
  BY MailboxAssumption DEF BoxInv
<1>5. Head(Content) = pool[out]
  <2>1. out % Size = out /\ out + 1 - 1 = out
    BY <1>4, MailboxAssumption
  <2> QED BY <1>1, <1>4, <2>1 DEF Content
<1>6. ASSUME NEW i \in 1..(entry - 1) PROVE Content'[i] = Content[i + 1]
  <2>1. Advance(out) \in 0..(Size - 1) /\ (Advance(out) + (i - 1)) % Size = (out + i) % Size
    <3>1. i \in 1..Size
      BY <1>4, MailboxAssumption
    <3> QED BY <1>4, <3>1, ShiftOffset
  <2>2. Advance(out) + (i - 1) = Advance(out) + i - 1 /\ out + i = out + (i + 1) - 1 /\ i + 1 \in 1..entry
    BY <1>4, <2>1
  <2>3. Content'[i] = pool[(Advance(out) + i - 1) % Size]
    BY DEF Content
  <2>4. Content[i + 1] = pool[(out + (i + 1) - 1) % Size]
    BY <2>2 DEF Content
  <2> QED BY <2>1, <2>2, <2>3, <2>4
<1>7. Content' = Tail(Content)
  BY <1>1, <1>3, <1>4, <1>6
<1> QED BY <1>1, <1>4, <1>5, <1>7 DEF Queue!Get

\* Every step is an operation of the queue or leaves it alone.
LEMMA StepRefines == BaseInv /\ [Next]_vars => [Queue!Next]_<<Content, got>>
<1> SUFFICES ASSUME BaseInv, [Next]_vars PROVE [Queue!Next]_<<Content, got>>
  OBVIOUS
<1>1. BoxInv
  BY DEF BaseInv
<1>2. ASSUME UNCHANGED <<pool, out, entry, got>> PROVE UNCHANGED <<Content, got>>
  BY <1>2 DEF Content
<1>3. ASSUME NEW t \in Threads, NEW v \in Msgs, NEW w, SendSection(t, v, w), UNCHANGED got
      PROVE  [Queue!Next]_<<Content, got>>
  BY <1>1, <1>2, <1>3, PutRefines DEF SendSection, boxVars, Queue!Next
<1>4. ASSUME NEW t \in Threads, NEW w, RecvSection(t, w)
      PROVE  [Queue!Next]_<<Content, got>>
  BY <1>1, <1>2, <1>4, GetRefines DEF RecvSection, boxVars, Queue!Next
<1>5. ASSUME NEW t \in Threads, Retry(t) PROVE [Queue!Next]_<<Content, got>>
  <2>1. call[t].op = "send" => call[t].msg \in Msgs
    BY DEF BaseInv, ThreadInv, CallInv
  <2> QED BY <1>2, <1>3, <1>4, <1>5, <2>1 DEF Retry, boxVars
<1>6. CASE Reset
  <2>1. entry' = 0 /\ got' = got
    BY <1>6 DEF Reset
  <2>2. Content' = <<>>
    BY <2>1 DEF Content
  <2> QED BY <2>1, <2>2 DEF Queue!Next, Queue!Clear
<1>7. CASE UNCHANGED vars
  BY <1>2, <1>7 DEF vars
<1>8. CASE DeleteCheck \/ DeleteResume \/ DeleteFree
  BY <1>2, <1>8 DEF DeleteCheck, DeleteResume, DeleteFree, boxVars
<1>9. ASSUME NEW t \in Threads, Fail(t) \/ Timeout(t) PROVE [Queue!Next]_<<Content, got>>
  BY <1>2, <1>9 DEF Fail, Timeout, boxVars
<1>10. ASSUME NEW t \in Threads, NEW w \in Waits, Recv(t, w) PROVE [Queue!Next]_<<Content, got>>
  BY <1>4, <1>10 DEF Recv
<1>11. ASSUME NEW t \in Threads, NEW w \in Waits, NEW v \in Msgs, Send(t, v, w)
       PROVE  [Queue!Next]_<<Content, got>>
  BY <1>3, <1>11 DEF Send
<1> QED BY <1>5, <1>6, <1>7, <1>8, <1>9, <1>10, <1>11 DEF Next

\* rt_mb_send_wait, rt_mb_recv and rt_mb_control implement a bounded FIFO queue with atomic
\* operations: for any size, any threads and any priorities no message is lost, repeated or
\* overtaken at the wrap of the offsets or across blocking.
THEOREM MailboxIsQueue == Spec => IsQueue
<1>1. Init => Queue!Init
  <2> SUFFICES ASSUME Init PROVE Queue!Init
    OBVIOUS
  <2>1. entry = 0 /\ got \in Msgs
    BY DEF Init
  <2>2. Content = <<>>
    BY <2>1 DEF Content
  <2> QED BY <2>1, <2>2 DEF Queue!Init
<1> QED BY <1>1, StepRefines, Base, PTL DEF Spec, IsQueue, Queue!Spec

-----------------------------------------------------------------------------
(* Nobody is forgotten.                                                    *)

INSTANCE FiniteSetTheorems

\* The woken threads can be counted, and the count moves by one with one thread.
LEMMA WokenCount ==
    ASSUME NEW S \in SUBSET Threads, NEW x \in Threads
    PROVE  /\ Cardinality(S) \in Nat
           /\ x \notin S => Cardinality(S \cup {x}) = Cardinality(S) + 1
           /\ Cardinality(S \ {x}) >= Cardinality(S) - 1
<1>1. IsFiniteSet(S)
  BY FS_Subset, MailboxAssumption
<1>2. Cardinality(S) \in Nat
  BY <1>1, FS_CardinalityType
<1>3. x \notin S => Cardinality(S \cup {x}) = Cardinality(S) + 1
  BY <1>1, FS_AddElement
<1>4. Cardinality(S \ {x}) = IF x \in S THEN Cardinality(S) - 1 ELSE Cardinality(S)
  BY <1>1, FS_RemoveElement
<1> QED BY <1>2, <1>3, <1>4

\* Waking the first of a list, if there is one, adds it to the woken threads of its kind;
\* the thread t that wakes it, which ends a call of another kind, is in no count any more.
LEMMA WakeCounts ==
    ASSUME ThreadInv, NEW t \in Threads, NEW list \in Seq(Threads),
           NEW op \in {"send", "recv"}, NEW other \in {"send", "recv"}, op # other,
           Enters(t, other), Distinct(list), Members(list) = Suspended(op),
           ResumeFirst(list), call' = [call EXCEPT ![t] = Idle]
    PROVE  /\ Woken(other)' = Woken(other) \ {t}
           /\ list # <<>> => /\ Woken(op)' = Woken(op) \cup {Head(list)}
                            /\ Head(list) \in Threads /\ Head(list) \notin Woken(op)
<1>1. stat[t] = "ready" /\ error[t] = "EOK"
  BY EntersReady, Zenon DEF ThreadInv, CallInv
<1>2. call[t].op # op /\ call'[t].op = "idle" /\ \A u \in Threads \ {t} : call'[u] = call[u]
  <2>1. call[t].op # op
    <3>1. Idle.op = "idle"
      BY DEF Idle
    <3> QED BY <3>1 DEF Enters
  <2>2. call'[t] = Idle /\ \A u \in Threads \ {t} : call'[u] = call[u]
    BY DEF ThreadInv
  <2> QED BY <2>1, <2>2 DEF Idle
<1>3. CASE list = <<>>
  BY <1>2, <1>3 DEF ResumeFirst, threadVars, Woken
<1>4. CASE list # <<>>
  <2> DEFINE h == Head(list)
  <2>1. h \in Suspended(op) /\ h \in Threads
    BY <1>4, ListTailProperties
  <2>2. h # t /\ call[h].op = op /\ error[h] = "EOK" /\ stat[h] = "suspend"
    BY <1>1, <2>1, Zenon DEF Suspended, ThreadInv, CallInv
  <2>3. stat' = [stat EXCEPT ![h] = "ready"] /\ error' = error
    BY <1>4 DEF ResumeFirst, Resume
  <2> HIDE DEF h
  <2>4. stat'[h] = "ready" /\ \A u \in Threads \ {h} : stat'[u] = stat[u]
    BY <2>1, <2>3 DEF ThreadInv, ThreadTypeOK
  <2>5. Woken(other)' = Woken(other) \ {t}
    BY <1>2, <2>2, <2>3, <2>4 DEF Woken
  <2>6. Woken(op)' = Woken(op) \cup {h} /\ h \notin Woken(op)
    BY <1>2, <2>1, <2>2, <2>3, <2>4 DEF Woken
  <2> QED BY <2>1, <2>5, <2>6 DEF h
<1> QED BY <1>3, <1>4

\* Both halves of the promise.
Remembered == NoReceiverForgotten /\ NoSenderForgotten

\* One thread t changes and is woken in no call before or after: the counts stay.
LEMMA SameWoken ==
    ASSUME NEW t \in Threads, NEW op,
           \A u \in Threads \ {t} : call'[u] = call[u] /\ stat'[u] = stat[u] /\ error'[u] = error[u],
           t \notin Woken(op), t \notin Woken(op)'
    PROVE  Woken(op)' = Woken(op)
BY DEF Woken

\* A send stores a message and wakes a receiver for it, or finds no slot to wake a sender for.
LEMMA SendRemembers ==
    ASSUME BaseInv, Remembered, NEW t \in Threads, NEW v, NEW w, Enters(t, "send"),
           SendSection(t, v, w)
    PROVE  Remembered'
<1>1. ThreadInv /\ entry \in 0..Size /\ Size \in Nat
  BY MailboxAssumption DEF BaseInv, BoxInv
<1>2. Cardinality(Woken("send")) \in Nat /\ Cardinality(Woken("recv")) \in Nat
  BY WokenCount, Zenon DEF Woken
<1>3. Cardinality(Woken("send")') \in Nat
  BY WokenCount, Zenon DEF Woken
<1>4. CASE entry = Size /\ entry' = entry /\ receivers' = receivers /\ Woken("recv")' = Woken("recv")
  BY <1>1, <1>3, <1>4 DEF Remembered, NoReceiverForgotten, NoSenderForgotten
<1>5. ASSUME entry = Size, UNCHANGED <<entry, receivers>>,
             \/ call' = [call EXCEPT ![t] = Idle] /\ UNCHANGED threadVars
             \/ /\ call' = [call EXCEPT ![t] = [op |-> "send", left |-> w, msg |-> v]]
                /\ Suspend(t, w = "timed")
      PROVE  Remembered'
  <2>1. call[t].op # "recv" /\ call'[t].op # "recv"
    <3>1. Idle.op = "idle"
      BY DEF Idle
    <3>2. call[t].op # "recv"
      BY <3>1 DEF Enters
    <3>3. call'[t] = Idle \/ call'[t] = [op |-> "send", left |-> w, msg |-> v]
      BY <1>1, <1>5, Zenon DEF ThreadInv
    <3>4. [op |-> "send", left |-> w, msg |-> v].op = "send"
      OBVIOUS
    <3> QED BY <3>1, <3>2, <3>3, <3>4, Zenon
  <2>2. \A u \in Threads \ {t} : call'[u] = call[u] /\ stat'[u] = stat[u] /\ error'[u] = error[u]
    BY <1>1, <1>5, Zenon DEF ThreadInv, ThreadTypeOK, Suspend, threadVars
  <2>3. Woken("recv")' = Woken("recv")
    <3>1. t \notin Woken("recv") /\ t \notin Woken("recv")'
      BY <2>1, Zenon DEF Woken
    <3> QED BY <2>2, <3>1, SameWoken, Zenon
  <2> QED BY <1>4, <1>5, <2>3
<1>6. CASE /\ entry # Size /\ entry' = entry + 1 /\ WakeReceiver
           /\ call' = [call EXCEPT ![t] = Idle] /\ UNCHANGED senders
  <2>1. /\ Woken("send")' = Woken("send") \ {t}
        /\ receivers # <<>> => /\ Woken("recv")' = Woken("recv") \cup {Head(receivers)}
                              /\ Head(receivers) \in Threads /\ Head(receivers) \notin Woken("recv")
    BY <1>1, <1>6, WakeCounts, Zenon DEF WakeReceiver, ThreadInv, ListInv
  <2>2. Cardinality(Woken("send") \ {t}) >= Cardinality(Woken("send")) - 1
    BY WokenCount, Zenon DEF Woken
  <2>3. NoSenderForgotten'
    <3> DEFINE c == Cardinality(Woken("send"))
    <3>1. c' >= c - 1
      BY <2>1, <2>2, Zenon
    <3>2. c \in Nat /\ c' \in Nat /\ (senders # <<>> => Size - entry <= c)
      BY <1>2, <1>3 DEF Remembered, NoSenderForgotten
    <3> HIDE DEF c
    <3>3. senders' # <<>> => (Size - entry)' <= c'
      BY <1>1, <1>6, <3>1, <3>2
    <3> QED BY <3>3 DEF NoSenderForgotten, c
  <2>4. CASE receivers = <<>>
    BY <1>6, <2>3, <2>4 DEF WakeReceiver, Rest, Remembered, NoReceiverForgotten
  <2>5. CASE receivers # <<>>
    <3> DEFINE c == Cardinality(Woken("recv"))
    <3>1. Cardinality(Woken("recv") \cup {Head(receivers)}) = c + 1
      BY <2>1, <2>5, WokenCount, Zenon DEF Woken
    <3>2. c' = c + 1
      BY <2>1, <2>5, <3>1, Zenon
    <3>3. c \in Nat /\ entry <= c
      BY <1>2, <2>5 DEF Remembered, NoReceiverForgotten
    <3> HIDE DEF c
    <3>4. (entry)' <= c'
      BY <1>1, <1>6, <3>2, <3>3
    <3> QED BY <2>3, <3>4 DEF Remembered, NoReceiverForgotten, c
  <2> QED BY <2>4, <2>5
<1> QED BY <1>5, <1>6 DEF SendSection, boxVars

\* A receive frees a slot and wakes a sender for it, or finds no message to wake a receiver for.
LEMMA RecvRemembers ==
    ASSUME BaseInv, Remembered, NEW t \in Threads, NEW w, Enters(t, "recv"), RecvSection(t, w)
    PROVE  Remembered'
<1>1. ThreadInv /\ entry \in 0..Size /\ Size \in Nat
  BY MailboxAssumption DEF BaseInv, BoxInv
<1>2. Cardinality(Woken("send")) \in Nat /\ Cardinality(Woken("recv")) \in Nat
  BY WokenCount, Zenon DEF Woken
<1>3. Cardinality(Woken("recv")') \in Nat
  BY WokenCount, Zenon DEF Woken
<1>4. CASE entry = 0 /\ entry' = entry /\ senders' = senders /\ Woken("send")' = Woken("send")
  BY <1>1, <1>3, <1>4 DEF Remembered, NoReceiverForgotten, NoSenderForgotten
<1>5. ASSUME entry = 0, UNCHANGED <<entry, senders>>,
             \/ call' = [call EXCEPT ![t] = Idle] /\ UNCHANGED threadVars
             \/ /\ call' = [call EXCEPT ![t] = [op |-> "recv", left |-> w, msg |-> None]]
                /\ Suspend(t, w = "timed")
      PROVE  Remembered'
  <2>1. call[t].op # "send" /\ call'[t].op # "send"
    <3>1. Idle.op = "idle"
      BY DEF Idle
    <3>2. call[t].op # "send"
      BY <3>1 DEF Enters
    <3>3. call'[t] = Idle \/ call'[t] = [op |-> "recv", left |-> w, msg |-> None]
      BY <1>1, <1>5 DEF ThreadInv
    <3>4. [op |-> "recv", left |-> w, msg |-> None].op = "recv"
      OBVIOUS
    <3> QED BY <3>1, <3>2, <3>3, <3>4, Zenon
  <2>2. \A u \in Threads \ {t} : call'[u] = call[u] /\ stat'[u] = stat[u] /\ error'[u] = error[u]
    BY <1>1, <1>5, Zenon DEF ThreadInv, ThreadTypeOK, Suspend, threadVars
  <2>3. Woken("send")' = Woken("send")
    <3>1. t \notin Woken("send") /\ t \notin Woken("send")'
      BY <2>1, Zenon DEF Woken
    <3> QED BY <2>2, <3>1, SameWoken, Zenon
  <2> QED BY <1>4, <1>5, <2>3
<1>6. CASE /\ entry # 0 /\ entry' = entry - 1 /\ WakeSender
           /\ call' = [call EXCEPT ![t] = Idle] /\ UNCHANGED receivers
  <2>1. /\ Woken("recv")' = Woken("recv") \ {t}
        /\ senders # <<>> => /\ Woken("send")' = Woken("send") \cup {Head(senders)}
                            /\ Head(senders) \in Threads /\ Head(senders) \notin Woken("send")
    BY <1>1, <1>6, WakeCounts, Zenon DEF WakeSender, ThreadInv, ListInv
  <2>2. Cardinality(Woken("recv") \ {t}) >= Cardinality(Woken("recv")) - 1
    BY WokenCount, Zenon DEF Woken
  <2>3. NoReceiverForgotten'
    <3> DEFINE c == Cardinality(Woken("recv"))
    <3>1. c' >= c - 1
      BY <2>1, <2>2, Zenon
    <3>2. c \in Nat /\ c' \in Nat /\ (receivers # <<>> => entry <= c)
      BY <1>2, <1>3 DEF Remembered, NoReceiverForgotten
    <3> HIDE DEF c
    <3>3. receivers' # <<>> => (entry)' <= c'
      BY <1>1, <1>6, <3>1, <3>2
    <3> QED BY <3>3 DEF NoReceiverForgotten, c
  <2>4. CASE senders = <<>>
    BY <1>6, <2>3, <2>4 DEF WakeSender, Rest, Remembered, NoSenderForgotten
  <2>5. CASE senders # <<>>
    <3> DEFINE c == Cardinality(Woken("send"))
    <3>1. Cardinality(Woken("send") \cup {Head(senders)}) = c + 1
      BY <2>1, <2>5, WokenCount, Zenon DEF Woken
    <3>2. c' = c + 1
      BY <2>1, <2>5, <3>1, Zenon
    <3>3. c \in Nat /\ Size - entry <= c
      BY <1>2, <2>5 DEF Remembered, NoSenderForgotten
    <3> HIDE DEF c
    <3>4. (Size - entry)' <= c'
      BY <1>1, <1>6, <3>2, <3>3
    <3> QED BY <2>3, <3>4 DEF Remembered, NoSenderForgotten, c
  <2> QED BY <2>4, <2>5
<1> QED BY <1>5, <1>6 DEF RecvSection, boxVars

\* Threads leave the lists without a wakeup only by a timeout or a deletion, whose threads
\* no count holds: the counts stay and the lists can only have become empty.
LEMMA LeaveRemembers ==
    ASSUME Remembered, entry' = entry,
           Woken("recv")' = Woken("recv"), Woken("send")' = Woken("send"),
           receivers = <<>> => receivers' = <<>>, senders = <<>> => senders' = <<>>
    PROVE  Remembered'
BY DEF Remembered, NoReceiverForgotten, NoSenderForgotten

\* Every step keeps both halves of the promise.
LEMMA RememberedStep == BaseInv /\ Remembered /\ [Next]_vars => Remembered'
<1> SUFFICES ASSUME BaseInv, Remembered, [Next]_vars PROVE Remembered'
  OBVIOUS
<1>1. ASSUME NEW t \in Threads, NEW w \in Waits, NEW v \in Msgs, Send(t, v, w) PROVE Remembered'
  BY <1>1, SendRemembers DEF Send, Enters
<1>2. ASSUME NEW t \in Threads, NEW w \in Waits, Recv(t, w) PROVE Remembered'
  BY <1>2, RecvRemembers DEF Recv, Enters
<1>3. ASSUME NEW t \in Threads, Fail(t) PROVE Remembered'
  <2>1. \A u \in Threads \ {t} : call'[u] = call[u] /\ stat'[u] = stat[u] /\ error'[u] = error[u]
    BY <1>3 DEF Fail, Leave, BaseInv, ThreadInv, ThreadTypeOK
  <2>2. error[t] # "EOK" /\ call'[t].op = "idle"
    BY <1>3 DEF Fail, Idle, BaseInv, ThreadInv
  <2>3. ASSUME NEW op \in {"send", "recv"} PROVE t \notin Woken(op) /\ t \notin Woken(op)'
    BY <2>2 DEF Woken
  <2>4. Woken("recv")' = Woken("recv") /\ Woken("send")' = Woken("send")
    BY <2>1, <2>3, SameWoken
  <2> QED BY <1>3, <2>4, LeaveRemembers DEF Fail, boxVars
<1>4. ASSUME NEW t \in Threads, Retry(t) PROVE Remembered'
  <2>1. CASE call[t].op = "send" /\ \E w \in Remaining(call[t].left) : SendSection(t, call[t].msg, w)
    BY <1>4, <2>1, SendRemembers, Zenon DEF Retry, Enters
  <2>2. CASE call[t].op = "recv" /\ \E w \in Remaining(call[t].left) : RecvSection(t, w)
    BY <1>4, <2>2, RecvRemembers DEF Retry, Enters
  <2>3. CASE UNCHANGED <<threadVars, boxVars, receivers, senders, call>>
    BY <2>3 DEF Remembered, NoReceiverForgotten, NoSenderForgotten, Woken, threadVars, boxVars
  <2> QED BY <1>4, <2>1, <2>2, <2>3, Zenon DEF Retry
<1>5. ASSUME NEW t \in Threads, Timeout(t) PROVE Remembered'
  <2>1. \A u \in Threads \ {t} : call'[u] = call[u] /\ stat'[u] = stat[u] /\ error'[u] = error[u]
    BY <1>5 DEF Timeout, ThreadTimeout, BaseInv, ThreadInv, ThreadTypeOK
  <2>2. stat[t] = "suspend" /\ error'[t] = "ETIMEOUT"
    BY <1>5 DEF Timeout, ThreadTimeout, BaseInv, ThreadInv, ThreadTypeOK, CallInv
  <2>3. Woken("recv")' = Woken("recv") /\ Woken("send")' = Woken("send")
    <3>1. \A op \in {"recv", "send"} : t \notin Woken(op) /\ t \notin Woken(op)'
      BY <2>2, Zenon DEF Woken
    <3>2. \A op \in {"recv", "send"} : Woken(op)' = Woken(op)
      BY <2>1, <3>1, SameWoken, Zenon
    <3> QED BY <3>2, Zenon
  <2>4. IF call[t].op = "recv" THEN receivers # <<>> ELSE senders # <<>>
    <3>1. IF call[t].op = "recv" THEN t \in Members(receivers) ELSE t \in Members(senders)
      BY <2>2, Zenon DEF BaseInv, ThreadInv, CallInv, ListInv, Suspended
    <3> QED BY <3>1, EmptyListProperties
  <2> QED BY <1>5, <2>3, <2>4, LeaveRemembers DEF Timeout, boxVars
<1>6. CASE Reset
  BY <1>6 DEF Reset, Remembered, NoReceiverForgotten, NoSenderForgotten
<1>7. CASE DeleteCheck \/ DeleteFree \/ UNCHANGED vars
  BY <1>7, Zenon
  DEF DeleteCheck, DeleteFree, vars, Remembered, NoReceiverForgotten, NoSenderForgotten, Woken,
      threadVars, boxVars
<1>8. CASE DeleteResume
  <2>1. ASSUME NEW h \in Threads, stat[h] = "suspend", ResumeError({h}), UNCHANGED call
        PROVE  Woken("recv")' = Woken("recv") /\ Woken("send")' = Woken("send")
    <3>1. \A u \in Threads \ {h} : call'[u] = call[u] /\ stat'[u] = stat[u] /\ error'[u] = error[u]
      BY <2>1 DEF ResumeError
    <3>2. error'[h] = "ERROR"
      BY <2>1 DEF ResumeError
    <3>3. \A op \in {"recv", "send"} : h \notin Woken(op) /\ h \notin Woken(op)'
      BY <2>1, <3>2, Zenon DEF Woken
    <3>4. \A op \in {"recv", "send"} : Woken(op)' = Woken(op)
      BY <3>1, <3>3, SameWoken, Zenon
    <3> QED BY <3>4, Zenon
  <2>2. ASSUME NEW list \in {receivers, senders}, list # <<>>
        PROVE  Head(list) \in Threads /\ stat[Head(list)] = "suspend"
    BY <2>2, ListTailProperties DEF BaseInv, ThreadInv, ListInv, Suspended
  <2>3. CASE receivers # <<>> /\ ResumeError({Head(receivers)}) /\ UNCHANGED senders
    BY <1>8, <2>1, <2>2, <2>3, LeaveRemembers DEF DeleteResume, boxVars
  <2>4. CASE senders # <<>> /\ ResumeError({Head(senders)}) /\ UNCHANGED receivers
    BY <1>8, <2>1, <2>2, <2>4, LeaveRemembers DEF DeleteResume, boxVars
  <2>5. CASE UNCHANGED <<threadVars, receivers, senders>>
    BY <1>8, <2>5
    DEF DeleteResume, Remembered, NoReceiverForgotten, NoSenderForgotten, Woken, threadVars, boxVars
  <2> QED BY <1>8, <2>3, <2>4, <2>5 DEF DeleteResume
<1> QED BY <1>1, <1>2, <1>3, <1>4, <1>5, <1>6, <1>7, <1>8 DEF Next

\* No lost wakeup in rt_mb_send_wait and rt_mb_recv: for any number of threads, with timeouts,
\* resets and a deletion at any moment, a thread stays suspended only while every message (or
\* slot) it could have has a woken thread on its way to it.
THEOREM NobodyForgotten == Spec => []NoneForgotten
<1>1. Init => Remembered
  BY DEF Init, Remembered, NoReceiverForgotten, NoSenderForgotten
<1>2. BaseInv /\ Remembered => NoneForgotten
  BY BaseType DEF Remembered, NoneForgotten
<1> QED BY <1>1, <1>2, RememberedStep, Base, PTL DEF Spec

=============================================================================
