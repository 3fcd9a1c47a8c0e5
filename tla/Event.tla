------------------------------- MODULE Event -------------------------------
(***************************************************************************)
(* The event object of ipc.c: rt_event_send, rt_event_recv with the        *)
(* options AND, OR and CLEAR, rt_event_control(RESET) and                  *)
(* rt_event_delete/rt_event_detach.  A set of event bits is a TLA+ set.    *)
(***************************************************************************)
EXTENDS IpcThread, FiniteSets

CONSTANTS Prio,       \* thread->current_priority
          Bits,       \* the event bits in use, at most 32
          MaxSent,    \* bound: how often a bit is sent in a behaviour
          Deletable   \* whether some thread deletes the event

ASSUME EventAssumption ==
    Prio \in [Threads -> Nat] /\ MaxSent \in Nat /\ Deletable \in BOOLEAN

VARIABLES set,        \* event->set
          list,       \* event->parent.suspend_thread
          call,       \* the rt_event_recv the thread waits in, with event_info
                      \* (and, clear) and event_set (eset); ask is its argument
          del,        \* where rt_event_delete is
          sent,       \* history: how often a bit was sent
          cleared     \* history: how often a bit was returned by a receive that
                      \* clears

vars == <<stat, error, timer, set, list, call, del, sent, cleared>>

Sets == SUBSET Bits \ {{}}
\* AND differs from OR for two bits or more.
Options(ask) == {and \in BOOLEAN : and => Cardinality(ask) > 1}
Calls == [op : {"recv"}, ask : Sets, eset : SUBSET Bits, and : BOOLEAN, clear : BOOLEAN]
Idle == [op |-> "idle"]

TypeOK ==
    /\ ThreadTypeOK
    /\ set \subseteq Bits
    /\ list \in Seq(Threads)
    /\ call \in [Threads -> Calls \cup {Idle}]
    /\ del \in {"none", "check", "resume", "free", "gone", "fault"}
    /\ sent \in [Bits -> 0..MaxSent] /\ cleared \in [Bits -> 0..MaxSent]

\* rt_event_init, rt_event_create.
Init ==
    /\ ThreadInit
    /\ set = {} /\ list = <<>>
    /\ call = [t \in Threads |-> Idle]
    /\ del = "none"
    /\ sent = [b \in Bits |-> 0] /\ cleared = [b \in Bits |-> 0]

Running == del # "fault"
Live == Running /\ del # "gone"

Count(f, s) == [b \in Bits |-> IF b \in s THEN f[b] + 1 ELSE f[b]]

Satisfied(ask, and, present) ==
    IF and THEN ask \subseteq present ELSE ask \cap present # {}

\* rt_event_recv(event, ask, option, timeout): the bits are there ...
RecvNow(t, ask, and, clear) ==
    /\ Live /\ call[t] = Idle /\ Satisfied(ask, and, set)
    /\ set' = IF clear THEN set \ ask ELSE set
    /\ cleared' = IF clear THEN Count(cleared, ask \cap set) ELSE cleared
    /\ UNCHANGED <<threadVars, list, call, del, sent>>

\* ... or not, and timeout is 0 ...
RecvFails(t, ask, and) ==
    /\ Live /\ call[t] = Idle /\ ~ Satisfied(ask, and, set)
    /\ UNCHANGED vars

\* ... or the thread waits.
RecvWaits(t, ask, and, clear, timed) ==
    /\ Live /\ call[t] = Idle /\ ~ Satisfied(ask, and, set)
    /\ call' = [call EXCEPT ![t] =
                  [op |-> "recv", ask |-> ask, eset |-> ask, and |-> and, clear |-> clear]]
    /\ list' = ListSuspend(list, t, Prio)
    /\ Suspend(t, timed)
    /\ UNCHANGED <<set, del, sent, cleared>>

\* The thread runs again and returns thread->error, with *recved = event_set.
Return(t) ==
    /\ Running /\ call[t] # Idle /\ Leave(t)
    /\ call' = [call EXCEPT ![t] = Idle]
    /\ cleared' = IF error[t] = "EOK" /\ call[t].clear
                  THEN Count(cleared, call[t].eset) ELSE cleared
    /\ UNCHANGED <<set, list, del, sent>>

\* Mutant: the walk stops at the first waiter it can resume.
WalkStep_FirstOnly(w, t) ==
    LET c == call[t]
        e == IF c.and THEN c.eset ELSE c.eset \cap w.set
    IN  IF ~ Satisfied(c.eset, c.and, w.set) \/ w.woken # {} THEN w
        ELSE [set |-> IF c.clear THEN w.set \ e ELSE w.set,
              woken |-> w.woken \cup {t}, eset |-> [w.eset EXCEPT ![t] = e]]

\* Mutant: the bits a CLEAR waiter takes stay in the set.
WalkStep_NoClear(w, t) ==
    LET c == call[t]
        e == IF c.and THEN c.eset ELSE c.eset \cap w.set
    IN  IF ~ Satisfied(c.eset, c.and, w.set) THEN w
        ELSE [w EXCEPT !.woken = @ \cup {t}, !.eset[t] = e]

\* Mutant: an OR waiter does not save the bits it found.
WalkStep_KeepsAsk(w, t) ==
    LET c == call[t]
    IN  IF ~ Satisfied(c.eset, c.and, w.set) THEN w
        ELSE [set |-> IF c.clear THEN w.set \ c.eset ELSE w.set,
              woken |-> w.woken \cup {t}, eset |-> [w.eset EXCEPT ![t] = c.eset]]

\* One waiter t of the walk of rt_event_send: it tests the set its predecessors
\* left; an OR waiter saves the bits it found in event_set, a CLEAR waiter
\* takes its event_set out of the set.
WalkStep(w, t) ==
    LET c == call[t]
        e == IF c.and THEN c.eset ELSE c.eset \cap w.set
    IN  IF ~ Satisfied(c.eset, c.and, w.set) THEN w
        ELSE [set |-> IF c.clear THEN w.set \ e ELSE w.set,
              woken |-> w.woken \cup {t}, eset |-> [w.eset EXCEPT ![t] = e]]

\* The walk over the waiters, in list order.
Walk(s) ==
    LET step[i \in 0..Len(list)] ==
          IF i = 0 THEN [set |-> set \cup s, woken |-> {}, eset |-> [t \in Threads |-> {}]]
          ELSE WalkStep(step[i - 1], list[i])
    IN  step[Len(list)]

\* rt_event_send(event, s).
Send(s) ==
    /\ Live /\ \A b \in s : sent[b] < MaxSent
    /\ LET w == Walk(s)
       IN  /\ set' = w.set
           /\ list' = SelectSeq(list, LAMBDA t : t \notin w.woken)
           /\ call' = [t \in Threads |->
                         IF t \in w.woken THEN [call[t] EXCEPT !.eset = w.eset[t]] ELSE call[t]]
           /\ stat' = [t \in Threads |-> IF t \in w.woken THEN "ready" ELSE stat[t]]
           /\ timer' = [t \in Threads |-> timer[t] /\ t \notin w.woken]
    /\ sent' = Count(sent, s)
    /\ UNCHANGED <<error, del, cleared>>

\* The tick interrupt finds the timer of a waiting thread due.
Timeout(t) ==
    /\ Running
    /\ ThreadTimeout(t)
    /\ list' = ListRemove(list, t)
    /\ UNCHANGED <<set, call, del, sent, cleared>>

\* rt_event_control(RT_IPC_CMD_RESET).
Reset ==
    /\ Live
    /\ ResumeError(Members(list))
    /\ list' = <<>> /\ set' = {}
    /\ UNCHANGED <<call, del, sent, cleared>>

\* rt_event_delete, rt_event_detach, with the loop of rt_ipc_list_resume_all.
DeleteCheck ==
    /\ Deletable /\ del \in {"none", "check"}
    /\ del' = IF list = <<>> THEN "free" ELSE "resume"
    /\ UNCHANGED <<threadVars, set, list, call, sent, cleared>>

DeleteResume ==
    /\ del = "resume"
    /\ \/ /\ list # <<>>
          /\ ResumeError({Head(list)})
          /\ list' = Tail(list)
          /\ del' = "check"
       \/ /\ list = <<>>
          /\ del' = "fault"
          /\ UNCHANGED <<threadVars, list>>
    /\ UNCHANGED <<set, call, sent, cleared>>

DeleteFree ==
    /\ del = "free"
    /\ del' = "gone"
    /\ UNCHANGED <<threadVars, set, list, call, sent, cleared>>

Next ==
    \/ \E t \in Threads :
          \/ \E ask \in Sets : \E and \in Options(ask) :
                \/ RecvFails(t, ask, and)
                \/ \E clear \in BOOLEAN :
                      \/ RecvNow(t, ask, and, clear)
                      \/ \E timed \in BOOLEAN : RecvWaits(t, ask, and, clear, timed)
          \/ Return(t) \/ Timeout(t)
    \/ \E s \in Sets : Send(s)
    \/ Reset
    \/ DeleteCheck \/ DeleteResume \/ DeleteFree

Spec == Init /\ [][Next]_vars

-----------------------------------------------------------------------------

Woken(t) == call[t] # Idle /\ stat[t] = "ready" /\ error[t] = "EOK"

\* No lost wakeup: no thread stays suspended for an event that has happened.  The
\* walk of rt_event_send passes each waiter once, while the waiters before it
\* change the set, and needs no second pass.
NoSatisfiedWaiter ==
    /\ TypeOK
    /\ \A t \in Members(list) : ~ Satisfied(call[t].eset, call[t].and, set)

\* A receive that clears consumes: one send of a bit satisfies at most one such
\* receive, however many wait for it; a bit still set, and a bit on its way to a
\* woken thread, count.
ClearedOnce ==
    \A b \in Bits :
        sent[b] >= cleared[b] + (IF b \in set THEN 1 ELSE 0)
                   + Cardinality({t \in Threads : Woken(t) /\ call[t].clear /\ b \in call[t].eset})

\* *recved of a woken receive: all bits asked for with AND, some of them with OR,
\* never a bit that was not sent.
ReportsWhatWasSent ==
    \A t \in Threads : Woken(t) =>
        /\ Satisfied(call[t].ask, call[t].and, call[t].eset)
        /\ call[t].eset \subseteq call[t].ask
        /\ \A b \in call[t].eset : sent[b] > 0

=============================================================================
