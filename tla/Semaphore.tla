----------------------------- MODULE Semaphore -----------------------------
(***************************************************************************)
(* The counting semaphore of ipc.c: rt_sem_take, rt_sem_release,           *)
(* rt_sem_control(RESET) and rt_sem_delete/rt_sem_detach, called by threads *)
(* and interrupt handlers, with the thread timers of the waiting threads.  *)
(***************************************************************************)
EXTENDS IpcThread, FiniteSets

CONSTANTS Prio,       \* thread->current_priority, smaller is more urgent
          InitValue,  \* the value given to rt_sem_init
          ValueMax,   \* largest rt_uint16_t (65535 on the target)
          MaxIssued,  \* bound: tokens put into the semaphore in a behaviour
          Deletable   \* whether some thread deletes the semaphore

ASSUME SemAssumption ==
    /\ Prio \in [Threads -> Nat]
    /\ ValueMax \in Nat /\ InitValue \in 0..ValueMax
    /\ MaxIssued \in Nat /\ Deletable \in BOOLEAN

VARIABLES value,      \* sem->value
          list,       \* sem->parent.suspend_thread
          pc,         \* "take": thread is in rt_sem_take, past its first section
          del,        \* where rt_sem_delete is
          issued,     \* history: tokens put in, by Init, releases and resets
          acquired    \* history: calls of rt_sem_take that returned RT_EOK

vars == <<stat, error, timer, value, list, pc, del, issued, acquired>>

TypeOK ==
    /\ ThreadTypeOK
    /\ value \in 0..ValueMax
    /\ list \in Seq(Threads)
    /\ pc \in [Threads -> {"idle", "take"}]
    /\ del \in {"none", "check", "resume", "free", "gone", "fault"}
    /\ issued \in Int /\ acquired \in Nat

Init ==
    /\ ThreadInit
    /\ value = InitValue
    /\ list = <<>>
    /\ pc = [t \in Threads |-> "idle"]
    /\ del = "none"
    /\ issued = InitValue /\ acquired = 0

\* The object exists; after "fault" the kernel has stopped in an assertion.
Live == del \notin {"gone", "fault"}
Running == del # "fault"

Available == value > 0

\* rt_sem_take(sem, time); wait is "no" (0), "timed" (> 0) or "forever" (-1).
Take(t, wait) ==
    /\ Live /\ pc[t] = "idle"
    /\ \/ /\ Available
          /\ value' = value - 1
          /\ acquired' = acquired + 1
          /\ UNCHANGED <<threadVars, list, pc>>
       \/ /\ ~ Available /\ wait = "no"
          /\ UNCHANGED <<threadVars, value, list, pc, acquired>>
       \/ /\ ~ Available /\ wait # "no"
          /\ list' = ListSuspend(list, t, Prio)
          /\ Suspend(t, wait = "timed")
          /\ pc' = [pc EXCEPT ![t] = "take"]
          /\ UNCHANGED <<value, acquired>>
    /\ UNCHANGED <<del, issued>>

\* The thread runs again after rt_schedule() and returns thread->error.
Return(t) ==
    /\ Running /\ pc[t] = "take" /\ Leave(t)
    /\ pc' = [pc EXCEPT ![t] = "idle"]
    /\ acquired' = acquired + (IF error[t] = "EOK" THEN 1 ELSE 0)
    /\ UNCHANGED <<value, list, del, issued>>

\* rt_sem_release: a token for the first waiter, or value ++ in 16 bits.
Release ==
    /\ Live /\ issued < MaxIssued
    /\ issued' = issued + 1
    /\ \/ /\ list # <<>>
          /\ Resume(Head(list))
          /\ list' = Tail(list)
          /\ UNCHANGED value
       \/ /\ list = <<>>
          /\ value' = (value + 1) % (ValueMax + 1)
          /\ UNCHANGED <<threadVars, list>>
    /\ UNCHANGED <<pc, del, acquired>>

\* Mutant: the reset forgets rt_ipc_list_resume_all.
Reset_KeepsWaiters(v) ==
    /\ Live /\ issued + v - value <= MaxIssued
    /\ value' = v
    /\ issued' = issued + v - value
    /\ UNCHANGED <<threadVars, list, pc, del, acquired>>

\* rt_sem_control(RT_IPC_CMD_RESET, v): all waiters fail, then the value is set.
Reset(v) ==
    /\ Live /\ issued + v - value <= MaxIssued
    /\ ResumeError(Members(list))
    /\ list' = <<>>
    /\ value' = v
    /\ issued' = issued + v - value
    /\ UNCHANGED <<pc, del, acquired>>

\* The tick interrupt finds the timer of a waiting thread due.
Timeout(t) ==
    /\ Running
    /\ ThreadTimeout(t)
    /\ list' = ListRemove(list, t)
    /\ UNCHANGED <<value, pc, del, issued, acquired>>

\* rt_sem_delete, rt_sem_detach: the loop of rt_ipc_list_resume_all tests the
\* list with interrupts enabled ...
DeleteCheck ==
    /\ Deletable /\ del \in {"none", "check"}
    /\ del' = IF list = <<>> THEN "free" ELSE "resume"
    /\ UNCHANGED <<threadVars, value, list, pc, issued, acquired>>

\* ... disables them, and takes list->next for a thread without testing again:
\* on an empty list that is the list head itself, and rt_thread_resume stops
\* in its assertion on the object type.
DeleteResume ==
    /\ del = "resume"
    /\ \/ /\ list # <<>>
          /\ ResumeError({Head(list)})
          /\ list' = Tail(list)
          /\ del' = "check"
       \/ /\ list = <<>>
          /\ del' = "fault"
          /\ UNCHANGED <<threadVars, list>>
    /\ UNCHANGED <<value, pc, issued, acquired>>

\* rt_object_delete after the loop.
DeleteFree ==
    /\ del = "free"
    /\ del' = "gone"
    /\ UNCHANGED <<threadVars, value, list, pc, issued, acquired>>

Waits == {"no", "timed", "forever"}

Next ==
    \/ \E t \in Threads : \/ \E wait \in Waits : Take(t, wait)
                          \/ Return(t)
                          \/ Timeout(t)
    \/ Release
    \/ \E v \in 0..ValueMax : Reset(v)
    \/ DeleteCheck \/ DeleteResume \/ DeleteFree

Spec == Init /\ [][Next]_vars

\* The tick interrupt runs for ever and a ready thread gets the processor.
FairSpec == Spec /\ \A t \in Threads : WF_vars(Timeout(t)) /\ WF_vars(Return(t))

-----------------------------------------------------------------------------

\* A thread waits in the list exactly while it is suspended, once, and only
\* inside rt_sem_take; a timer is armed only for a suspended thread: what
\* rt_thread_timeout asserts (thread.c:815) of the thread it is called for.
ListConsistent ==
    /\ Distinct(list)
    /\ Members(list) = {t \in Threads : stat[t] = "suspend"}
    /\ \A t \in Threads : /\ stat[t] = "suspend" => pc[t] = "take" /\ error[t] = "EOK"
                          /\ timer[t] => stat[t] = "suspend"

\* No lost wakeup: a token never lies in the semaphore while a thread is
\* suspended for one, whatever releases, timeouts, resets and a deletion do.
NoLostWakeup == value > 0 => list = <<>>

\* The threads that a release has woken and that have not run yet.
Granted == {t \in Threads : pc[t] = "take" /\ stat[t] = "ready" /\ error[t] = "EOK"}

\* Tokens are neither lost nor invented: every token put in is still counted,
\* or was returned to a caller, or is on its way to a woken thread.  A take
\* that timed out or failed took none, even when the timer fires around the
\* release.
TokensConserved == issued = value + acquired + Cardinality(Granted)

\* With RT_IPC_FLAG_PRIO a release wakes no thread while a more urgent one
\* stays suspended.
UrgentFirst ==
    [][Flag = "PRIO" /\ issued' = issued + 1 /\ list # <<>>
         => \A t \in Members(list) \ Members(list'), u \in Members(list') :
                Prio[t] <= Prio[u]]_vars

\* rt_sem_take with a positive time returns, granted, timed out or failed by a
\* reset or deletion, unless that deletion stopped the kernel in an assertion.
TimedTakeReturns == \A t \in Threads : timer[t] ~> (pc[t] = "idle" \/ del = "fault")

-----------------------------------------------------------------------------

\* "get next suspended thread" (ipc.c:168): there is one when the loop of
\* rt_ipc_list_resume_all takes it.
ResumeAllFindsThread == del # "fault"

=============================================================================
