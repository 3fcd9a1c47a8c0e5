------------------------------- MODULE Mutex -------------------------------
(***************************************************************************)
(* The recursive mutexes of ipc.c with priority inheritance:               *)
(* rt_mutex_take, rt_mutex_release, rt_mutex_delete/rt_mutex_detach, and   *)
(* rt_thread_control(CHANGE_PRIORITY) as they use it.  A thread may hold    *)
(* several mutexes at once.                                                *)
(***************************************************************************)
EXTENDS IpcThread

CONSTANTS Mutexes,
          InitPrio,   \* thread->init_priority, smaller is more urgent
          HoldMax,    \* largest rt_uint8_t (255 on the target)
          MaxDepth,   \* bound: nested takes of one mutex by one thread
          Deletable,  \* the mutexes some thread deletes
          None        \* RT_NULL

ASSUME MutexAssumption ==
    /\ InitPrio \in [Threads -> Nat]
    /\ HoldMax \in Nat /\ MaxDepth \in 1..HoldMax
    /\ Deletable \subseteq Mutexes
    /\ None \notin Threads /\ None \notin Mutexes

VARIABLES value,      \* mutex->value: 1 is free
          owner,      \* mutex->owner
          hold,       \* mutex->hold
          orig,       \* mutex->original_priority
          list,       \* mutex->parent.suspend_thread
          prio,       \* thread->current_priority
          wants,      \* the mutex whose rt_mutex_take the thread waits in, or None
          del,        \* where rt_mutex_delete of the mutex is
          depth       \* history: takes of a mutex a thread has returned from with
                      \* RT_EOK and not yet released

mutexVars == <<value, owner, hold, orig>>
vars == <<stat, error, timer, value, owner, hold, orig, list, prio, wants, del, depth>>

NoPriority == 255     \* original_priority of a free mutex: 0xff

TypeOK ==
    /\ ThreadTypeOK
    /\ value \in [Mutexes -> {0, 1}]
    /\ owner \in [Mutexes -> Threads \cup {None}]
    /\ hold \in [Mutexes -> 0..HoldMax]
    /\ orig \in [Mutexes -> Nat]
    /\ list \in [Mutexes -> Seq(Threads)]
    /\ prio \in [Threads -> Nat]
    /\ wants \in [Threads -> Mutexes \cup {None}]
    /\ del \in [Mutexes -> {"none", "check", "resume", "free", "gone", "fault"}]
    /\ depth \in [Threads -> [Mutexes -> 0..MaxDepth]]

\* rt_mutex_init, rt_mutex_create.
Init ==
    /\ ThreadInit
    /\ value = [m \in Mutexes |-> 1]
    /\ owner = [m \in Mutexes |-> None]
    /\ hold = [m \in Mutexes |-> 0]
    /\ orig = [m \in Mutexes |-> NoPriority]
    /\ list = [m \in Mutexes |-> <<>>]
    /\ prio = InitPrio
    /\ wants = [t \in Threads |-> None]
    /\ del = [m \in Mutexes |-> "none"]
    /\ depth = [t \in Threads |-> [m \in Mutexes |-> 0]]

\* After "fault" the kernel has stopped in an assertion.
Running == \A m \in Mutexes : del[m] # "fault"
Usable(t, m) == Running /\ del[m] # "gone" /\ wants[t] = None

Free(m) == value[m] > 0

IncHold(m) == (hold[m] + 1) % (HoldMax + 1)
DecHold(m) == (hold[m] + HoldMax) % (HoldMax + 1)

\* Mutant: the owner test is dropped and a mutex with value 0 is entered.
TakeNested_AnyThread(t, m) ==
    /\ Usable(t, m) /\ owner[m] # None /\ depth[t][m] < MaxDepth
    /\ hold' = [hold EXCEPT ![m] = IncHold(m)]
    /\ depth' = [depth EXCEPT ![t][m] = @ + 1]
    /\ UNCHANGED <<threadVars, value, owner, orig, list, prio, wants, del>>

\* rt_mutex_take by the owner: hold ++ in 8 bits.
TakeNested(t, m) ==
    /\ Usable(t, m) /\ owner[m] = t /\ depth[t][m] < MaxDepth
    /\ hold' = [hold EXCEPT ![m] = IncHold(m)]
    /\ depth' = [depth EXCEPT ![t][m] = @ + 1]
    /\ UNCHANGED <<threadVars, value, owner, orig, list, prio, wants, del>>

\* rt_mutex_take of a free mutex.
TakeFree(t, m) ==
    /\ Usable(t, m) /\ owner[m] # t /\ Free(m)
    /\ value' = [value EXCEPT ![m] = @ - 1]
    /\ owner' = [owner EXCEPT ![m] = t]
    /\ orig' = [orig EXCEPT ![m] = prio[t]]
    /\ hold' = [hold EXCEPT ![m] = IncHold(m)]
    /\ depth' = [depth EXCEPT ![t][m] = @ + 1]
    /\ UNCHANGED <<threadVars, list, prio, wants, del>>

\* rt_mutex_take(mutex, 0) of a mutex another thread owns.
TryFails(t, m) ==
    /\ Usable(t, m) /\ owner[m] # t /\ ~ Free(m)
    /\ UNCHANGED vars

\* Mutant: the owner's priority is not raised.
Inherited_Never(t, m) == prio

\* rt_thread_control on the owner, when the waiter is more urgent.
Inherited(t, m) ==
    IF prio[t] < prio[owner[m]] THEN [prio EXCEPT ![owner[m]] = prio[t]] ELSE prio

\* rt_mutex_take of a mutex another thread owns: the owner inherits the
\* priority, the caller is suspended.
TakeWaits(t, m, timed) ==
    /\ Usable(t, m) /\ owner[m] # t /\ ~ Free(m)
    /\ prio' = Inherited(t, m)
    /\ list' = [list EXCEPT ![m] = ListSuspend(@, t, prio')]
    /\ Suspend(t, timed)
    /\ wants' = [wants EXCEPT ![t] = m]
    /\ UNCHANGED <<mutexVars, del, depth>>

\* The thread runs again after rt_schedule() and returns thread->error.
Return(t) ==
    /\ Running /\ wants[t] # None /\ Leave(t)
    /\ wants' = [wants EXCEPT ![t] = None]
    /\ depth' = IF error[t] = "EOK" THEN [depth EXCEPT ![t][wants[t]] = @ + 1] ELSE depth
    /\ UNCHANGED <<mutexVars, list, prio, del>>

\* The tick interrupt finds the timer of a waiting thread due.
Timeout(t) ==
    /\ Running
    /\ ThreadTimeout(t)
    /\ list' = [list EXCEPT ![wants[t]] = ListRemove(@, t)]
    /\ UNCHANGED <<mutexVars, prio, wants, del, depth>>

\* rt_mutex_release by a thread that is not the owner.
ReleaseRefused(t, m) ==
    /\ Usable(t, m) /\ owner[m] # t
    /\ UNCHANGED vars

\* rt_mutex_release by the owner, with takes left to release.
ReleaseNested(t, m) ==
    /\ Usable(t, m) /\ owner[m] = t /\ DecHold(m) # 0
    /\ hold' = [hold EXCEPT ![m] = DecHold(m)]
    /\ depth' = [depth EXCEPT ![t][m] = @ - 1]
    /\ UNCHANGED <<threadVars, value, owner, orig, list, prio, wants, del>>

\* Mutant: the priority is not given back.
Restored_Never(t, m) == prio

\* rt_thread_control on the owner, back to original_priority.
Restored(t, m) == [prio EXCEPT ![t] = orig[m]]

\* The last rt_mutex_release: the priority is given back, then the first
\* waiter becomes the owner, or the mutex becomes free.
ReleaseLast(t, m) ==
    /\ Usable(t, m) /\ owner[m] = t /\ DecHold(m) = 0
    /\ depth' = [depth EXCEPT ![t][m] = @ - 1]
    /\ prio' = Restored(t, m)
    /\ \/ /\ list[m] # <<>>
          /\ owner' = [owner EXCEPT ![m] = Head(list[m])]
          /\ orig' = [orig EXCEPT ![m] = prio'[Head(list[m])]]
          /\ hold' = [hold EXCEPT ![m] = 1]
          /\ Resume(Head(list[m]))
          /\ list' = [list EXCEPT ![m] = Tail(@)]
          /\ UNCHANGED value
       \/ /\ list[m] = <<>>
          /\ value' = [value EXCEPT ![m] = @ + 1]
          /\ owner' = [owner EXCEPT ![m] = None]
          /\ orig' = [orig EXCEPT ![m] = NoPriority]
          /\ hold' = [hold EXCEPT ![m] = 0]
          /\ UNCHANGED <<threadVars, list>>
    /\ UNCHANGED <<wants, del>>

\* rt_mutex_delete, rt_mutex_detach: the loop of rt_ipc_list_resume_all tests
\* the list with interrupts enabled ...
DeleteCheck(m) ==
    /\ Running /\ m \in Deletable /\ del[m] \in {"none", "check"}
    /\ del' = [del EXCEPT ![m] = IF list[m] = <<>> THEN "free" ELSE "resume"]
    /\ UNCHANGED <<threadVars, mutexVars, list, prio, wants, depth>>

\* ... and resumes the first thread with them disabled, without a second test;
DeleteResume(m) ==
    /\ Running /\ del[m] = "resume"
    /\ \/ /\ list[m] # <<>>
          /\ ResumeError({Head(list[m])})
          /\ list' = [list EXCEPT ![m] = Tail(@)]
          /\ del' = [del EXCEPT ![m] = "check"]
       \/ /\ list[m] = <<>>
          /\ del' = [del EXCEPT ![m] = "fault"]
          /\ UNCHANGED <<threadVars, list>>
    /\ UNCHANGED <<mutexVars, prio, wants, depth>>

\* rt_object_delete follows the loop.
DeleteFree(m) ==
    /\ Running /\ del[m] = "free"
    /\ del' = [del EXCEPT ![m] = "gone"]
    /\ UNCHANGED <<threadVars, mutexVars, list, prio, wants, depth>>

Call(t, m) ==
    \/ TakeNested(t, m) \/ TakeFree(t, m) \/ TryFails(t, m)
    \/ \E timed \in BOOLEAN : TakeWaits(t, m, timed)
    \/ ReleaseRefused(t, m) \/ ReleaseNested(t, m) \/ ReleaseLast(t, m)

Delete(m) == DeleteCheck(m) \/ DeleteResume(m) \/ DeleteFree(m)

Next ==
    \/ \E t \in Threads : Return(t) \/ Timeout(t) \/ \E m \in Mutexes : Call(t, m)
    \/ \E m \in Mutexes : Delete(m)

Spec == Init /\ [][Next]_vars

\* The tick interrupt runs for ever, a ready thread gets the processor, and an
\* owner gives a mutex back, however often it nests: the last is an obligation
\* of the application.
FairSpec ==
    /\ Spec
    /\ \A t \in Threads : WF_vars(Timeout(t)) /\ WF_vars(Return(t))
    /\ \A t \in Threads, m \in Mutexes, d \in 1..MaxDepth :
          SF_vars(hold[m] = d /\ (ReleaseNested(t, m) \/ ReleaseLast(t, m)))

-----------------------------------------------------------------------------

\* The take of m by t has been granted by a release and t has not run yet.
Granted(t, m) == wants[t] = m /\ stat[t] = "ready" /\ error[t] = "EOK"

\* No two threads are inside the same mutex at once: both past a take that
\* returned RT_EOK and neither past its last release.
MutualExclusion ==
    \A m \in Mutexes : \A t, u \in Threads :
        depth[t][m] > 0 /\ depth[u][m] > 0 => t = u

\* owner and hold say who is inside and how often ("numbers of thread hold the
\* mutex", rtdef.h:683), counting a grant that its thread has not seen yet; so
\* a release by a thread that is inside is never refused.
HoldCounts ==
    \A t \in Threads, m \in Mutexes :
        IF owner[m] = t
        THEN hold[m] = depth[t][m] + (IF Granted(t, m) THEN 1 ELSE 0) /\ hold[m] > 0
        ELSE depth[t][m] = 0 /\ ~ Granted(t, m)

\* value, owner and hold agree on whether the mutex is free, and a thread waits
\* only for a mutex that is owned: no release ever finds nobody to wake while
\* a thread stays suspended on a free mutex.
FreeMeansNoWaiter ==
    \A m \in Mutexes :
        /\ value[m] = 1 <=> owner[m] = None
        /\ owner[m] = None => hold[m] = 0 /\ list[m] = <<>>

\* A suspended thread is linked once, in the list of the mutex it asked for, and
\* never in that of a mutex it owns; only suspended threads are linked or have
\* a timer (the assertion of rt_thread_timeout, thread.c:815).
ListsConsistent ==
    /\ \A m \in Mutexes : Distinct(list[m])
    /\ \A m \in Mutexes : Members(list[m]) = {t \in Threads : stat[t] = "suspend" /\ wants[t] = m}
    /\ \A t \in Threads :
         /\ stat[t] = "suspend" => wants[t] # None /\ error[t] = "EOK" /\ owner[wants[t]] # t
         /\ timer[t] => stat[t] = "suspend"

\* Priority inheritance: while it is owned, the owner of a mutex is at least as
\* urgent as every thread suspended on it.
OwnerInherits ==
    \A m \in Mutexes : \A t \in Members(list[m]) : prio[owner[m]] <= prio[t]

\* "change the owner thread to original priority" (ipc.c:833): a thread that
\* owns no mutex runs at the priority it was created with.
PriorityRestored ==
    \A t \in Threads : (\A m \in Mutexes : owner[m] # t) => prio[t] = InitPrio[t]

\* Every rt_mutex_take returns, with RT_IPC_FLAG_FIFO for all threads, with
\* RT_IPC_FLAG_PRIO for the most urgent one: the others may starve behind it.
\* Nothing is said of a mutex that is being deleted: see DeleteResume.
TakeReturns ==
    \A t \in Threads :
        Flag = "FIFO" \/ (\A u \in Threads \ {t} : InitPrio[t] < InitPrio[u])
        => (wants[t] # None ~> wants[t] = None \/ \E m \in Mutexes : del[m] # "none")

=============================================================================
