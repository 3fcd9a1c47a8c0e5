----------------------------- MODULE IpcThread -----------------------------
(***************************************************************************)
(* What every IPC object of ipc.c rests on: the state of a thread that     *)
(* waits (thread.c) and the list of suspended threads of an object         *)
(* (rt_ipc_list_suspend, rt_ipc_list_resume, rt_ipc_list_resume_all).      *)
(*                                                                         *)
(* The processor is single core.  A section of the code that runs with     *)
(* interrupts disabled is one step of a model; between two sections any    *)
(* other thread or interrupt handler may run.                              *)
(***************************************************************************)
EXTENDS Integers, Sequences

CONSTANTS Threads,  \* the threads that call the object's operations
          Flag      \* parent.parent.flag: order of the list, "FIFO" or "PRIO"

ASSUME FlagAssumption == Flag \in {"FIFO", "PRIO"}

VARIABLES stat,     \* thread->stat: "ready" (READY or RUNNING) or "suspend"
          error,    \* thread->error, from the suspension of a call to its return;
                    \* no call reads the value an earlier one left, so it is
                    \* EOK outside
          timer     \* thread->thread_timer is in the timer list

threadVars == <<stat, error, timer>>

Errors == {"EOK", "ETIMEOUT", "ERROR"}

ThreadTypeOK ==
    /\ stat \in [Threads -> {"ready", "suspend"}]
    /\ error \in [Threads -> Errors]
    /\ timer \in [Threads -> BOOLEAN]

ThreadInit ==
    /\ stat = [t \in Threads |-> "ready"]
    /\ error = [t \in Threads |-> "EOK"]
    /\ timer = [t \in Threads |-> FALSE]

(***************************************************************************)
(* A list of suspended threads, in the order of its links.                 *)
(***************************************************************************)

Members(list) == {list[i] : i \in DOMAIN list}

\* No thread is linked twice.
Distinct(list) == \A i, j \in DOMAIN list : list[i] = list[j] => i = j

\* Entry i is the first waiter of strictly lower priority (a larger number).
FirstBehind(list, thread, prio, i) ==
    /\ prio[thread] < prio[list[i]]
    /\ \A j \in 1..(i - 1) : prio[list[j]] <= prio[thread]

\* Mutant: the scan stops one waiter late.
Position_Late(list, thread, prio) ==
    IF Flag = "PRIO" /\ \E i \in DOMAIN list : FirstBehind(list, thread, prio, i)
    THEN 1 + (CHOOSE i \in DOMAIN list : FirstBehind(list, thread, prio, i))
    ELSE Len(list) + 1

\* Where rt_ipc_list_suspend links thread: before the first waiter of lower
\* priority, or at the end.
Position(list, thread, prio) ==
    IF Flag = "PRIO" /\ \E i \in DOMAIN list : FirstBehind(list, thread, prio, i)
    THEN CHOOSE i \in DOMAIN list : FirstBehind(list, thread, prio, i)
    ELSE Len(list) + 1

Linked(list, thread, k) ==
    [i \in 1..(Len(list) + 1) |->
        IF i < k THEN list[i] ELSE IF i = k THEN thread ELSE list[i - 1]]

\* The list rt_ipc_list_suspend leaves.
ListSuspend(list, thread, prio) == Linked(list, thread, Position(list, thread, prio))

\* Mutant: the thread stays linked.
ListRemove_Forgets(list, thread) == list

\* The list rt_list_remove(&thread->tlist) leaves.
ListRemove(list, thread) ==
    LET k == CHOOSE i \in DOMAIN list : list[i] = thread
    IN  [i \in 1..(Len(list) - 1) |-> IF i < k THEN list[i] ELSE list[i + 1]]

(***************************************************************************)
(* The thread's side of waiting.                                           *)
(***************************************************************************)

\* error = EOK, rt_thread_suspend(self), and the thread timer if time > 0.
Suspend(thread, timed) ==
    /\ stat' = [stat EXCEPT ![thread] = "suspend"]
    /\ error' = [error EXCEPT ![thread] = "EOK"]
    /\ timer' = [timer EXCEPT ![thread] = timed]

\* The suspended call returns thread->error, which is then forgotten.
Leave(thread) ==
    /\ stat[thread] = "ready"
    /\ error' = [error EXCEPT ![thread] = "EOK"]
    /\ UNCHANGED <<stat, timer>>

\* rt_thread_resume: off the list, timer stopped, into the ready queue; error
\* keeps the EOK of Suspend.
Resume(thread) ==
    /\ stat' = [stat EXCEPT ![thread] = "ready"]
    /\ timer' = [timer EXCEPT ![thread] = FALSE]
    /\ error' = error

\* One turn of rt_ipc_list_resume_all, or all of them when the caller runs it
\* with interrupts disabled.
ResumeError(S) ==
    /\ stat' = [t \in Threads |-> IF t \in S THEN "ready" ELSE stat[t]]
    /\ error' = [t \in Threads |-> IF t \in S THEN "ERROR" ELSE error[t]]
    /\ timer' = [t \in Threads |-> IF t \in S THEN FALSE ELSE timer[t]]

\* Mutant: thread->error is not set, so a timeout looks like a grant.
ThreadTimeout_NoError(thread) ==
    /\ timer[thread]
    /\ stat' = [stat EXCEPT ![thread] = "ready"]
    /\ timer' = [timer EXCEPT ![thread] = FALSE]
    /\ error' = error

\* Mutant: the thread is not inserted into the ready queue.
ThreadTimeout_NotReady(thread) ==
    /\ timer[thread]
    /\ error' = [error EXCEPT ![thread] = "ETIMEOUT"]
    /\ timer' = [timer EXCEPT ![thread] = FALSE]
    /\ stat' = stat

\* rt_thread_timeout, called by the tick interrupt when the timer is due.
ThreadTimeout(thread) ==
    /\ timer[thread]
    /\ stat' = [stat EXCEPT ![thread] = "ready"]
    /\ error' = [error EXCEPT ![thread] = "ETIMEOUT"]
    /\ timer' = [timer EXCEPT ![thread] = FALSE]

=============================================================================
