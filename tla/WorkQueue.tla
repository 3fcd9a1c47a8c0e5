----------------------------- MODULE WorkQueue -----------------------------
(***************************************************************************)
(* The work queue of workqueue.c: its thread, and rt_workqueue_dowork,     *)
(* rt_workqueue_critical_work, rt_workqueue_cancel_work,                   *)
(* rt_workqueue_cancel_work_sync and rt_workqueue_cancel_all_work for      *)
(* works without a delay.                                                  *)
(*                                                                         *)
(* The list is changed with interrupts disabled, but the worker tests it   *)
(* with interrupts enabled, and a submitter resumes the worker after it    *)
(* has enabled them again.                                                 *)
(***************************************************************************)
EXTENDS Naturals, Sequences, FiniteSets, SequencesExt

CONSTANTS Clients,  \* the threads that submit and cancel
          Works,    \* the struct rt_work in use
          None      \* RT_NULL

ASSUME WorkAssumption == None \notin Works /\ IsFiniteSet(Works)

VARIABLES list,     \* queue->work_list
          current,  \* queue->work_current
          pending,  \* the works with RT_WORK_STATE_PENDING
          worker,   \* where _workqueue_thread_entry is
          stat,     \* work_thread->stat
          call      \* what each client is doing: "idle", "resume" before the
                    \* rt_thread_resume of a submit, or the work whose end it awaits

vars == <<list, current, pending, worker, stat, call>>

TypeOK ==
    /\ list \in Seq(Works) /\ Len(list) <= Cardinality(Works)
    /\ current \in Works \cup {None}
    /\ pending \subseteq Works
    /\ worker \in {"test", "suspend", "take", "run", "complete", "fault"}
    /\ stat \in {"ready", "suspend"}
    /\ call \in [Clients -> {"idle", "resume"} \cup Works]

\* rt_workqueue_create and rt_work_init.
Init ==
    /\ list = <<>> /\ current = None /\ pending = {}
    /\ worker = "test" /\ stat = "ready"
    /\ call = [t \in Clients |-> "idle"]

Ready == worker # "fault"

(***************************************************************************)
(* The worker.                                                             *)
(***************************************************************************)

\* rt_list_isempty, interrupts enabled.
Test ==
    /\ worker = "test"
    /\ worker' = IF list = <<>> THEN "suspend" ELSE "take"
    /\ UNCHANGED <<list, current, pending, stat, call>>

\* rt_thread_suspend(rt_thread_self()).
Suspend ==
    /\ worker = "suspend"
    /\ stat' = "suspend"
    /\ worker' = "take"
    /\ UNCHANGED <<list, current, pending, call>>

\* The first entry is taken, without a second test: on an empty list that is the
\* list head, whose surroundings are then used as a work.
Take ==
    /\ worker = "take" /\ stat = "ready"
    /\ \/ /\ list # <<>>
          /\ list' = Tail(list)
          /\ current' = Head(list)
          /\ pending' = pending \ {Head(list)}
          /\ worker' = "run"
       \/ /\ list = <<>>
          /\ worker' = "fault"
          /\ UNCHANGED <<list, current, pending>>
    /\ UNCHANGED <<stat, call>>

\* work_func returns; the current work is cleared.
Finish ==
    /\ worker = "run"
    /\ current' = None
    /\ worker' = "complete"
    /\ UNCHANGED <<list, pending, stat, call>>

\* The clients in the wait list of queue->sem.
Waiting == {t \in Clients : call[t] \in Works}

\* Mutant: the semaphore is released once, not until nobody waits for it.
Complete_Once ==
    /\ worker = "complete"
    /\ worker' = "test"
    /\ IF Waiting = {} THEN UNCHANGED call
       ELSE \E t \in Waiting : call' = [call EXCEPT ![t] = "idle"]
    /\ UNCHANGED <<list, current, pending, stat>>

\* _workqueue_work_completion, with the scheduler locked: the semaphore is
\* released until a trytake succeeds, which is when nobody waits for it.
Complete ==
    /\ worker = "complete"
    /\ worker' = "test"
    /\ call' = [t \in Clients |-> IF t \in Waiting THEN "idle" ELSE call[t]]
    /\ UNCHANGED <<list, current, pending, stat>>

(***************************************************************************)
(* The clients.                                                            *)
(***************************************************************************)

\* The work is moved to the end of the list; the worker is resumed next if it is
\* not executing a work.
Enqueue(t, w) ==
    /\ list' = Append(Remove(list, w), w)
    /\ call' = IF current = None THEN [call EXCEPT ![t] = "resume"] ELSE call

\* Mutant: the work in execution may be submitted.
Submit_WhileRunning(t, w) ==
    /\ Ready /\ call[t] = "idle"
    /\ w \notin pending
    /\ Enqueue(t, w)
    /\ pending' = pending \cup {w}
    /\ UNCHANGED <<current, worker, stat>>

\* _workqueue_submit_work, for a work that is neither pending nor executed.
Submit(t, w) ==
    /\ Ready /\ call[t] = "idle"
    /\ w \notin pending /\ current # w
    /\ Enqueue(t, w)
    /\ pending' = pending \cup {w}
    /\ UNCHANGED <<current, worker, stat>>

\* rt_workqueue_critical_work: the flag is neither tested nor set.
CriticalWork(t, w) ==
    /\ Ready /\ call[t] = "idle" /\ current # w
    /\ Enqueue(t, w)
    /\ UNCHANGED <<current, pending, worker, stat>>

\* rt_thread_resume(queue->work_thread) at the end of a submit.
Resume(t) ==
    /\ Ready /\ call[t] = "resume"
    /\ stat' = "ready"
    /\ call' = [call EXCEPT ![t] = "idle"]
    /\ UNCHANGED <<list, current, pending, worker>>

\* _workqueue_cancel_work, and rt_workqueue_cancel_work_sync of a work that is not
\* executed.
Cancel(t, w) ==
    /\ Ready /\ call[t] = "idle" /\ current # w
    /\ list' = Remove(list, w)
    /\ pending' = pending \ {w}
    /\ UNCHANGED <<current, worker, stat, call>>

\* rt_workqueue_cancel_work_sync of the work in execution: rt_sem_take on
\* queue->sem.  Interrupts stay disabled up to the end of the function, so the
\* flag is cleared before the thread really stops running.
CancelSync(t, w) ==
    /\ Ready /\ call[t] = "idle" /\ current = w
    /\ pending' = pending \ {w}
    /\ call' = [call EXCEPT ![t] = w]
    /\ UNCHANGED <<list, current, worker, stat>>

\* rt_workqueue_cancel_all_work, with the scheduler locked; the flags stay.
CancelAll(t) ==
    /\ Ready /\ call[t] = "idle"
    /\ list' = <<>>
    /\ UNCHANGED <<current, pending, worker, stat, call>>

Worker == Test \/ Suspend \/ Take \/ Finish \/ Complete

Next ==
    \/ Worker
    \/ \E t \in Clients :
          \/ Resume(t) \/ CancelAll(t)
          \/ \E w \in Works : Submit(t, w) \/ CriticalWork(t, w) \/ Cancel(t, w) \/ CancelSync(t, w)

Spec == Init /\ [][Next]_vars

\* The worker runs when it is ready, work functions return, and a submit that
\* was begun is ended.
FairSpec == Spec /\ WF_vars(Worker) /\ \A t \in Clients : WF_vars(Resume(t))

-----------------------------------------------------------------------------

\* A work is in the list at most once and never while it is executed: it is not
\* entered again while it runs, whatever mix of submit, critical work and
\* cancellation the clients use.
NotReentered ==
    /\ TypeOK
    /\ \A i, j \in DOMAIN list : list[i] = list[j] => i = j
    /\ \A i \in DOMAIN list : list[i] # current

\* rt_workqueue_cancel_work_sync returns.
CancelSyncReturns == \A t \in Clients : call[t] \in Works ~> call[t] = "idle"

\* "we have work to do with." (workqueue.c:68): the worker finds a work when it
\* takes one.
WorkToDo == worker # "fault"

=============================================================================
