----------------------------- MODULE Scheduler -----------------------------
(***************************************************************************)
(* Threads and the scheduler of one processor: the ready queues and        *)
(* rt_schedule (scheduler.c), the life of a thread (thread.c), its time    *)
(* slice (rt_tick_increase in clock.c) and the idle thread that frees      *)
(* deleted threads (idle.c).                                               *)
(*                                                                         *)
(* Only the current thread takes steps, besides the interrupts: the tick,  *)
(* the expiry of a thread timer, and an interrupt that resumes a thread.   *)
(* A section with interrupts disabled is one step.  What a thread still    *)
(* has to do in the function it is in is its todo.                         *)
(***************************************************************************)
EXTENDS Naturals, Sequences, FiniteSets, FiniteSetsExt, Functions

CONSTANTS Threads,    \* the threads other than the idle thread
          Idle,       \* the idle thread
          Static,     \* the threads that are system objects without a cleanup function
          Lowest,     \* RT_THREAD_PRIORITY_MAX - 1, the priority of the idle thread
          InitPrio,   \* init_priority of each thread
          Adjusted,   \* the threads whose priority is changed
          Mortal,     \* the threads that end or are deleted
          Slice,      \* init_tick of each thread
          MaxNest,    \* bound: the depth of rt_enter_critical
          DeletesTimed \* whether a thread is deleted while its timer runs

All == Threads \cup {Idle}
Prios == 0 .. Lowest

ASSUME SchedulerAssumption ==
    /\ Idle \notin Threads /\ IsFiniteSet(Threads)
    /\ Lowest \in Nat /\ InitPrio \in [All -> Prios] /\ InitPrio[Idle] = Lowest
    /\ \A t \in Threads : InitPrio[t] < Lowest
    /\ Static \subseteq Threads /\ Adjusted \subseteq Threads /\ Mortal \subseteq Threads
    /\ Slice \in [All -> Nat \ {0}] /\ MaxNest \in Nat /\ DeletesTimed \in BOOLEAN

VARIABLES k,         \* the scheduler: its queues, and stat and priority of the threads
          nest,      \* rt_scheduler_lock_nest
          remaining, \* remaining_tick
          armed,     \* the threads whose thread_timer is active
          defunct,   \* rt_thread_defunct
          todo       \* what each thread has still to do

vars == <<k, nest, remaining, armed, defunct, todo>>

Stats == {"init", "ready", "suspend", "running", "close"}
Nothing == <<"none">>
ToSchedule == <<"schedule">>
Todos == {Nothing, ToSchedule} \cup {"detach", "close"} \X Threads

\* Every variable has its type, and no time slice is ever longer than it began.
TypeOK ==
    /\ k \in [ready : [Prios -> Seq(All)], group : SUBSET Prios, cur : All,
              stat : [All -> Stats], prio : [All -> Prios], yield : SUBSET All]
    /\ nest \in 0 .. MaxNest
    /\ remaining \in [All -> Nat] /\ \A t \in All : remaining[t] \in 1 .. Slice[t]
    /\ armed \subseteq Threads
    /\ defunct \in Seq(Threads)
    /\ todo \in [All -> Todos]

\* rt_system_scheduler_init, rt_thread_idle_init and rt_system_scheduler_start with
\* no other thread started yet.
Init ==
    /\ k = [ready |-> [p \in Prios |-> <<>>], group |-> {}, cur |-> Idle,
            stat |-> [t \in All |-> IF t = Idle THEN "running" ELSE "init"],
            prio |-> InitPrio, yield |-> {}]
    /\ nest = 0 /\ remaining = Slice
    /\ armed = {} /\ defunct = <<>> /\ todo = [t \in All |-> Nothing]

(***************************************************************************)
(* The ready queues.                                                       *)
(***************************************************************************)

\* rt_schedule_insert_thread.
InsertThread(s, t) ==
    IF t = s.cur THEN [s EXCEPT !.stat[t] = "running"]
    ELSE [s EXCEPT !.stat[t] = "ready",
                   !.ready[s.prio[t]] = Append(@, t),
                   !.group = @ \cup {s.prio[t]}]

\* The list rt_list_remove(&thread->tlist) leaves; it is not linked twice.
ListRemove(list, t) ==
    LET at == CHOOSE i \in DOMAIN list : list[i] = t
    IN  IF t \in Range(list)
        THEN [i \in 1 .. (Len(list) - 1) |-> IF i < at THEN list[i] ELSE list[i + 1]]
        ELSE list

\* Mutant: the bit of the priority stays.
RemoveThread_KeepsBit(s, t) == [s EXCEPT !.ready = [p \in Prios |-> ListRemove(s.ready[p], t)]]

\* rt_schedule_remove_thread: the thread leaves the list it is in, and the bit of
\* its priority is cleared if that was the last thread in it.
RemoveThread(s, t) ==
    LET left == [p \in Prios |-> ListRemove(s.ready[p], t)]
    IN  [s EXCEPT !.ready = left,
                  !.group = IF left[s.prio[t]] = <<>> THEN @ \ {s.prio[t]} ELSE @]

\* _get_highest_priority_thread.
Highest(s) == Min(s.group)

\* The switch of rt_schedule: a current thread that was still running goes to the
\* end of its queue.
Dispatch(s, to) ==
    LET running == s.stat[s.cur] = "running"
        switched == [s EXCEPT !.cur = to, !.yield = IF running THEN @ \ {s.cur} ELSE @]
        queued == IF running THEN InsertThread(switched, s.cur) ELSE switched
    IN  [RemoveThread(queued, to) EXCEPT !.stat[to] = "running"]

\* Mutant: a thread whose slice is over goes on.
Keeps_Always(s) == s.stat[s.cur] = "running" /\ s.prio[s.cur] <= Highest(s)

\* The current thread goes on if it is more urgent than every ready thread, or as
\* urgent and its time slice is not over.
Keeps(s) ==
    /\ s.stat[s.cur] = "running"
    /\ s.prio[s.cur] < Highest(s) \/ (s.prio[s.cur] = Highest(s) /\ s.cur \notin s.yield)

\* rt_schedule.
Schedule(s) ==
    IF nest # 0 \/ s.group = {} THEN s
    ELSE IF Keeps(s) THEN [RemoveThread(s, s.cur) EXCEPT !.stat[s.cur] = "running"]
    ELSE Dispatch(s, Head(s.ready[Highest(s)]))

(***************************************************************************)
(* The operations of thread.c on the state of a thread.                    *)
(***************************************************************************)

\* rt_thread_suspend, interrupts disabled; it stops the timer of the thread.
Suspended(s, t) == [RemoveThread(s, t) EXCEPT !.stat[t] = "suspend"]

\* RT_THREAD_CTRL_CHANGE_PRIORITY of rt_thread_control.
Reprioritised(s, t, p) ==
    IF s.stat[t] = "ready" THEN InsertThread([RemoveThread(s, t) EXCEPT !.prio[t] = p], t)
    ELSE [s EXCEPT !.prio[t] = p]

\* The current thread runs and is not in the middle of a function.
Runs(t) == k.cur = t /\ k.stat[t] = "running" /\ todo[t] = Nothing

\* Nobody is deleting u.
Kept(u) == \A t \in All : Len(todo[t]) = 2 => todo[t][2] # u

Then(t, what) == todo' = [todo EXCEPT ![t] = what]

\* rt_thread_create or rt_thread_init, and rt_thread_startup.
Startup(t, u) ==
    /\ Runs(t) /\ k.stat[u] = "init"
    /\ k' = InsertThread([k EXCEPT !.prio[u] = InitPrio[u], !.yield = @ \ {u}], u)
    /\ remaining' = [remaining EXCEPT ![u] = Slice[u]]
    /\ todo' = [todo EXCEPT ![t] = ToSchedule, ![u] = Nothing]
    /\ UNCHANGED <<nest, armed, defunct>>

\* A thread suspends itself: rt_thread_sleep and the timed waits start its timer, the
\* other waits and rt_thread_suspend do not.
SuspendSelf(t) ==
    /\ Runs(t) /\ t # Idle /\ nest = 0
    /\ k' = Suspended(k, t)
    /\ armed' \in {armed \ {t}, armed \cup {t}}
    /\ Then(t, ToSchedule)
    /\ UNCHANGED <<nest, remaining, defunct>>

\* rt_thread_suspend of another thread that is ready.
SuspendOther(t, u) ==
    /\ Runs(t) /\ u # Idle /\ k.stat[u] = "ready" /\ Kept(u)
    /\ k' = Suspended(k, u)
    /\ armed' = armed \ {u}
    /\ UNCHANGED <<nest, remaining, defunct, todo>>

\* Mutant: the timer of the resumed thread keeps running.
Disarmed_Not(u) == armed

\* rt_timer_stop of thread_timer in rt_thread_resume.
Disarmed(u) == armed \ {u}

\* rt_thread_resume, interrupts disabled as in ipc.c.
Resume(t, u) ==
    /\ Runs(t) /\ k.stat[u] = "suspend" /\ Kept(u)
    /\ k' = InsertThread(k, u)
    /\ armed' = Disarmed(u)
    /\ Then(t, ToSchedule)
    /\ UNCHANGED <<nest, remaining, defunct>>

\* rt_thread_control.
ChangePriority(t, u, p) ==
    /\ Runs(t) /\ u \in Adjusted /\ k.prio[u] # p /\ p < Lowest /\ Kept(u)
    /\ k.stat[u] \in {"ready", "suspend", "running"}
    /\ k' = Reprioritised(k, u, p)
    /\ UNCHANGED <<nest, remaining, armed, defunct, todo>>

\* rt_enter_critical.
EnterCritical(t) ==
    /\ Runs(t) /\ nest < MaxNest
    /\ nest' = nest + 1
    /\ UNCHANGED <<k, remaining, armed, defunct, todo>>

\* Mutant: the switch owed since the lock is not made up for.
ExitCritical_Silent(t) ==
    /\ Runs(t) /\ nest > 0
    /\ nest' = nest - 1
    /\ UNCHANGED <<k, remaining, armed, defunct, todo>>

\* rt_exit_critical.
ExitCritical(t) ==
    /\ Runs(t) /\ nest > 0
    /\ nest' = nest - 1
    /\ Then(t, IF nest' = 0 THEN ToSchedule ELSE Nothing)
    /\ UNCHANGED <<k, remaining, armed, defunct>>

\* The call of rt_schedule at the end of a function.
CallSchedule(t) ==
    /\ k.cur = t /\ todo[t] = ToSchedule
    /\ k' = Schedule(k)
    /\ Then(t, Nothing)
    /\ UNCHANGED <<nest, remaining, armed, defunct>>

\* rt_thread_yield.
Yield(t) ==
    /\ Runs(t)
    /\ k' = Schedule(k)
    /\ UNCHANGED <<nest, remaining, armed, defunct, todo>>

(***************************************************************************)
(* The end of a thread.                                                    *)
(***************************************************************************)

\* A static thread without a cleanup function is only detached; it may be
\* initialised again at once.
Closed(s, t) == [s EXCEPT !.stat[t] = IF t \in Static THEN "init" ELSE "close", !.yield = @ \ {t}]
Buried(t) == IF t \in Static THEN defunct ELSE <<t>> \o defunct

\* rt_thread_exit, when the entry function returns.
Exit(t) ==
    /\ Runs(t) /\ t \in Mortal /\ nest = 0
    /\ k' = Schedule(Closed(RemoveThread(k, t), t))
    /\ armed' = armed \ {t}
    /\ defunct' = Buried(t)
    /\ UNCHANGED <<nest, remaining, todo>>

\* rt_thread_delete and rt_thread_detach, of another thread or of itself, but not of one that is
\* deleting another: the thread is taken out of the queues, ...
Delete(t, u) ==
    /\ Runs(t) /\ u \in Mortal /\ Kept(u) /\ k.stat[u] \in {"ready", "suspend", "running"}
    /\ t = u => nest = 0
    /\ Len(todo[u]) = 1
    /\ u \in armed => DeletesTimed
    /\ k' = RemoveThread(k, u)
    /\ Then(t, <<"detach", u>>)
    /\ UNCHANGED <<nest, remaining, armed, defunct>>

\* ... its timer is detached, ...
DeleteTimer(t, u) ==
    /\ k.cur = t /\ todo[t] = <<"detach", u>>
    /\ armed' = armed \ {u}
    /\ Then(t, <<"close", u>>)
    /\ UNCHANGED <<k, nest, remaining, defunct>>

\* ... and it is closed and handed to the idle thread.
DeleteClose(t, u) ==
    /\ k.cur = t /\ todo[t] = <<"close", u>>
    /\ k' = Closed(k, u)
    /\ defunct' = Buried(u)
    /\ Then(t, IF t = u THEN ToSchedule ELSE Nothing)
    /\ UNCHANGED <<nest, remaining, armed>>

\* rt_thread_idle_excute: the first defunct thread is freed, with the scheduler locked
\* until then.
Reap ==
    /\ Runs(Idle) /\ defunct # <<>>
    /\ k' = Schedule([k EXCEPT !.stat[Head(defunct)] = "init"])
    /\ defunct' = Tail(defunct)
    /\ UNCHANGED <<nest, remaining, armed, todo>>

(***************************************************************************)
(* The interrupts.                                                         *)
(***************************************************************************)

\* rt_tick_increase: at the end of its slice the current thread is marked and
\* rt_schedule called.
Tick ==
    LET over == remaining[k.cur] = 1
    IN  /\ remaining' = [remaining EXCEPT ![k.cur] = IF over THEN Slice[k.cur] ELSE @ - 1]
        /\ k' = IF over THEN Schedule([k EXCEPT !.yield = @ \cup {k.cur}]) ELSE k
        /\ UNCHANGED <<nest, armed, defunct, todo>>

\* rt_thread_timeout, from rt_timer_check.
Timeout(u) ==
    /\ u \in armed
    /\ k' = Schedule(InsertThread(k, u))
    /\ armed' = armed \ {u}
    /\ UNCHANGED <<nest, remaining, defunct, todo>>

\* An interrupt handler resumes a thread and calls rt_schedule.
ResumeFromInterrupt(u) ==
    /\ k.stat[u] = "suspend" /\ Kept(u)
    /\ k' = Schedule(InsertThread(k, u))
    /\ armed' = Disarmed(u)
    /\ UNCHANGED <<nest, remaining, defunct, todo>>

Step(t) ==
    \/ SuspendSelf(t) \/ EnterCritical(t) \/ ExitCritical(t) \/ CallSchedule(t) \/ Yield(t) \/ Exit(t)
    \/ \E u \in Threads :
          \/ Startup(t, u) \/ SuspendOther(t, u) \/ Resume(t, u)
          \/ Delete(t, u) \/ DeleteTimer(t, u) \/ DeleteClose(t, u)
          \/ \E p \in Prios : ChangePriority(t, u, p)

Next ==
    \/ \E t \in All : Step(t)
    \/ Reap \/ Tick
    \/ \E u \in Threads : Timeout(u) \/ ResumeFromInterrupt(u)

Spec == Init /\ [][Next]_vars

\* What the current thread has still to do.
Continue == \E t \in All : CallSchedule(t) \/ \E u \in Threads : DeleteTimer(t, u) \/ DeleteClose(t, u)

\* The tick interrupt keeps coming; the current thread goes on with the function it is
\* in and does not stay in a critical section for ever, whatever it does there.
FairSpec ==
    Spec /\ WF_vars(Tick) /\ WF_vars(Continue) /\ SF_vars(\E t \in All : ExitCritical(t))

-----------------------------------------------------------------------------

\* The bits of rt_thread_ready_priority_group are those of the queues that are not
\* empty; a thread is queued once, under its priority, exactly while it is READY,
\* and not while it is current.  A thread that is being deleted has left the queues,
\* unless the deleting thread is the deleted one and was preempted.
QueuesExact ==
    /\ TypeOK
    /\ k.group = {p \in Prios : k.ready[p] # <<>>}
    /\ \A p \in Prios : /\ IsInjective(k.ready[p])
                        /\ \A t \in Range(k.ready[p]) : k.prio[t] = p /\ k.stat[t] = "ready" /\ t # k.cur
    /\ \A t \in All : k.stat[t] = "ready" /\ Kept(t) => t \in Range(k.ready[k.prio[t]])
    /\ \A t \in Threads : t \in Range(defunct) <=> k.stat[t] = "close"

\* No preemption is missed: while a ready thread is more urgent than the current one,
\* the scheduler is locked or the current thread is about to call rt_schedule; so it
\* is when the current thread is not RUNNING any more.  A change of priority by
\* rt_thread_control takes effect at the next rt_schedule only.
NoMissedPreemption ==
    nest = 0 /\ todo[k.cur] # ToSchedule =>
        /\ k.stat[k.cur] = "running"
        /\ k.cur \notin Adjusted =>
              \A p \in Prios : \A t \in Range(k.ready[p]) \ Adjusted : k.prio[k.cur] <= p

\* A thread whose timer runs is suspended: the assertion of rt_thread_timeout.
TimedIsSuspended == \A t \in armed : k.stat[t] = "suspend"

\* A thread does not stay ready for ever while only threads as urgent as it or less
\* urgent run: the time slices pass the processor on.
TurnComes ==
    \A t \in Threads : []<>(\/ k.cur = t \/ t \notin Range(k.ready[k.prio[t]])
                            \/ k.prio[k.cur] < k.prio[t])

\* "After yield processor, the current thread is still in READY state." (thread.c:468):
\* a thread that calls rt_thread_yield gives way to one that is as urgent.
YieldGivesWay ==
    \A t \in Threads : Runs(t) /\ nest = 0 /\ k.prio[t] \in k.group => Schedule(k).stat[t] = "ready"

=============================================================================
