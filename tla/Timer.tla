------------------------------- MODULE Timer -------------------------------
(***************************************************************************)
(* The timers of timer.c: the list of hard timers, served by the tick      *)
(* interrupt (rt_tick_increase, rt_timer_check), and the list of soft      *)
(* timers, served by the timer thread (rt_thread_timer_entry,              *)
(* rt_soft_timer_check), which itself sleeps on a hard timer.              *)
(*                                                                         *)
(* Ticks are counted modulo TickValues and compared as timer.c does.  A    *)
(* section with interrupts disabled is one step.  The whole interrupt is   *)
(* kept indivisible by isr, the parts of the timer thread with the         *)
(* scheduler locked by Locked: there only the tick interrupt may step in.  *)
(* Each timer is operated by one caller at a time.  A local variable of    *)
(* the timer thread is reset once it is not used any more.                 *)
(***************************************************************************)
EXTENDS Integers, Sequences, FiniteSets, SequencesExt, Functions

CONSTANTS Hard,        \* the timers without RT_TIMER_FLAG_SOFT_TIMER
          Soft,        \* the timers with it
          ThreadTimer, \* timer_thread.thread_timer
          Periodic,    \* the timers initialised with RT_TIMER_FLAG_PERIODIC
          FirstInit,   \* the init_tick each timer is initialised with
          Controlled,  \* the timers whose callers use rt_timer_control
          TickValues,  \* the number of values of rt_tick_t, 2^32 in the build
          InitTicks,   \* bound: the init_tick values given to timers
          MaxLate,     \* bound: the ticks by which the timer thread or a caller
                       \* interrupted in rt_timer_start may fall behind
          MaxCalls,    \* bound: the calls in progress at a time
          None         \* the head of the soft timer list, as a place in it

RT_TICK_MAX == TickValues - 1
HalfRange == RT_TICK_MAX \div 2
Timers == Hard \cup Soft \cup {ThreadTimer}

ASSUME TimerAssumption ==
    /\ Hard \cap Soft = {} /\ ThreadTimer \notin Hard \cup Soft /\ None \notin Timers
    /\ Periodic \subseteq Hard \cup Soft /\ FirstInit \in [Hard \cup Soft -> InitTicks]
    /\ TickValues \in Nat /\ TickValues > 1 /\ TickValues % 2 = 0 /\ MaxLate \in Nat
    /\ \A i \in InitTicks : i \in Nat /\ i > 0 /\ i + MaxLate < HalfRange

VARIABLES tick,      \* rt_tick
          isr,       \* the tick interrupt is being served
          hard,      \* rt_timer_list
          soft,      \* rt_soft_timer_list
          due,       \* timeout_tick
          init,      \* init_tick
          active,    \* the timers with RT_TIMER_FLAG_ACTIVATED
          periodic,  \* the timers with RT_TIMER_FLAG_PERIODIC
          op,        \* where the caller of each timer is
          stat,      \* timer_thread.stat
          pc,        \* where the timer thread is
          next,      \* its next_timeout
          cur,       \* its current_tick
          n,         \* its place in the list
          running,   \* the timer whose timeout function it calls
          left,      \* history: the ticks still to pass since the last start
          stopped    \* history: the hard timers whose rt_timer_stop returned RT_EOK last

thread == <<stat, pc, next, cur, n, running>>
vars == <<tick, isr, hard, soft, due, init, active, periodic, op, thread, left, stopped>>

Linked == Range(hard) \cup Range(soft)
Ticks == 0 .. RT_TICK_MAX

\* One entry per timer, in the list of its kind.
TypeOK ==
    /\ tick \in Ticks /\ cur \in Ticks /\ next \in Ticks /\ isr \in BOOLEAN
    /\ hard \in Seq(Hard \cup {ThreadTimer}) /\ IsInjective(hard)
    /\ soft \in Seq(Soft) /\ IsInjective(soft)
    /\ due \in [Timers -> Ticks] /\ init \in [Timers -> 0 .. HalfRange - 1]
    /\ active \subseteq Timers /\ periodic \subseteq Timers \ {ThreadTimer}
    /\ op \in [Hard \cup Soft -> {"idle", "compute", "insert", "resume", "remove", "clear"}]
    /\ stat \in {"ready", "suspend"}
    /\ pc \in {"next", "suspend", "delta", "delay", "check", "walk", "callback", "finish"}
    /\ n \in Soft \cup {None} /\ running \in Soft \cup {None}
    /\ left \in [Timers -> Int] /\ stopped \subseteq Hard

\* rt_system_timer_init, rt_system_timer_thread_init and rt_timer_init of every
\* timer, at any tick.
Init ==
    /\ tick \in Ticks /\ isr = FALSE /\ hard = <<>> /\ soft = <<>>
    /\ due = [t \in Timers |-> 0] /\ active = {} /\ periodic = Periodic
    /\ init = [t \in Timers |-> IF t = ThreadTimer THEN 0 ELSE FirstInit[t]]
    /\ op = [t \in Hard \cup Soft |-> "idle"]
    /\ stat = "ready" /\ pc = "next" /\ next = 0 /\ cur = 0 /\ n = None /\ running = None
    /\ left = [t \in Timers |-> 0] /\ stopped = {}

(***************************************************************************)
(* Ticks and lists.                                                        *)
(***************************************************************************)

Plus(a, b) == (a + b) % TickValues
Minus(a, b) == (a - b) % TickValues

\* Mutant: the values are compared, not their difference.
Before_Plain(a, b) == a < b

\* a lies before b: (b - a) is not zero and less than RT_TICK_MAX / 2.
Before(a, b) == a # b /\ Minus(b, a) < HalfRange

\* (current_tick - timeout_tick) < RT_TICK_MAX / 2.
Due(d, now) == Minus(now, d) < HalfRange

\* Mutant: the timer goes in front.
InsertTimer_Front(list, t, d) == <<t>> \o list

\* The search of rt_timer_start: t goes in front of the first timer that is due
\* after it, behind those due at the same tick.
InsertTimer(list, t, d) ==
    LET later == {i \in DOMAIN list : Before(d[t], d[list[i]])}
        at == IF later = {} THEN Len(list) + 1 ELSE CHOOSE i \in later : \A j \in later : i <= j
    IN  InsertAt(list, at, t)

\* rt_timer_start as seen by whoever cannot be interrupted in it.
Started(list, t) == InsertTimer(Remove(list, t), t, [due EXCEPT ![t] = Plus(tick, init[t])])

(***************************************************************************)
(* The tick interrupt.                                                     *)
(***************************************************************************)

\* The timer thread is in rt_soft_timer_check with the scheduler locked.
Locked == pc \in {"walk", "finish"}

\* Bound: nobody falls behind by more than MaxLate ticks.
Punctual ==
    /\ \A t \in Range(soft) : left[t] > -MaxLate
    /\ \A t \in Hard \cup Soft : op[t] = "insert" => left[t] > -MaxLate
    /\ Locked => Minus(tick, cur) < MaxLate
    /\ pc = "delta" => Minus(tick, next) # MaxLate

\* rt_tick_increase; the time slice of the running thread is left to the scheduler.
Tick ==
    /\ ~isr /\ Punctual
    /\ tick' = Plus(tick, 1)
    /\ isr' = TRUE
    /\ left' = [t \in Timers |-> IF left[t] > -MaxLate THEN left[t] - 1 ELSE left[t]]
    /\ UNCHANGED <<hard, soft, due, init, active, periodic, op, thread, stopped>>

\* rt_thread_timeout of the timer thread.
TimeOut ==
    /\ Head(hard) = ThreadTimer
    /\ hard' = Tail(hard)
    /\ active' = active \ {ThreadTimer}
    /\ stat' = "ready"
    /\ UNCHANGED <<tick, isr, soft, due, init, periodic, op, pc, next, cur, n, running, left, stopped>>

\* The first timer is taken out, its function called, which may start or
\* stop the timer, and a periodic timer that is active after that is
\* started again.  A one-shot timer loses the flag even if it was started.
Fire(t, call) ==
    LET starts == call = "start" \/ (t \in periodic \cap active /\ call # "stop")
    IN  /\ hard' = IF starts THEN Started(hard, t) ELSE Tail(hard)
        /\ due' = IF starts THEN [due EXCEPT ![t] = Plus(tick, init[t])] ELSE due
        /\ left' = IF starts THEN [left EXCEPT ![t] = init[t]] ELSE left
        /\ active' = IF starts /\ t \in periodic THEN active \cup {t} ELSE active \ {t}
        /\ stopped' = IF call = "start" THEN stopped \ {t} ELSE stopped
        /\ UNCHANGED <<tick, isr, soft, init, periodic, op, thread>>

\* rt_timer_check, one turn of its loop.
Check ==
    /\ isr /\ hard # <<>> /\ Due(due[Head(hard)], tick)
    /\ TimeOut \/ (Head(hard) \in Hard /\ \E call \in {"none", "start", "stop"} : Fire(Head(hard), call))

CheckEnd ==
    /\ isr /\ (hard # <<>> => ~Due(due[Head(hard)], tick))
    /\ isr' = FALSE
    /\ UNCHANGED <<tick, hard, soft, due, init, active, periodic, op, thread, left, stopped>>

(***************************************************************************)
(* The callers.  A caller of a soft timer may be its own timeout function. *)
(***************************************************************************)

Free(t, place) ==
    /\ ~isr /\ ~Locked /\ op[t] = place
    /\ place = "idle" => Cardinality({u \in DOMAIN op : op[u] # "idle"}) < MaxCalls
Goto(t, place) == op' = [op EXCEPT ![t] = place]

Unlink(t) == hard' = Remove(hard, t) /\ soft' = Remove(soft, t)

\* rt_timer_start: the timer is stopped first; ...
StartRemove(t) ==
    /\ Free(t, "idle") /\ Goto(t, "compute")
    /\ Unlink(t)
    /\ active' = active \ {t}
    /\ UNCHANGED <<tick, isr, due, init, periodic, thread, left, stopped>>

\* ... its timeout is computed with interrupts enabled; ...
StartCompute(t) ==
    /\ Free(t, "compute") /\ Goto(t, "insert")
    /\ due' = [due EXCEPT ![t] = Plus(tick, init[t])]
    /\ left' = [left EXCEPT ![t] = init[t]]
    /\ UNCHANGED <<tick, isr, hard, soft, init, active, periodic, thread, stopped>>

\* ... it is inserted in the list of its kind.
StartInsert(t) ==
    /\ Free(t, "insert") /\ Goto(t, IF t \in Soft THEN "resume" ELSE "idle")
    /\ hard' = IF t \in Hard THEN InsertTimer(hard, t, due) ELSE hard
    /\ soft' = IF t \in Soft THEN InsertTimer(soft, t, due) ELSE soft
    /\ active' = active \cup {t}
    /\ stopped' = stopped \ {t}
    /\ UNCHANGED <<tick, isr, due, init, periodic, thread, left>>

\* For a soft timer, the timer thread is resumed if it is suspended; rt_thread_resume
\* stops its timer.
StartResume(t) ==
    /\ Free(t, "resume") /\ Goto(t, "idle")
    /\ IF stat = "suspend"
       THEN /\ stat' = "ready"
            /\ hard' = Remove(hard, ThreadTimer)
            /\ active' = active \ {ThreadTimer}
       ELSE UNCHANGED <<stat, hard, active>>
    /\ UNCHANGED <<tick, isr, soft, due, init, periodic, pc, next, cur, n, running, left, stopped>>

\* rt_timer_stop: a timer that is not active is refused; ...
StopTest(t) ==
    /\ Free(t, "idle") /\ t \in active /\ Goto(t, "remove")
    /\ UNCHANGED <<tick, isr, hard, soft, due, init, active, periodic, thread, left, stopped>>

\* Mutant: the timer is only marked, not taken out of its list.
StopRemove_Marks(t) ==
    /\ Free(t, "remove") /\ Goto(t, "clear")
    /\ UNCHANGED <<tick, isr, hard, soft, due, init, active, periodic, thread, left, stopped>>

\* ... the timer is taken out; ...
StopRemove(t) ==
    /\ Free(t, "remove") /\ Goto(t, "clear")
    /\ Unlink(t)
    /\ UNCHANGED <<tick, isr, due, init, active, periodic, thread, left, stopped>>

\* ... and the flag is cleared with interrupts enabled.
StopClear(t) ==
    /\ Free(t, "clear") /\ Goto(t, "idle")
    /\ active' = active \ {t}
    /\ stopped' = stopped \cup ({t} \cap Hard)
    /\ UNCHANGED <<tick, isr, hard, soft, due, init, periodic, thread, left>>

\* rt_timer_control.
Control(t) ==
    /\ Free(t, "idle") /\ t \in Controlled
    /\ \/ \E i \in InitTicks : init' = [init EXCEPT ![t] = i] /\ UNCHANGED periodic
       \/ periodic' \in {periodic \cup {t}, periodic \ {t}} /\ UNCHANGED init
    /\ UNCHANGED <<tick, isr, hard, soft, due, active, op, thread, left, stopped>>

\* rt_timer_detach and rt_timer_delete, then rt_timer_init of the same storage.
Detach(t) ==
    /\ Free(t, "idle")
    /\ Unlink(t)
    /\ active' = active \ {t}
    /\ due' = [due EXCEPT ![t] = 0]
    /\ stopped' = stopped \ {t}
    /\ UNCHANGED <<tick, isr, init, periodic, op, thread, left>>

Caller(t) ==
    \/ StartRemove(t) \/ StartCompute(t) \/ StartInsert(t) \/ StartResume(t)
    \/ StopTest(t) \/ StopRemove(t) \/ StopClear(t) \/ Control(t) \/ Detach(t)

(***************************************************************************)
(* The timer thread.                                                       *)
(***************************************************************************)

At(place) == ~isr /\ stat = "ready" /\ pc = place
shared == <<tick, isr, soft, due, init, periodic, op, left, stopped>>

\* rt_timer_list_next_timeout, interrupts enabled.
NextTimeout ==
    /\ At("next")
    /\ next' = IF soft = <<>> THEN RT_TICK_MAX ELSE due[Head(soft)]
    /\ pc' = IF next' = RT_TICK_MAX THEN "suspend" ELSE "delta"
    /\ UNCHANGED <<shared, hard, active, stat, cur, n, running>>

\* rt_thread_suspend(rt_thread_self()).
Suspend ==
    /\ At("suspend")
    /\ stat' = "suspend"
    /\ pc' = "check" /\ next' = 0
    /\ UNCHANGED <<shared, hard, active, cur, n, running>>

\* An overdue timer is served without a delay.
Delta ==
    /\ At("delta")
    /\ IF Minus(next, tick) < HalfRange
       THEN next' = Minus(next, tick) /\ pc' = "delay"
       ELSE next' = 0 /\ pc' = "check"
    /\ UNCHANGED <<shared, hard, active, stat, cur, n, running>>

\* rt_thread_delay: the thread is suspended and its timer started.
Delay ==
    /\ At("delay")
    /\ stat' = "suspend" /\ pc' = "check" /\ next' = 0
    /\ init' = [init EXCEPT ![ThreadTimer] = next]
    /\ due' = [due EXCEPT ![ThreadTimer] = Plus(tick, next)]
    /\ left' = [left EXCEPT ![ThreadTimer] = next]
    /\ hard' = InsertTimer(Remove(hard, ThreadTimer), ThreadTimer, due')
    /\ active' = active \cup {ThreadTimer}
    /\ UNCHANGED <<tick, isr, soft, periodic, op, stopped, cur, n, running>>

\* rt_soft_timer_check: the tick is read, the scheduler locked.
CheckSoft ==
    /\ At("check")
    /\ cur' = tick
    /\ n' = IF soft = <<>> THEN None ELSE Head(soft)
    /\ pc' = "walk"
    /\ UNCHANGED <<shared, hard, active, stat, next, running>>

\* n->next; a timer that was taken out of the list points at itself.
NextOf(t) ==
    IF t \notin Range(soft) THEN t
    ELSE LET i == CHOOSE k \in DOMAIN soft : soft[k] = t IN IF i = Len(soft) THEN None ELSE soft[i + 1]

\* The timer at n is due: it is taken out, the scheduler unlocked and its function
\* called.
Serve ==
    /\ At("walk") /\ n # None /\ Due(due[n], cur)
    /\ n' = NextOf(n)
    /\ running' = n
    /\ soft' = Remove(soft, n)
    /\ pc' = "callback" /\ cur' = 0
    /\ UNCHANGED <<tick, isr, hard, due, init, active, periodic, op, left, stopped, stat, next>>

Leave ==
    /\ At("walk") /\ (n # None => ~Due(due[n], cur))
    /\ pc' = "next" /\ n' = None /\ cur' = 0
    /\ UNCHANGED <<shared, hard, active, stat, next, running>>

\* The function returns and the tick is read again.
Return ==
    /\ At("callback")
    /\ cur' = tick
    /\ pc' = "finish"
    /\ UNCHANGED <<shared, hard, active, stat, next, n, running>>

\* With the scheduler locked: a periodic timer that is still active is started again.
\* A tick inside rt_timer_start changes nothing that start uses.
Finish ==
    /\ At("finish")
    /\ LET t == running IN
       IF t \in periodic \cap active
       THEN /\ due' = [due EXCEPT ![t] = Plus(tick, init[t])]
            /\ left' = [left EXCEPT ![t] = init[t]]
            /\ soft' = Started(soft, t)
            /\ UNCHANGED active
       ELSE active' = active \ {t} /\ UNCHANGED <<due, left, soft>>
    /\ pc' = "walk" /\ running' = None
    /\ UNCHANGED <<tick, isr, hard, init, periodic, op, stopped, stat, next, cur, n>>

Thread == NextTimeout \/ Suspend \/ Delta \/ Delay \/ CheckSoft \/ Serve \/ Leave \/ Return \/ Finish

Next ==
    \/ Tick \/ Check \/ CheckEnd
    \/ \E t \in Hard \cup Soft : Caller(t)
    \/ Thread

Spec == Init /\ [][Next]_vars

-----------------------------------------------------------------------------

\* Both lists are in the order of the timeouts across the wrap of the tick counter,
\* whatever mix of starts, stops, restarts from timeout functions and late
\* insertions built them: only their first entry is ever looked at.
Sorted ==
    /\ TypeOK
    /\ \A i, j \in DOMAIN hard : i < j => left[hard[i]] <= left[hard[j]]
    /\ \A i, j \in DOMAIN soft : i < j => left[soft[i]] <= left[soft[j]]

\* When the tick interrupt ends no hard timer that is due is left in the list.
AllDueServed == [][isr /\ ~isr' => \A t \in Range(hard') : left'[t] > 0]_vars

\* A timer in its list is not served before init_tick ticks have passed since it was
\* started, and a hard timer not after rt_timer_stop has returned RT_EOK.
ServedRightly ==
    [][/\ Check => left[Head(hard)] <= 0 /\ Head(hard) \notin stopped
       /\ Serve /\ n \in Range(soft) => left[n] <= 0]_vars

\* "no software timer exist, suspend self." (timer.c:649): the timer thread sleeps
\* without a timeout only while the list of soft timers is empty, or while a caller
\* is about to resume it.
SleepsWithoutTimers ==
    stat = "suspend" /\ ThreadTimer \notin active
        => soft = <<>> \/ \E t \in Soft : op[t] = "resume"

=============================================================================
