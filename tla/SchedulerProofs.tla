-------------------------- MODULE SchedulerProofs --------------------------
(***************************************************************************)
(* Proofs about the scheduler, for any number of threads and priorities,   *)
(* any time slices and any depth of rt_enter_critical: the ready queues    *)
(* are exact, no preemption is missed, and the timer of a thread runs only *)
(* while the thread is suspended.                                          *)
(***************************************************************************)
EXTENDS Scheduler, TLAPS

-----------------------------------------------------------------------------
(* Lists.                                                                  *)

\* A thread is linked behind the others.
LEMMA AppendList ==
    ASSUME NEW l \in Seq(All), NEW t \in All, IsInjective(l), t \notin Range(l)
    PROVE  /\ Append(l, t) \in Seq(All) /\ Append(l, t) # <<>> /\ IsInjective(Append(l, t))
           /\ Range(Append(l, t)) = Range(l) \cup {t}
<1> DEFINE n == Len(l)
           m == Append(l, t)
<1>1. n \in Nat /\ DOMAIN l = 1..n /\ m \in Seq(All) /\ Len(m) = n + 1 /\ DOMAIN m = 1..(n + 1)
      /\ m[n + 1] = t /\ \A i \in 1..n : m[i] = l[i]
  OBVIOUS
<1>2. \A i \in 1..n : l[i] # t
  BY <1>1 DEF Range
<1> HIDE DEF m
<1>3. \A i \in 1..(n + 1) : i = n + 1 \/ i \in 1..n
  BY <1>1
<1>4. IsInjective(m)
  BY <1>1, <1>2, <1>3 DEF IsInjective
<1>5. Range(m) = Range(l) \cup {t}
  <2>1. ASSUME NEW x \in Range(m) PROVE x \in Range(l) \cup {t}
    BY <1>1, <1>3 DEF Range
  <2>2. ASSUME NEW x \in Range(l) PROVE x \in Range(m)
    <3>1. PICK i \in 1..n : x = l[i]
      BY <1>1 DEF Range
    <3>2. i \in 1..(n + 1) /\ x = m[i]
      BY <1>1, <3>1
    <3> QED BY <1>1, <3>2 DEF Range
  <2>3. n + 1 \in 1..(n + 1)
    BY <1>1
  <2>4. t \in Range(m)
    BY <1>1, <2>3 DEF Range
  <2> QED BY <2>1, <2>2, <2>4
<1>6. m # <<>>
  BY <1>1
<1> QED BY <1>1, <1>4, <1>5, <1>6 DEF m

\* A list without members is empty.
LEMMA EmptyList ==
    ASSUME NEW l \in Seq(All)
    PROVE  l = <<>> <=> Range(l) = {}
<1>1. DOMAIN l = 1..Len(l) /\ Len(l) \in Nat
  OBVIOUS
<1>2. ASSUME Range(l) = {} PROVE l = <<>>
  <2>1. DOMAIN l = {}
    BY <1>2 DEF Range
  <2>2. Len(l) = 0
    BY <1>1, <2>1
  <2> QED BY <2>2
<1>3. ASSUME l = <<>> PROVE Range(l) = {}
  BY <1>3 DEF Range
<1> QED BY <1>2, <1>3

\* A thread is unlinked, wherever it is.
LEMMA RemoveList ==
    ASSUME NEW l \in Seq(All), NEW t \in All, IsInjective(l)
    PROVE  /\ ListRemove(l, t) \in Seq(All) /\ IsInjective(ListRemove(l, t))
           /\ Range(ListRemove(l, t)) = Range(l) \ {t}
           /\ t \notin Range(l) => ListRemove(l, t) = l
<1> DEFINE n == Len(l)
           m == ListRemove(l, t)
<1>1. n \in Nat /\ DOMAIN l = 1..n /\ \A i \in 1..n : l[i] \in All
  OBVIOUS
<1>2. CASE t \notin Range(l)
  BY <1>2 DEF ListRemove
<1>3. CASE t \in Range(l)
  <2> DEFINE j == CHOOSE i \in DOMAIN l : l[i] = t
  <2>1. j \in 1..n /\ l[j] = t
    BY <1>1, <1>3 DEF Range
  <2>2. m = [i \in 1..(n - 1) |-> IF i < j THEN l[i] ELSE l[i + 1]]
    BY <1>3 DEF ListRemove
  <2> HIDE DEF j, m
  <2>3. \A i \in 1..(n - 1) : (IF i < j THEN l[i] ELSE l[i + 1]) \in All
    BY <1>1
  <2>4. n - 1 \in Nat
    BY <1>1, <2>1
  <2>5. /\ m \in Seq(All) /\ DOMAIN m = 1..(n - 1)
        /\ \A i \in 1..(n - 1) : m[i] = IF i < j THEN l[i] ELSE l[i + 1]
    BY <2>2, <2>3, <2>4
  <2>6. IsInjective(m)
    <3> SUFFICES ASSUME NEW x \in 1..(n - 1), NEW y \in 1..(n - 1), m[x] = m[y] PROVE x = y
      BY <2>5 DEF IsInjective
    <3>1. \A v, w \in 1..n : l[v] = l[w] => v = w
      BY <1>1 DEF IsInjective
    <3> QED BY <1>1, <2>1, <2>5, <3>1
  <2>7. ASSUME NEW x \in Range(m) PROVE x \in Range(l) \ {t}
    <3>1. PICK i \in 1..(n - 1) : x = m[i]
      BY <2>5 DEF Range
    <3>2. PICK y \in 1..n : x = l[y] /\ y # j
      BY <1>1, <2>1, <2>5, <3>1
    <3> QED BY <1>1, <2>1, <3>2 DEF Range, IsInjective
  <2>8. ASSUME NEW x \in Range(l) \ {t} PROVE x \in Range(m)
    <3>1. PICK y \in 1..n : x = l[y] /\ y # j
      BY <1>1, <2>1 DEF Range
    <3>2. CASE y < j
      <4>1. y \in 1..(n - 1) /\ m[y] = x
        BY <1>1, <2>1, <2>5, <3>1, <3>2
      <4> QED BY <2>5, <4>1 DEF Range
    <3>3. CASE y > j
      <4>1. y - 1 \in 1..(n - 1) /\ m[y - 1] = x
        BY <1>1, <2>1, <2>5, <3>1, <3>3
      <4> QED BY <2>5, <4>1 DEF Range
    <3> QED BY <1>1, <2>1, <3>1, <3>2, <3>3
  <2> QED BY <1>3, <2>5, <2>6, <2>7, <2>8 DEF m
<1> QED BY <1>2, <1>3

-----------------------------------------------------------------------------
(* The ready queues.                                                       *)

Kernels == [ready : [Prios -> Seq(All)], group : SUBSET Prios, cur : All,
            stat : [All -> Stats], prio : [All -> Prios], yield : SUBSET All]

\* The queue of priority p as a set, and whether t is in a queue.
Row(s, p) == Range(s.ready[p])
InQueue(s, t) == t \in Row(s, s.prio[t])

\* The bits are those of the queues that are not empty, and a thread is queued once and
\* under its priority.
Lists(s) ==
    /\ s \in Kernels
    /\ \A p \in Prios : (p \in s.group <=> Row(s, p) # {}) /\ IsInjective(s.ready[p])
    /\ \A p \in Prios : \A t \in Row(s, p) : t \in All /\ s.prio[t] = p

\* The operations change the queues and nothing else, but for stat.
SameBut(r, s, stat) == r.cur = s.cur /\ r.prio = s.prio /\ r.yield = s.yield /\ r.stat = stat

\* Members of a queue are threads.
LEMMA RowType ==
    ASSUME NEW s \in Kernels, NEW p \in Prios, NEW t \in Row(s, p)
    PROVE  t \in All
<1>1. s.ready[p] \in Seq(All)
  BY DEF Kernels
<1>2. \A i \in DOMAIN s.ready[p] : s.ready[p][i] \in All
  BY <1>1
<1> QED BY <1>2 DEF Row, Range

\* rt_schedule_insert_thread puts a thread that is in no queue into the one of its priority.
LEMMA InsertLists ==
    ASSUME NEW s, Lists(s), NEW t \in All, t # s.cur, ~InQueue(s, t)
    PROVE  /\ Lists(InsertThread(s, t))
           /\ SameBut(InsertThread(s, t), s, [s.stat EXCEPT ![t] = "ready"])
           /\ \A p \in Prios : Row(InsertThread(s, t), p) = IF p = s.prio[t] THEN Row(s, p) \cup {t} ELSE Row(s, p)
<1> DEFINE r == InsertThread(s, t)
           q == s.prio[t]
<1>1. s \in Kernels /\ q \in Prios /\ s.ready[q] \in Seq(All) /\ IsInjective(s.ready[q]) /\ t \notin Range(s.ready[q])
  BY DEF Lists, Kernels, InQueue, Row
<1>2. r = [s EXCEPT !.stat[t] = "ready", !.ready[q] = Append(@, t), !.group = @ \cup {q}]
  BY DEF InsertThread
<1>3. /\ r.cur = s.cur /\ r.prio = s.prio /\ r.yield = s.yield /\ r.stat = [s.stat EXCEPT ![t] = "ready"]
      /\ r.ready = [s.ready EXCEPT ![q] = Append(s.ready[q], t)] /\ r.group = s.group \cup {q}
  BY <1>1, <1>2 DEF Kernels
<1>4. r \in Kernels
  <2>1. Append(s.ready[q], t) \in Seq(All)
    BY <1>1
  <2>2. PICK y \in [Prios -> Seq(All)] : y = [s.ready EXCEPT ![q] = Append(s.ready[q], t)]
    BY <1>1, <2>1, Zenon DEF Kernels
  <2>3. PICK x \in [All -> Stats] : x = [s.stat EXCEPT ![t] = "ready"]
    BY <1>1, Zenon DEF Kernels, Stats
  <2>4. PICK z \in SUBSET Prios : z = s.group \cup {q}
    BY <1>1, Zenon DEF Kernels
  <2>5. r = [s EXCEPT !.stat = x, !.ready = y, !.group = z]
    BY <1>1, <1>2, <2>2, <2>3, <2>4 DEF Kernels
  <2> HIDE DEF r, q
  <2> QED BY <1>1, <2>5, Zenon DEF Kernels
<1> HIDE DEF r
<1>5. Row(r, q) = Row(s, q) \cup {t} /\ IsInjective(r.ready[q])
  <2>1. r.ready[q] = Append(s.ready[q], t)
    BY <1>1, <1>3 DEF Kernels
  <2> QED BY <1>1, <2>1, AppendList, Zenon DEF Row
<1>6. ASSUME NEW p \in Prios, p # q PROVE r.ready[p] = s.ready[p] /\ Row(r, p) = Row(s, p)
  BY <1>1, <1>3, <1>6 DEF Kernels, Row
<1>7. Lists(r)
  <2>1. ASSUME NEW p \in Prios PROVE (p \in r.group <=> Row(r, p) # {}) /\ IsInjective(r.ready[p])
    BY <1>1, <1>3, <1>5, <1>6, Zenon DEF Lists
  <2>2. ASSUME NEW p \in Prios, NEW u \in Row(r, p) PROVE u \in All /\ r.prio[u] = p
    BY <1>3, <1>5, <1>6 DEF Lists
  <2> QED BY <1>4, <2>1, <2>2 DEF Lists
<1> QED BY <1>3, <1>5, <1>6, <1>7 DEF SameBut, r

\* rt_schedule_remove_thread takes a thread out of its queue, if it is in one.
LEMMA RemoveLists ==
    ASSUME NEW s, Lists(s), NEW t \in All
    PROVE  /\ Lists(RemoveThread(s, t))
           /\ SameBut(RemoveThread(s, t), s, s.stat)
           /\ \A p \in Prios : Row(RemoveThread(s, t), p) = Row(s, p) \ {t}
<1> DEFINE r == RemoveThread(s, t)
           q == s.prio[t]
           left == [p \in Prios |-> ListRemove(s.ready[p], t)]
<1>1. s \in Kernels /\ q \in Prios
  BY DEF Lists, Kernels
<1>2. r = [s EXCEPT !.ready = left, !.group = IF left[q] = <<>> THEN @ \ {q} ELSE @]
  BY DEF RemoveThread
<1>3. ASSUME NEW p \in Prios
      PROVE  left[p] \in Seq(All) /\ IsInjective(left[p]) /\ Range(left[p]) = Row(s, p) \ {t}
  BY <1>1, RemoveList DEF Lists, Kernels, Row
<1>4. left \in [Prios -> Seq(All)]
  BY <1>3
<1>5. left[q] = <<>> <=> Row(s, q) \ {t} = {}
  BY <1>1, <1>3, EmptyList, Zenon
<1> HIDE DEF left
<1>6. /\ r.cur = s.cur /\ r.prio = s.prio /\ r.yield = s.yield /\ r.stat = s.stat /\ r.ready = left
      /\ r.group = IF left[q] = <<>> THEN s.group \ {q} ELSE s.group
  BY <1>1, <1>2 DEF Kernels
<1>7. r \in Kernels
  BY <1>1, <1>2, <1>4, Zenon DEF Kernels
<1> HIDE DEF r
<1>8. ASSUME NEW p \in Prios PROVE Row(r, p) = Row(s, p) \ {t}
  BY <1>3, <1>6 DEF Row
<1>9. Lists(r)
  <2>1. ASSUME NEW p \in Prios PROVE (p \in r.group <=> Row(r, p) # {}) /\ IsInjective(r.ready[p])
    <3>1. CASE p = q
      BY <1>1, <1>3, <1>5, <1>6, <1>8, <3>1 DEF Lists
    <3>2. CASE p # q
      <4>1. t \notin Row(s, p)
        BY <3>2 DEF Lists
      <4> QED BY <1>3, <1>6, <1>8, <3>2, <4>1 DEF Lists
    <3> QED BY <3>1, <3>2
  <2>2. ASSUME NEW p \in Prios, NEW u \in Row(r, p) PROVE u \in All /\ r.prio[u] = p
    BY <1>6, <1>8 DEF Lists
  <2> QED BY <1>7, <2>1, <2>2 DEF Lists
<1> QED BY <1>6, <1>8, <1>9 DEF SameBut, r

\* What leaves the queues and the priorities alone.
LEMMA SameLists ==
    ASSUME NEW s, Lists(s), NEW r \in Kernels, r.ready = s.ready, r.group = s.group, r.prio = s.prio
    PROVE  Lists(r) /\ \A p \in Prios : Row(r, p) = Row(s, p)
<1>1. \A p \in Prios : Row(r, p) = Row(s, p)
  BY DEF Row
<1> QED BY <1>1 DEF Lists

\* Queued threads are READY, and the current one is not queued.
Members(s) == \A p \in Prios : \A t \in Row(s, p) : s.stat[t] = "ready" /\ t # s.cur

\* What rt_schedule may do: nothing, or a switch to a queued thread, which leaves its queue,
\* while the current one enters its own if it was still running.
Stays(s, r) ==
    r.cur = s.cur /\ r.prio = s.prio /\ r.stat = s.stat /\ \A p \in Prios : Row(r, p) = Row(s, p)
Preempted(s, t) == t = s.cur /\ s.stat[t] = "running"
Switches(s, r) ==
    /\ r.prio = s.prio /\ r.cur \in All /\ InQueue(s, r.cur) /\ r.cur # s.cur
    /\ \A t \in All : r.stat[t] = IF t = r.cur THEN "running" ELSE IF Preempted(s, t) THEN "ready" ELSE s.stat[t]
    /\ \A p \in Prios : \A t \in All :
          t \in Row(r, p) <=> (t \in Row(s, p) /\ t # r.cur) \/ (Preempted(s, t) /\ p = s.prio[t])

-----------------------------------------------------------------------------
(* The invariant of the scheduler, the timers, the defunct threads and     *)
(* what the threads have still to do, given as parameters because          *)
(* rt_schedule ends most operations.                                       *)

\* A thread that is not deleting any; t is deleting u; u is being deleted.
Simple == {Nothing, ToSchedule}
Deletes(td, t, u) == td[t] = <<"detach", u>> \/ td[t] = <<"close", u>>
Doomed(td, u) == \E t \in All : Deletes(td, t, u)

\* Only the current thread is RUNNING, it is not READY, and the idle thread always is
\* one of them.
RunInv(s) ==
    /\ \A t \in All : s.stat[t] = "running" => t = s.cur
    /\ s.stat[s.cur] # "ready"
    /\ s.stat[Idle] \in {"ready", "running"}

\* A thread being deleted has no timer running and has left the queues for good, unless it
\* deletes itself; one thread deletes it, which is not being deleted by another.
DeleteInv(s, arm, td) ==
    /\ \A t \in All, u \in Threads : Deletes(td, t, u) =>
          /\ u \notin arm
          /\ t = u => s.stat[u] \in {"ready", "running"}
          /\ t # u => s.stat[u] \in {"ready", "suspend"} /\ u # s.cur /\ ~InQueue(s, u) /\ td[u] \in Simple
    /\ \A t, v \in All, u \in Threads : Deletes(td, t, u) /\ Deletes(td, v, u) => t = v
    /\ \A t \in All : s.stat[t] \in {"init", "close"} => td[t] \in Simple

\* A READY thread is queued.
ReadyInv(s, td) == \A t \in All : s.stat[t] = "ready" /\ ~Doomed(td, t) => InQueue(s, t)

\* rt_thread_defunct holds the closed threads, each once.
DefunctInv(s, def) ==
    def \in Seq(Threads) /\ IsInjective(def) /\ \A t \in Threads : t \in Range(def) <=> s.stat[t] = "close"

\* A thread whose timer runs is suspended.
TimedInv(s, arm) == arm \subseteq Threads /\ \A t \in arm : s.stat[t] = "suspend"

Good(s, arm, def, td) ==
    /\ Lists(s) /\ Members(s) /\ RunInv(s)
    /\ td \in [All -> Todos] /\ DeleteInv(s, arm, td)
    /\ ReadyInv(s, td) /\ DefunctInv(s, def) /\ TimedInv(s, arm)

\* After rt_schedule: the current thread is RUNNING, and no queued thread is more urgent.
Best(s) == s.stat[s.cur] = "running" /\ \A p \in Prios : Row(s, p) # {} => s.prio[s.cur] <= p

\* Only threads other than the idle thread are deleted.
LEMMA DoomedAreThreads ==
    ASSUME NEW td \in [All -> Todos], NEW t \in All, NEW u, Deletes(td, t, u)
    PROVE  u \in Threads /\ td[t] \notin Simple
<1>1. td[t] \in {"detach", "close"} \X Threads
  BY DEF Todos, Deletes, Nothing, ToSchedule
<1> QED BY <1>1 DEF Deletes, Simple, Nothing, ToSchedule

\* The idle thread is queued or current.
LEMMA IdleReady ==
    ASSUME NEW s, NEW td \in [All -> Todos], RunInv(s), ReadyInv(s, td)
    PROVE  (s.cur = Idle /\ s.stat[Idle] = "running") \/ InQueue(s, Idle)
<1>1. Idle \in All /\ Idle \notin Threads
  BY SchedulerAssumption DEF All
<1>2. ~Doomed(td, Idle)
  BY <1>1, DoomedAreThreads DEF Doomed
<1> QED BY <1>1, <1>2 DEF RunInv, ReadyInv

\* Nothing of it is lost where only the marks of yield and the order in a queue change.
LEMMA StaysGood ==
    ASSUME NEW s, NEW arm, NEW def, NEW td, Good(s, arm, def, td),
           NEW r, Lists(r), Stays(s, r)
    PROVE  Good(r, arm, def, td)
<1>1. /\ Lists(s) /\ Members(s) /\ RunInv(s) /\ td \in [All -> Todos] /\ DeleteInv(s, arm, td)
      /\ ReadyInv(s, td) /\ DefunctInv(s, def) /\ TimedInv(s, arm)
  BY DEF Good
<1>2. s.prio \in [All -> Prios] /\ Threads \subseteq All
  BY <1>1 DEF Lists, Kernels, All
<1>3. Members(r) /\ RunInv(r) /\ DefunctInv(r, def) /\ TimedInv(r, arm)
  BY <1>1 DEF Stays, Members, RunInv, DefunctInv, TimedInv
<1>4. \A t \in All : InQueue(r, t) <=> InQueue(s, t)
  BY <1>2 DEF Stays, InQueue
<1>5. DeleteInv(r, arm, td) /\ ReadyInv(r, td)
  BY <1>1, <1>2, <1>4 DEF Stays, DeleteInv, ReadyInv
<1> QED BY <1>1, <1>3, <1>5 DEF Good

\* Nor is it lost where timers are stopped and the deletions under way stay the same.
LEMMA TodoGood ==
    ASSUME NEW s, NEW arm, NEW def, NEW td, Good(s, arm, def, td),
           NEW e \in SUBSET arm, NEW f \in [All -> Todos],
           \A v \in All : f[v] \in Simple <=> td[v] \in Simple,
           \A v \in All, u \in Threads : Deletes(f, v, u) <=> Deletes(td, v, u)
    PROVE  Good(s, e, def, f)
<1>1. /\ Lists(s) /\ Members(s) /\ RunInv(s) /\ td \in [All -> Todos] /\ DeleteInv(s, arm, td)
      /\ ReadyInv(s, td) /\ DefunctInv(s, def) /\ TimedInv(s, arm) /\ Threads \subseteq All
  BY DEF Good, All
<1>2. DeleteInv(s, e, f)
  BY <1>1 DEF DeleteInv
<1>3. \A u \in All : Doomed(td, u) => Doomed(f, u)
  BY <1>1, DoomedAreThreads DEF Doomed
<1>4. ReadyInv(s, f)
  BY <1>1, <1>3 DEF ReadyInv
<1>5. TimedInv(s, e)
  BY <1>1 DEF TimedInv
<1> QED BY <1>1, <1>2, <1>4, <1>5 DEF Good

\* An operation on one thread u that nobody deletes, before rt_schedule: it is queued if and
\* only if it is READY now, and its timer runs only if it is suspended now.
LEMMA OneGood ==
    ASSUME NEW s, NEW arm, NEW def, NEW td, Good(s, arm, def, td),
           NEW u \in Threads, ~Doomed(td, u),
           NEW r, Lists(r), r.cur = s.cur,
           \A v \in All \ {u} : r.stat[v] = s.stat[v] /\ (InQueue(r, v) <=> InQueue(s, v)),
           InQueue(r, u) <=> r.stat[u] = "ready",
           r.stat[u] = "running" => u = s.cur, r.stat[u] = "ready" => u # s.cur,
           r.stat[u] \notin {"init", "close"}, s.stat[u] # "close",
           NEW e \in SUBSET (arm \cup {u}), u \in e => r.stat[u] = "suspend"
    PROVE  Good(r, e, def, td)
<1>1. /\ Lists(s) /\ Members(s) /\ RunInv(s) /\ td \in [All -> Todos] /\ DeleteInv(s, arm, td)
      /\ ReadyInv(s, td) /\ DefunctInv(s, def) /\ TimedInv(s, arm) /\ u \in All /\ Threads \subseteq All
      /\ Idle # u /\ Idle \in All
  BY SchedulerAssumption DEF Good, All
<1>2. s.prio \in [All -> Prios] /\ s.cur \in All
  BY <1>1 DEF Lists, Kernels
<1>3. Members(r)
  <2> SUFFICES ASSUME NEW p \in Prios, NEW v \in Row(r, p) PROVE r.stat[v] = "ready" /\ v # r.cur
    BY DEF Members
  <2>1. v \in All /\ InQueue(r, v)
    BY DEF Lists, InQueue
  <2>2. CASE v = u
    BY <2>1, <2>2
  <2>3. CASE v # u
    BY <1>1, <1>2, <2>1, <2>3 DEF Members, InQueue
  <2> QED BY <2>2, <2>3
<1>4. RunInv(r)
  BY <1>1, <1>2 DEF RunInv
<1>5. DeleteInv(r, e, td)
  <2>1. \A t \in All, v \in Threads : Deletes(td, t, v) => v # u /\ v \in All
    BY <1>1, Zenon DEF Doomed
  <2>2. \A t \in All : r.stat[t] \in {"init", "close"} => s.stat[t] \in {"init", "close"}
    OBVIOUS
  <2> QED BY <1>1, <2>1, <2>2, Zenon DEF DeleteInv
<1>6. ReadyInv(r, td)
  BY <1>1, Zenon DEF ReadyInv
<1>7. DefunctInv(r, def)
  BY <1>1 DEF DefunctInv
<1>8. TimedInv(r, e)
  BY <1>1 DEF TimedInv
<1> QED BY <1>1, <1>3, <1>4, <1>5, <1>6, <1>7, <1>8 DEF Good

\* rt_thread_resume and rt_thread_timeout: a suspended thread that nobody deletes becomes
\* READY and queued, or RUNNING if it is still the current one.
LEMMA ResumeGood ==
    ASSUME NEW s, NEW arm, NEW def, NEW td, Good(s, arm, def, td),
           NEW u \in Threads, s.stat[u] = "suspend", ~Doomed(td, u)
    PROVE  /\ Good(InsertThread(s, u), arm \ {u}, def, td)
           /\ InsertThread(s, u).cur = s.cur
           /\ s.stat[s.cur] = "running" => InsertThread(s, u).stat[s.cur] = "running"
<1> DEFINE r == InsertThread(s, u)
           x == IF u = s.cur THEN "running" ELSE "ready"
<1>1. /\ Lists(s) /\ Members(s) /\ RunInv(s) /\ td \in [All -> Todos] /\ DeleteInv(s, arm, td)
      /\ ReadyInv(s, td) /\ DefunctInv(s, def) /\ TimedInv(s, arm) /\ u \in All /\ Threads \subseteq All
      /\ Idle # u
  BY SchedulerAssumption, Zenon DEF Good, All
<1>2. s \in Kernels /\ s.prio \in [All -> Prios] /\ s.stat \in [All -> Stats] /\ s.cur \in All
  BY <1>1, Zenon DEF Lists, Kernels
<1>3. ~InQueue(s, u)
  BY <1>1, <1>2 DEF Members, InQueue
<1>4. /\ Lists(r) /\ r.cur = s.cur /\ r.prio = s.prio /\ r.stat = [s.stat EXCEPT ![u] = x]
      /\ \A p \in Prios : Row(r, p) = IF u # s.cur /\ p = s.prio[u] THEN Row(s, p) \cup {u} ELSE Row(s, p)
  <2>1. CASE u = s.cur
    <3>1. r = [s EXCEPT !.stat[u] = "running"]
      BY <2>1 DEF InsertThread
    <3>2. PICK y \in [All -> Stats] : y = [s.stat EXCEPT ![u] = "running"]
      BY <1>2, Zenon DEF Stats
    <3>3. r = [s EXCEPT !.stat = y]
      BY <1>2, <3>1, <3>2 DEF Kernels
    <3> HIDE DEF r
    <3>4. r \in Kernels /\ r.cur = s.cur /\ r.prio = s.prio /\ r.stat = y /\ r.ready = s.ready /\ r.group = s.group
      BY <1>2, <3>3, Zenon DEF Kernels
    <3>5. Lists(r) /\ \A p \in Prios : Row(r, p) = Row(s, p)
      BY <1>1, <3>4, SameLists, Zenon
    <3> QED BY <2>1, <3>2, <3>4, <3>5
  <2>2. CASE u # s.cur
    <3>1. /\ Lists(r) /\ SameBut(r, s, [s.stat EXCEPT ![u] = "ready"])
          /\ \A p \in Prios : Row(r, p) = IF p = s.prio[u] THEN Row(s, p) \cup {u} ELSE Row(s, p)
      BY <1>1, <1>3, <2>2, InsertLists, Zenon
    <3> HIDE DEF r
    <3> QED BY <2>2, <3>1 DEF SameBut
  <2> QED BY <2>1, <2>2
<1> HIDE DEF r
<1>5. r.stat[u] = x /\ \A v \in All \ {u} : r.stat[v] = s.stat[v]
  BY <1>1, <1>2, <1>4
<1>6. \A v \in All : InQueue(r, v) <=> InQueue(s, v) \/ (v = u /\ u # s.cur)
  BY <1>2, <1>4 DEF InQueue
<1>7. Good(r, arm \ {u}, def, td)
  <2>1. ~InQueue(s, u) /\ arm \ {u} \in SUBSET (arm \cup {u})
    BY <1>3
  <2>2. \A v \in All \ {u} : r.stat[v] = s.stat[v] /\ (InQueue(r, v) <=> InQueue(s, v))
    BY <1>5, <1>6
  <2>3. InQueue(r, u) <=> r.stat[u] = "ready"
    BY <1>1, <1>5, <1>6, <2>1
  <2>4. /\ r.stat[u] = "running" => u = s.cur
        /\ r.stat[u] = "ready" => u # s.cur
        /\ r.stat[u] \notin {"init", "close"}
    BY <1>5
  <2> HIDE DEF x
  <2> QED BY <1>4, <2>1, <2>2, <2>3, <2>4, OneGood, Zenon
<1> QED BY <1>1, <1>2, <1>4, <1>5, <1>7, Zenon DEF r

\* rt_thread_suspend: a thread that nobody deletes leaves its queue, if it is in one, and its
\* timer is stopped or started.
LEMMA SuspendGood ==
    ASSUME NEW s, NEW arm, NEW def, NEW td, Good(s, arm, def, td),
           NEW u \in Threads, s.stat[u] \in {"ready", "running"}, ~Doomed(td, u),
           NEW e \in SUBSET (arm \cup {u})
    PROVE  /\ Good(Suspended(s, u), e, def, td)
           /\ Suspended(s, u).cur = s.cur /\ Suspended(s, u).prio = s.prio
           /\ \A v \in All \ {u} : Suspended(s, u).stat[v] = s.stat[v]
           /\ \A p \in Prios : Row(Suspended(s, u), p) \subseteq Row(s, p)
<1> DEFINE g == RemoveThread(s, u)
           r == Suspended(s, u)
<1>1. Lists(s) /\ u \in All /\ s.stat \in [All -> Stats] /\ s.prio \in [All -> Prios]
  BY Zenon DEF Good, Lists, Kernels, All
<1>2. Lists(g) /\ SameBut(g, s, s.stat) /\ \A p \in Prios : Row(g, p) = Row(s, p) \ {u}
  BY <1>1, RemoveLists
<1>3. r = [g EXCEPT !.stat[u] = "suspend"] /\ g \in Kernels
  BY <1>2 DEF Suspended, Lists
<1> HIDE DEF g, r
<1>4. PICK y \in [All -> Stats] : y = [s.stat EXCEPT ![u] = "suspend"]
  BY <1>1, Zenon DEF Stats
<1>5. r = [g EXCEPT !.stat = y]
  BY <1>2, <1>3, <1>4 DEF Kernels, SameBut
<1>6. r \in Kernels /\ r.cur = g.cur /\ r.prio = g.prio /\ r.stat = y /\ r.ready = g.ready /\ r.group = g.group
  BY <1>3, <1>5, Zenon DEF Kernels
<1>7. Lists(r) /\ r.cur = s.cur /\ r.prio = s.prio /\ \A p \in Prios : Row(r, p) = Row(s, p) \ {u}
  BY <1>2, <1>6, SameLists DEF SameBut
<1>8. r.stat[u] = "suspend" /\ \A v \in All \ {u} : r.stat[v] = s.stat[v]
  BY <1>1, <1>4, <1>6
<1>9. ~InQueue(r, u) /\ \A v \in All \ {u} : InQueue(r, v) <=> InQueue(s, v)
  BY <1>1, <1>7 DEF InQueue
<1>10. Good(r, e, def, td)
  BY <1>7, <1>8, <1>9, OneGood
<1> QED BY <1>7, <1>8, <1>10 DEF r

\* A step from s to r moves u only: to another priority and its queue.
Moves(s, r, u) ==
    /\ r.cur = s.cur /\ r.stat = s.stat
    /\ \A v \in All \ {u} : r.prio[v] = s.prio[v]
    /\ \A p \in Prios : Row(r, p) \ {u} = Row(s, p) \ {u}

\* rt_thread_control: a READY thread changes its queue with its priority.
LEMMA ReprioritisedGood ==
    ASSUME NEW s, NEW arm, NEW def, NEW td, Good(s, arm, def, td),
           NEW u \in Threads, s.stat[u] \in {"ready", "suspend", "running"}, ~Doomed(td, u), NEW q \in Prios
    PROVE  Good(Reprioritised(s, u, q), arm, def, td) /\ Moves(s, Reprioritised(s, u, q), u)
<1> DEFINE r == Reprioritised(s, u, q)
<1>1. /\ Lists(s) /\ Members(s) /\ RunInv(s) /\ ReadyInv(s, td) /\ TimedInv(s, arm) /\ u \in All
  BY DEF Good, All
<1>2. s \in Kernels /\ s.prio \in [All -> Prios] /\ s.stat \in [All -> Stats] /\ s.cur \in All
  BY <1>1 DEF Lists, Kernels
<1>3. /\ Lists(r) /\ r.cur = s.cur /\ r.stat = s.stat /\ r.prio = [s.prio EXCEPT ![u] = q]
      /\ \A p \in Prios : Row(r, p) = IF s.stat[u] = "ready" /\ p = q THEN (Row(s, p) \ {u}) \cup {u} ELSE Row(s, p) \ {u}
  <2> DEFINE g == RemoveThread(s, u)
             w == [g EXCEPT !.prio[u] = q]
             z == [s EXCEPT !.prio[u] = q]
  <2>1. PICK y \in [All -> Prios] : y = [s.prio EXCEPT ![u] = q]
    BY <1>2, Zenon
  <2>2. CASE s.stat[u] = "ready"
    <3>1. Lists(g) /\ SameBut(g, s, s.stat) /\ \A p \in Prios : Row(g, p) = Row(s, p) \ {u}
      BY <1>1, RemoveLists, Zenon
    <3>2. r = InsertThread(w, u)
      BY <2>2 DEF Reprioritised
    <3> HIDE DEF g
    <3>3. w = [g EXCEPT !.prio = y] /\ g \in Kernels
      BY <2>1, <3>1 DEF Lists, Kernels, SameBut
    <3> HIDE DEF w, r
    <3>4. w \in Kernels /\ w.ready = g.ready /\ w.group = g.group /\ w.prio = y /\ w.stat = g.stat /\ w.cur = g.cur
      BY <3>3, Zenon DEF Kernels
    <3>5. \A p \in Prios : Row(w, p) = Row(s, p) \ {u}
      BY <3>1, <3>4 DEF Row
    <3>6. Lists(w)
      <4>1. ASSUME NEW p \in Prios, NEW v \in Row(w, p) PROVE v \in All /\ w.prio[v] = p
        BY <1>1, <1>2, <2>1, <3>4, <3>5 DEF Lists
      <4>2. ASSUME NEW p \in Prios PROVE (p \in w.group <=> Row(w, p) # {}) /\ IsInjective(w.ready[p])
        BY <3>1, <3>4, <3>5 DEF Lists
      <4> QED BY <3>4, <4>1, <4>2 DEF Lists
    <3>7. u # w.cur /\ ~InQueue(w, u) /\ w.prio[u] = q
      <4>1. u # s.cur
        BY <1>1, <2>2 DEF RunInv
      <4> QED BY <1>2, <2>1, <3>1, <3>4, <3>5, <4>1 DEF InQueue, SameBut
    <3>8. /\ Lists(r) /\ SameBut(r, w, [w.stat EXCEPT ![u] = "ready"])
          /\ \A p \in Prios : Row(r, p) = IF p = w.prio[u] THEN Row(w, p) \cup {u} ELSE Row(w, p)
      BY <1>1, <3>2, <3>6, <3>7, InsertLists
    <3>9. [w.stat EXCEPT ![u] = "ready"] = s.stat
      BY <1>2, <2>2, <3>1, <3>4 DEF SameBut
    <3> QED BY <2>1, <2>2, <3>1, <3>4, <3>5, <3>7, <3>8, <3>9 DEF SameBut
  <2>3. CASE s.stat[u] # "ready"
    <3>1. r = z
      BY <2>3 DEF Reprioritised
    <3>2. z = [s EXCEPT !.prio = y]
      BY <1>2, <2>1 DEF Kernels
    <3> HIDE DEF z, r
    <3>3. r \in Kernels /\ r.ready = s.ready /\ r.group = s.group /\ r.prio = y /\ r.stat = s.stat /\ r.cur = s.cur
      BY <1>2, <3>1, <3>2, Zenon DEF Kernels
    <3>4. \A p \in Prios : Row(r, p) = Row(s, p) /\ u \notin Row(s, p)
      BY <1>1, <2>3, <3>3 DEF Row, Members
    <3>5. Lists(r)
      <4>1. \A p \in Prios : (p \in r.group <=> Row(r, p) # {}) /\ IsInjective(r.ready[p])
        BY <1>1, <3>3, <3>4, Zenon DEF Lists
      <4>2. \A p \in Prios : \A t \in Row(r, p) : t \in All /\ t # u /\ s.prio[t] = p
        BY <1>1, <3>4, Zenon DEF Lists
      <4>3. \A t \in All \ {u} : r.prio[t] = s.prio[t]
        BY <1>2, <2>1, <3>3
      <4> QED BY <3>3, <4>1, <4>2, <4>3, Zenon DEF Lists
    <3> QED BY <2>1, <2>3, <3>3, <3>4, <3>5
  <2> QED BY <2>2, <2>3, Zenon
<1> HIDE DEF r
<1>4. \A v \in All \ {u} : r.prio[v] = s.prio[v] /\ (InQueue(r, v) <=> InQueue(s, v))
  BY <1>2, <1>3 DEF InQueue
<1>5. r.prio[u] = q /\ (InQueue(r, u) <=> r.stat[u] = "ready")
  BY <1>1, <1>2, <1>3, Zenon DEF InQueue
<1>6. Good(r, arm, def, td)
  <2>1. (s.stat[u] = "running" => u = s.cur) /\ (s.stat[u] = "ready" => u # s.cur) /\ (u \in arm => s.stat[u] = "suspend")
    BY <1>1 DEF RunInv, TimedInv
  <2> QED BY <1>3, <1>4, <1>5, <2>1, OneGood
<1>7. \A p \in Prios : Row(r, p) \ {u} = Row(s, p) \ {u}
  BY <1>3
<1>8. Moves(s, r, u)
  BY <1>3, <1>4, <1>7 DEF Moves
<1> QED BY <1>6, <1>8, Zenon DEF r

\* rt_thread_startup: a thread in its initial state gets its priority and is queued.
LEMMA StartGood ==
    ASSUME NEW s, NEW arm, NEW def, NEW td, Good(s, arm, def, td),
           NEW u \in Threads, s.stat[u] = "init", u # s.cur, NEW q \in Prios
    PROVE  LET r == InsertThread([s EXCEPT !.prio[u] = q, !.yield = @ \ {u}], u)
           IN  Good(r, arm, def, td) /\ r.cur = s.cur /\ r.stat[s.cur] = s.stat[s.cur]
<1> DEFINE w == [s EXCEPT !.prio[u] = q, !.yield = @ \ {u}]
           r == InsertThread(w, u)
<1>1. /\ Lists(s) /\ Members(s) /\ RunInv(s) /\ TimedInv(s, arm) /\ DeleteInv(s, arm, td) /\ u \in All
  BY DEF Good, All
<1>2. s \in Kernels /\ s.prio \in [All -> Prios] /\ s.stat \in [All -> Stats] /\ s.cur \in All /\ s.yield \in SUBSET All
  BY <1>1 DEF Lists, Kernels
<1>3. PICK x \in [All -> Prios], y \in SUBSET All : x = [s.prio EXCEPT ![u] = q] /\ y = s.yield \ {u}
  BY <1>2, Zenon
<1>4. w = [s EXCEPT !.prio = x, !.yield = y]
  BY <1>2, <1>3 DEF Kernels
<1> HIDE DEF w
<1>5. w \in Kernels /\ w.ready = s.ready /\ w.group = s.group /\ w.prio = x /\ w.stat = s.stat /\ w.cur = s.cur
  BY <1>2, <1>4, Zenon DEF Kernels
<1>6. \A p \in Prios : Row(w, p) = Row(s, p) /\ u \notin Row(s, p)
  BY <1>1, <1>5 DEF Row, Members
<1>7. Lists(w)
  <2>1. \A p \in Prios : (p \in w.group <=> Row(w, p) # {}) /\ IsInjective(w.ready[p])
    BY <1>1, <1>5, <1>6, Zenon DEF Lists
  <2>2. \A p \in Prios : \A t \in Row(w, p) : t \in All /\ t # u /\ s.prio[t] = p
    BY <1>1, <1>6 DEF Lists
  <2>3. \A t \in All \ {u} : w.prio[t] = s.prio[t]
    BY <1>2, <1>3, <1>5
  <2> QED BY <1>5, <2>1, <2>2, <2>3, Zenon DEF Lists
<1>8. ~InQueue(w, u) /\ w.prio[u] = q
  BY <1>1, <1>2, <1>3, <1>5, <1>6, Zenon DEF InQueue
<1>9. /\ Lists(r) /\ SameBut(r, w, [w.stat EXCEPT ![u] = "ready"])
      /\ \A p \in Prios : Row(r, p) = IF p = w.prio[u] THEN Row(w, p) \cup {u} ELSE Row(w, p)
  BY <1>1, <1>5, <1>7, <1>8, InsertLists, Zenon
<1> HIDE DEF r
<1>10. r.cur = s.cur /\ r.prio = x /\ r.stat[u] = "ready" /\ \A v \in All \ {u} : r.stat[v] = s.stat[v]
  BY <1>1, <1>2, <1>5, <1>9, Zenon DEF SameBut
<1>11. InQueue(r, u) /\ \A v \in All \ {u} : InQueue(r, v) <=> InQueue(s, v)
  <2>1. x[u] = q /\ \A v \in All \ {u} : x[v] = s.prio[v] /\ x[v] \in Prios
    BY <1>1, <1>2, <1>3
  <2>2. \A v \in All : v \in Row(r, x[v]) <=> v = u \/ v \in Row(s, x[v])
    BY <1>3, <1>5, <1>6, <1>9, <2>1
  <2> QED BY <1>1, <1>10, <2>1, <2>2, Zenon DEF InQueue
<1>12. ~Doomed(td, u) /\ u \notin arm /\ arm \in SUBSET (arm \cup {u})
  BY <1>1, Zenon DEF DeleteInv, Doomed, TimedInv
<1>13. Good(r, arm, def, td)
  <2>1. /\ Lists(r) /\ r.stat[u] = "ready" /\ u # s.cur /\ InQueue(r, u)
        /\ \A v \in All \ {u} : r.stat[v] = s.stat[v] /\ (InQueue(r, v) <=> InQueue(s, v))
    BY <1>9, <1>10, <1>11, Zenon
  <2> QED BY <1>10, <1>12, <2>1, OneGood
<1> QED BY <1>2, <1>10, <1>13 DEF r, w

\* A step from s to r changes the state of u only.
Ends(s, r, u) ==
    /\ r.cur = s.cur /\ r.prio = s.prio
    /\ \A v \in All \ {u} : r.stat[v] = s.stat[v]
    /\ \A p \in Prios : Row(r, p) = Row(s, p)

\* A thread that has left the queues and whose timer is stopped is closed, or may be initialised
\* again; nobody deletes it any more.
LEMMA CloseGood ==
    ASSUME NEW s, NEW arm, NEW def, NEW td, Good(s, arm, def, td),
           NEW u \in Threads, ~InQueue(s, u), u \notin arm, s.stat[u] # "close",
           NEW d \in [All -> Todos], d[u] \in Simple, \A v \in All : td[v] \in Simple => d[v] \in Simple,
           \A v \in All : \A t \in All : Deletes(d, t, v) <=> Deletes(td, t, v) /\ v # u
    PROVE  /\ Good(Closed(s, u), arm, IF u \in Static THEN def ELSE <<u>> \o def, d)
           /\ Ends(s, Closed(s, u), u)
<1> DEFINE x == IF u \in Static THEN "init" ELSE "close"
           r == Closed(s, u)
           f == IF u \in Static THEN def ELSE <<u>> \o def
<1>1. /\ Lists(s) /\ Members(s) /\ RunInv(s) /\ TimedInv(s, arm) /\ DeleteInv(s, arm, td) /\ ReadyInv(s, td)
      /\ DefunctInv(s, def) /\ u \in All /\ td \in [All -> Todos]
  BY Zenon DEF Good, All
<1>2. s \in Kernels /\ s.prio \in [All -> Prios] /\ s.stat \in [All -> Stats] /\ s.cur \in All /\ s.yield \in SUBSET All
  BY <1>1, Zenon DEF Lists, Kernels
<1>3. PICK y \in [All -> Stats], z \in SUBSET All : y = [s.stat EXCEPT ![u] = x] /\ z = s.yield \ {u}
  <2>1. x \in Stats
    BY DEF Stats
  <2> HIDE DEF x
  <2> QED BY <1>2, <2>1, Zenon
<1>4. r = [s EXCEPT !.stat = y, !.yield = z]
  BY <1>2, <1>3 DEF Closed, Kernels
<1> HIDE DEF r
<1>5. r \in Kernels /\ r.cur = s.cur /\ r.prio = s.prio /\ r.stat = y /\ r.ready = s.ready /\ r.group = s.group
  BY <1>2, <1>4, Zenon DEF Kernels
<1>6. Lists(r) /\ \A p \in Prios : Row(r, p) = Row(s, p)
  BY <1>1, <1>5, SameLists, Zenon
<1>7. r.stat[u] = x /\ x \in {"init", "close"} /\ \A v \in All \ {u} : r.stat[v] = s.stat[v]
  BY <1>1, <1>2, <1>3, <1>5, Zenon
<1>8. \A v \in All : InQueue(r, v) <=> InQueue(s, v)
  BY <1>2, <1>5, <1>6 DEF InQueue
<1>9. f \in Seq(Threads) /\ IsInjective(f) /\ \A t \in Threads : t \in Range(f) <=> r.stat[t] = "close"
  <2>1. def \in Seq(Threads) /\ IsInjective(def) /\ \A t \in Threads : t \in Range(def) <=> s.stat[t] = "close"
    BY <1>1, Zenon DEF DefunctInv
  <2>2. CASE u \in Static
    BY <1>1, <1>7, <2>1, <2>2, Zenon DEF All
  <2>3. CASE u \notin Static
    <3>1. f = <<u>> \o def /\ x = "close"
      BY <2>3
    <3>2. /\ f \in Seq(Threads) /\ Len(f) = Len(def) + 1 /\ f[1] = u /\ Len(def) \in Nat
          /\ \A i \in 1 .. Len(def) : f[i + 1] = def[i]
      BY <2>1, <3>1
    <3>3. DOMAIN def = 1 .. Len(def) /\ DOMAIN f = 1 .. Len(f)
      BY <2>1, <3>2
    <3> HIDE DEF f, x
    <3>4. \A i \in DOMAIN f : i = 1 \/ (i - 1 \in DOMAIN def /\ f[i] = def[i - 1])
      BY <3>2, <3>3
    <3>5. Range(f) = Range(def) \cup {u}
      BY <3>2, <3>3, <3>4 DEF Range
    <3>6. IsInjective(f)
      <4>1. u \notin Range(def)
        BY <2>1
      <4> SUFFICES ASSUME NEW i \in DOMAIN f, NEW j \in DOMAIN f, f[i] = f[j] PROVE i = j
        BY DEF IsInjective
      <4>2. CASE i = 1 \/ j = 1
        BY <3>2, <3>4, <4>1, <4>2 DEF Range
      <4>3. CASE i # 1 /\ j # 1
        <5>1. i - 1 \in DOMAIN def /\ j - 1 \in DOMAIN def /\ def[i - 1] = def[j - 1]
          BY <3>4, <4>3
        <5>2. i - 1 = j - 1
          BY <2>1, <5>1 DEF IsInjective
        <5> QED BY <3>2, <3>3, <5>2
      <4> QED BY <4>2, <4>3
    <3> QED BY <1>1, <1>7, <2>1, <3>1, <3>2, <3>5, <3>6, Zenon DEF All
  <2> QED BY <2>2, <2>3
<1> HIDE DEF f
<1>10. Members(r)
  <2>1. \A p \in Prios : u \notin Row(s, p)
    BY <1>1, Zenon DEF Lists, InQueue
  <2>2. \A p \in Prios : \A v \in Row(s, p) : v \in All
    BY <1>1, Zenon DEF Lists
  <2> QED BY <1>1, <1>5, <1>6, <1>7, <2>1, <2>2, Zenon DEF Members
<1>11. RunInv(r)
  <2>1. Idle \in All /\ Idle # u
    BY SchedulerAssumption DEF All
  <2> HIDE DEF x
  <2> QED BY <1>1, <1>2, <1>5, <1>7, <2>1, Zenon DEF RunInv
<1>12. DeleteInv(r, arm, d)
  <2> HIDE DEF x
  <2>1. \A v \in Threads : v \in All
    BY DEF All
  <2>2. ASSUME NEW t \in All, NEW v \in Threads, Deletes(d, t, v)
        PROVE  /\ v \notin arm
               /\ t = v => r.stat[v] \in {"ready", "running"}
               /\ t # v => r.stat[v] \in {"ready", "suspend"} /\ v # r.cur /\ ~InQueue(r, v) /\ d[v] \in Simple
    <3>1. Deletes(td, t, v) /\ v # u /\ v \in All
      BY <2>1, <2>2
    <3> QED BY <1>1, <1>5, <1>7, <1>8, <3>1, Zenon DEF DeleteInv
  <2>3. \A t, w \in All, v \in Threads : Deletes(d, t, v) /\ Deletes(d, w, v) => t = w
    BY <1>1, <2>1, Zenon DEF DeleteInv
  <2>4. \A t \in All : r.stat[t] \in {"init", "close"} => d[t] \in Simple
    BY <1>1, <1>7, Zenon DEF DeleteInv
  <2> QED BY <2>2, <2>3, <2>4 DEF DeleteInv
<1>13. ReadyInv(r, d)
  BY <1>1, <1>7, <1>8, Zenon DEF ReadyInv, Doomed
<1>14. TimedInv(r, arm) /\ DefunctInv(r, f)
  BY <1>1, <1>7, <1>9, Zenon DEF TimedInv, DefunctInv, All
<1>15. Good(r, arm, f, d)
  BY <1>6, <1>10, <1>11, <1>12, <1>13, <1>14, Zenon DEF Good
<1>16. Ends(s, r, u)
  BY <1>5, <1>6, <1>7, Zenon DEF Ends
<1> QED BY <1>15, <1>16, Zenon DEF r, f

\* rt_thread_delete, interrupts disabled: a thread without a running timer, not itself in the
\* middle of a deletion, leaves the queues, and the current thread goes on with its deletion.
LEMMA DeleteGood ==
    ASSUME NEW s, NEW arm, NEW def, NEW td, Good(s, arm, def, td),
           NEW u \in Threads, u \notin arm, s.stat[u] \in {"ready", "suspend", "running"}, ~Doomed(td, u),
           td[u] \in Simple, s.stat[s.cur] = "running", td[s.cur] = Nothing
    PROVE  LET r == RemoveThread(s, u)
           IN  /\ Good(r, arm, def, [td EXCEPT ![s.cur] = <<"detach", u>>])
               /\ r.cur = s.cur /\ r.prio = s.prio /\ r.stat = s.stat
               /\ \A p \in Prios : Row(r, p) \subseteq Row(s, p)
<1> DEFINE c == s.cur
           r == RemoveThread(s, u)
           d == [td EXCEPT ![c] = <<"detach", u>>]
<1>1. /\ Lists(s) /\ Members(s) /\ RunInv(s) /\ TimedInv(s, arm) /\ DeleteInv(s, arm, td) /\ ReadyInv(s, td)
      /\ DefunctInv(s, def) /\ u \in All /\ td \in [All -> Todos] /\ Threads \subseteq All
  BY DEF Good, All
<1>2. s \in Kernels /\ s.prio \in [All -> Prios] /\ s.stat \in [All -> Stats] /\ c \in All
  BY <1>1, Zenon DEF Lists, Kernels
<1>3. Lists(r) /\ SameBut(r, s, s.stat) /\ \A p \in Prios : Row(r, p) = Row(s, p) \ {u}
  BY <1>1, RemoveLists, Zenon
<1>4. d \in [All -> Todos] /\ d[c] = <<"detach", u>> /\ \A t \in All \ {c} : d[t] = td[t]
  BY <1>1, <1>2, Zenon DEF Todos
<1> HIDE DEF r, d
<1>5. \A v \in All : InQueue(r, v) <=> InQueue(s, v) /\ v # u
  BY <1>2, <1>3 DEF InQueue, SameBut
<1>6. \A v : ~Deletes(td, c, v) /\ (Deletes(d, c, v) <=> v = u)
  BY <1>4 DEF Deletes, Nothing
<1>7. \A t \in All \ {c} : \A v : Deletes(d, t, v) <=> Deletes(td, t, v)
  BY <1>4 DEF Deletes
<1>8. ASSUME NEW t \in All, Deletes(d, t, u) PROVE t = c
  BY <1>7, <1>8 DEF Doomed
<1>9. Members(r) /\ RunInv(r) /\ TimedInv(r, arm) /\ DefunctInv(r, def)
  <2>1. r.cur = s.cur /\ r.stat = s.stat /\ \A p \in Prios : Row(r, p) \subseteq Row(s, p)
    BY <1>3 DEF SameBut
  <2>2. Members(r)
    BY <1>1, <2>1 DEF Members
  <2>3. RunInv(r) /\ TimedInv(r, arm) /\ DefunctInv(r, def)
    BY <1>1, <2>1, Zenon DEF RunInv, TimedInv, DefunctInv
  <2> QED BY <2>2, <2>3
<1>10. ReadyInv(r, d)
  <2> SUFFICES ASSUME NEW t \in All, r.stat[t] = "ready", ~Doomed(d, t) PROVE InQueue(r, t)
    BY Zenon DEF ReadyInv
  <2>1. t # u
    BY <1>2, <1>6 DEF Doomed
  <2>2. ~Doomed(td, t)
    BY <1>6, <1>7 DEF Doomed
  <2> QED BY <1>1, <1>3, <1>5, <2>1, <2>2, Zenon DEF ReadyInv, SameBut
<1>11. DeleteInv(r, arm, d)
  <2>1. ASSUME NEW t \in All, NEW v \in Threads, Deletes(d, t, v)
        PROVE  /\ v \notin arm
               /\ t = v => r.stat[v] \in {"ready", "running"}
               /\ t # v => r.stat[v] \in {"ready", "suspend"} /\ v # r.cur /\ ~InQueue(r, v) /\ d[v] \in Simple
    <3>1. CASE t = c
      <4>1. v = u
        BY <1>6, <2>1, <3>1
      <4>2. u # c => s.stat[u] \in {"ready", "suspend"} /\ d[u] \in Simple
        BY <1>1, <1>4 DEF RunInv
      <4> QED BY <1>1, <1>3, <1>5, <3>1, <4>1, <4>2, Zenon DEF SameBut
    <3>2. CASE t # c
      <4>1. Deletes(td, t, v)
        BY <1>7, <2>1, <3>2, Zenon
      <4>2. t # v => v # c
        BY <1>1, <4>1, Zenon DEF DeleteInv
      <4> QED BY <1>1, <1>3, <1>4, <1>5, <4>1, <4>2, Zenon DEF DeleteInv, SameBut
    <3> QED BY <3>1, <3>2
  <2>2. ASSUME NEW t \in All, NEW w \in All, NEW v \in Threads, Deletes(d, t, v), Deletes(d, w, v) PROVE t = w
    <3>1. CASE v = u
      BY <1>8, <2>2, <3>1
    <3>2. CASE v # u
      <4>1. t # c /\ w # c
        BY <1>6, <2>2, <3>2
      <4> QED BY <1>1, <1>7, <2>2, <4>1, Zenon DEF DeleteInv
    <3> QED BY <3>1, <3>2, Zenon
  <2>3. \A t \in All : r.stat[t] \in {"init", "close"} => d[t] \in Simple
    BY <1>1, <1>3, <1>4, Zenon DEF DeleteInv, SameBut
  <2> QED BY <2>1, <2>2, <2>3, Zenon DEF DeleteInv
<1>12. Good(r, arm, def, d)
  BY <1>3, <1>4, <1>9, <1>10, <1>11, Zenon DEF Good
<1> QED BY <1>3, <1>12 DEF r, d, SameBut

\* rt_thread_idle_excute: the first closed thread may be initialised again.
LEMMA ReapGood ==
    ASSUME NEW s, NEW arm, NEW def, NEW td, Good(s, arm, def, td), def # <<>>
    PROVE  /\ Good([s EXCEPT !.stat[Head(def)] = "init"], arm, Tail(def), td)
           /\ [s EXCEPT !.stat[Head(def)] = "init"].cur = s.cur
           /\ s.stat[s.cur] = "running" => [s EXCEPT !.stat[Head(def)] = "init"].stat[s.cur] = "running"
<1> DEFINE h == Head(def)
           f == Tail(def)
           r == [s EXCEPT !.stat[h] = "init"]
<1>1. /\ Lists(s) /\ Members(s) /\ RunInv(s) /\ TimedInv(s, arm) /\ DeleteInv(s, arm, td) /\ ReadyInv(s, td)
      /\ DefunctInv(s, def) /\ td \in [All -> Todos] /\ Threads \subseteq All
  BY DEF Good, All
<1>2. s \in Kernels /\ s.prio \in [All -> Prios] /\ s.stat \in [All -> Stats] /\ s.cur \in All
  BY <1>1, Zenon DEF Lists, Kernels
<1>3. def \in Seq(Threads) /\ IsInjective(def) /\ \A t \in Threads : t \in Range(def) <=> s.stat[t] = "close"
  BY <1>1 DEF DefunctInv
<1>4. /\ h \in Threads /\ f \in Seq(Threads) /\ Len(def) \in Nat \ {0} /\ h = def[1] /\ Len(f) = Len(def) - 1
      /\ \A i \in 1 .. Len(f) : f[i] = def[i + 1]
  BY <1>3
<1>5. DOMAIN def = 1 .. Len(def) /\ DOMAIN f = 1 .. Len(f)
  BY <1>3, <1>4
<1> HIDE DEF h, f
<1>6. \A i \in DOMAIN f : i + 1 \in DOMAIN def /\ f[i] = def[i + 1] /\ i + 1 # 1
  BY <1>4, <1>5
<1>7. IsInjective(f)
  <2> SUFFICES ASSUME NEW i \in DOMAIN f, NEW j \in DOMAIN f, f[i] = f[j] PROVE i = j
    BY DEF IsInjective
  <2>1. i + 1 = j + 1
    BY <1>3, <1>6 DEF IsInjective
  <2> QED BY <1>4, <1>5, <2>1
<1>8. \A t : t \in Range(f) <=> t \in Range(def) /\ t # h
  <2>1. 1 \in DOMAIN def
    BY <1>4, <1>5
  <2>2. ASSUME NEW t, t \in Range(f) PROVE t \in Range(def) /\ t # h
    BY <1>3, <1>4, <1>6, <2>1, <2>2 DEF Range, IsInjective
  <2>3. ASSUME NEW t, t \in Range(def), t # h PROVE t \in Range(f)
    <3>1. PICK i \in DOMAIN def : t = def[i]
      BY <2>3 DEF Range
    <3>2. i # 1
      BY <1>4, <2>3, <3>1
    <3>3. i - 1 \in DOMAIN f /\ (i - 1) + 1 = i
      BY <1>4, <1>5, <3>2
    <3>4. f[i - 1] = t
      BY <1>6, <3>1, <3>3
    <3> QED BY <3>3, <3>4 DEF Range
  <2> QED BY <2>2, <2>3
<1>9. s.stat[h] = "close" /\ h \in All
  <2>1. h \in Range(def)
    BY <1>4, <1>5 DEF Range
  <2> QED BY <1>1, <1>3, <1>4, <2>1
<1>10. PICK y \in [All -> Stats] : y = [s.stat EXCEPT ![h] = "init"]
  BY <1>2, Zenon DEF Stats
<1>11. r = [s EXCEPT !.stat = y]
  BY <1>2, <1>10 DEF Kernels
<1> HIDE DEF r
<1>12. r \in Kernels /\ r.cur = s.cur /\ r.prio = s.prio /\ r.stat = y /\ r.ready = s.ready /\ r.group = s.group
  BY <1>2, <1>11, Zenon DEF Kernels
<1>13. Lists(r) /\ \A p \in Prios : Row(r, p) = Row(s, p)
  BY <1>1, <1>12, SameLists, Zenon
<1>14. r.stat[h] = "init" /\ \A v \in All \ {h} : r.stat[v] = s.stat[v]
  BY <1>2, <1>9, <1>10, <1>12
<1>15. \A v \in All : InQueue(r, v) <=> InQueue(s, v)
  BY <1>2, <1>12, <1>13 DEF InQueue
<1>16. Members(r)
  <2>1. \A p \in Prios : \A t \in Row(s, p) : t \in All /\ s.stat[t] = "ready" /\ t # s.cur
    BY <1>1, Zenon DEF Members, Lists
  <2>2. \A p \in Prios : \A t \in Row(s, p) : t # h
    BY <1>9, <2>1
  <2> QED BY <1>12, <1>13, <1>14, <2>1, <2>2 DEF Members
<1>17. RunInv(r)
  <2>1. Idle \in All /\ Idle # h
    BY <1>4, SchedulerAssumption DEF All
  <2> QED BY <1>1, <1>2, <1>12, <1>14, <2>1, Zenon DEF RunInv
<1>18. DeleteInv(r, arm, td)
  <2>1. \A v \in All : s.stat[v] \in {"ready", "running"} => r.stat[v] \in {"ready", "running"}
    BY <1>9, <1>14
  <2>2. \A v \in All : s.stat[v] \in {"ready", "suspend"} => r.stat[v] \in {"ready", "suspend"}
    BY <1>9, <1>14
  <2>3. \A v \in All : r.stat[v] \in {"init", "close"} => s.stat[v] \in {"init", "close"}
    BY <1>9, <1>14
  <2>4. \A v \in Threads : v \in All
    BY DEF All
  <2>5. ASSUME NEW t \in All, NEW v \in Threads, Deletes(td, t, v)
        PROVE  /\ v \notin arm /\ (t = v => r.stat[v] \in {"ready", "running"})
               /\ t # v => r.stat[v] \in {"ready", "suspend"} /\ v # r.cur /\ ~InQueue(r, v) /\ td[v] \in Simple
    <3>1. /\ v \notin arm /\ (t = v => s.stat[v] \in {"ready", "running"})
          /\ t # v => s.stat[v] \in {"ready", "suspend"} /\ v # s.cur /\ ~InQueue(s, v) /\ td[v] \in Simple
      BY <1>1, <2>5, Zenon DEF DeleteInv
    <3> QED BY <1>12, <1>15, <2>1, <2>2, <2>4, <3>1, Zenon
  <2>6. \A t \in All : r.stat[t] \in {"init", "close"} => td[t] \in Simple
    BY <1>1, <2>3, Zenon DEF DeleteInv
  <2> QED BY <1>1, <2>5, <2>6, Zenon DEF DeleteInv
<1>19. ReadyInv(r, td)
  BY <1>1, <1>14, <1>15, Zenon DEF ReadyInv
<1>20. TimedInv(r, arm) /\ DefunctInv(r, f)
  <2>1. TimedInv(r, arm)
    BY <1>1, <1>9, <1>14 DEF TimedInv
  <2>2. DefunctInv(r, f)
    BY <1>1, <1>3, <1>4, <1>7, <1>8, <1>14, Zenon DEF DefunctInv
  <2> QED BY <2>1, <2>2
<1>21. Good(r, arm, f, td)
  BY <1>1, <1>13, <1>16, <1>17, <1>18, <1>19, <1>20 DEF Good
<1>22. s.stat[s.cur] = "running" => r.stat[s.cur] = "running"
  BY <1>2, <1>9, <1>14
<1> QED BY <1>12, <1>21, <1>22 DEF r, f, h

\* Kept and the length of todo, in the words used above.
LEMMA KeptIsNotDoomed ==
    todo \in [All -> Todos] =>
        \A u \in All : (Kept(u) <=> ~Doomed(todo, u)) /\ (Len(todo[u]) = 1 => todo[u] \in Simple)
<1> SUFFICES ASSUME todo \in [All -> Todos]
             PROVE  \A u \in All : (Kept(u) <=> ~Doomed(todo, u)) /\ (Len(todo[u]) = 1 => todo[u] \in Simple)
  OBVIOUS
<1>1. ASSUME NEW x \in {"detach", "close"} \X Threads, NEW u
      PROVE  Len(x) = 2 /\ (x[2] = u <=> x = <<"detach", u>> \/ x = <<"close", u>>)
  <2>1. PICK a \in {"detach", "close"}, b \in Threads : x = <<a, b>>
    OBVIOUS
  <2> QED BY <2>1
<1>2. ASSUME NEW x \in Simple, NEW u
      PROVE  Len(x) = 1 /\ x # <<"detach", u>> /\ x # <<"close", u>>
  BY DEF Simple, Nothing, ToSchedule
<1>3. ASSUME NEW t \in All, NEW u
      PROVE  (Len(todo[t]) = 2 => todo[t][2] # u) <=> ~Deletes(todo, t, u)
  <2>1. CASE todo[t] \in Simple
    BY <1>2, <2>1 DEF Deletes
  <2>2. CASE todo[t] \in {"detach", "close"} \X Threads
    BY <1>1, <2>2 DEF Deletes
  <2> QED BY <2>1, <2>2 DEF Todos, Simple
<1>4. ASSUME NEW u \in All, Len(todo[u]) = 1 PROVE todo[u] \in Simple
  <2>1. todo[u] \in Simple \/ todo[u] \in {"detach", "close"} \X Threads
    BY DEF Todos, Simple
  <2> QED BY <1>1, <1>4, <2>1
<1> QED BY <1>3, <1>4 DEF Kept, Doomed

(***************************************************************************)
(* The inductive invariant.                                                *)
(***************************************************************************)

\* With the scheduler locked the current thread is RUNNING and does not delete itself; and
\* when it is not RUNNING any more it is about to call rt_schedule.
NestInv(s, n, td) ==
    /\ n # 0 => s.stat[s.cur] = "running" /\ ~Deletes(td, s.cur, s.cur)
    /\ s.stat[s.cur] = "running" \/ td[s.cur] = ToSchedule

\* The part of NoMissedPreemption about priorities.
UrgentInv(s, n, td) ==
    n = 0 /\ td[s.cur] # ToSchedule /\ s.cur \notin Adjusted =>
        \A p \in Prios : \A t \in Row(s, p) \ Adjusted : s.prio[s.cur] <= p

TicksInv == remaining \in [All -> Nat] /\ \A t \in All : remaining[t] \in 1 .. Slice[t]

IInv ==
    /\ Good(k, armed, defunct, todo) /\ NestInv(k, nest, todo) /\ UrgentInv(k, nest, todo)
    /\ nest \in 0 .. MaxNest /\ TicksInv

\* What is left to do outside a deletion does not matter to Good.
LEMMA ThenGood ==
    ASSUME NEW s, NEW arm, NEW def, NEW td, Good(s, arm, def, td),
           NEW t \in All, td[t] \in Simple, NEW x \in Simple, NEW d, d = [td EXCEPT ![t] = x]
    PROVE  /\ Good(s, arm, def, d) /\ d[t] = x
           /\ \A v \in All \ {t} : d[v] = td[v]
           /\ \A u : ~Deletes(d, t, u)
<1>1. td \in [All -> Todos]
  BY DEF Good
<1>2. d \in [All -> Todos] /\ d[t] = x /\ \A v \in All \ {t} : d[v] = td[v]
  BY <1>1 DEF Todos, Simple
<1>3. \A v \in All : d[v] \in Simple <=> td[v] \in Simple
  BY <1>2
<1>4. \A u : ~Deletes(d, t, u) /\ ~Deletes(td, t, u)
  BY <1>2 DEF Deletes, Simple, Nothing, ToSchedule
<1>5. \A v \in All, u \in Threads : Deletes(d, v, u) <=> Deletes(td, v, u)
  BY <1>2, <1>4 DEF Deletes
<1>6. Good(s, arm, def, d)
  BY <1>2, <1>3, <1>5, TodoGood, Zenon
<1> QED BY <1>2, <1>4, <1>6, Zenon

\* Nobody deletes the current thread while it is not in the middle of a function.
LEMMA RunnerKept ==
    ASSUME NEW s, NEW arm, NEW def, NEW td, Good(s, arm, def, td), td[s.cur] = Nothing
    PROVE  ~Doomed(td, s.cur)
<1>1. td \in [All -> Todos] /\ DeleteInv(s, arm, td)
  BY DEF Good
<1>2. SUFFICES ASSUME NEW t \in All, Deletes(td, t, s.cur) PROVE FALSE
  BY DEF Doomed
<1>3. s.cur \in Threads
  BY <1>1, <1>2, DoomedAreThreads
<1>4. t # s.cur
  BY <1>2 DEF Deletes, Nothing
<1> QED BY <1>1, <1>2, <1>3, <1>4 DEF DeleteInv

\* The types the steps below need.
LEMMA Facts ==
    IInv => /\ Good(k, armed, defunct, todo) /\ NestInv(k, nest, todo) /\ UrgentInv(k, nest, todo)
            /\ nest \in Nat /\ nest \in 0 .. MaxNest /\ TicksInv /\ RunInv(k) /\ k \in Kernels
            /\ k.cur \in All /\ todo \in [All -> Todos] /\ k.stat \in [All -> Stats]
            /\ \A u \in Threads : u \in All /\ (Kept(u) => ~Doomed(todo, u))
<1> SUFFICES ASSUME IInv
             PROVE  /\ Good(k, armed, defunct, todo) /\ NestInv(k, nest, todo) /\ UrgentInv(k, nest, todo)
                    /\ nest \in Nat /\ nest \in 0 .. MaxNest /\ TicksInv /\ RunInv(k) /\ k \in Kernels
                    /\ k.cur \in All /\ todo \in [All -> Todos] /\ k.stat \in [All -> Stats]
                    /\ \A u \in Threads : u \in All /\ (Kept(u) => ~Doomed(todo, u))
  OBVIOUS
<1>1. /\ Good(k, armed, defunct, todo) /\ NestInv(k, nest, todo) /\ UrgentInv(k, nest, todo)
      /\ nest \in 0 .. MaxNest /\ TicksInv
  BY DEF IInv
<1>2. Lists(k) /\ RunInv(k) /\ todo \in [All -> Todos]
  BY <1>1 DEF Good
<1>3. k \in Kernels /\ k.cur \in All /\ k.stat \in [All -> Stats]
  BY <1>2 DEF Lists, Kernels
<1>4. nest \in Nat
  BY <1>1, SchedulerAssumption
<1>5. \A u \in Threads : u \in All /\ (Kept(u) => ~Doomed(todo, u))
  BY <1>2, KeptIsNotDoomed DEF All
<1> QED BY <1>1, <1>2, <1>3, <1>4, <1>5, Zenon

(* One lemma per action follows: it keeps the invariant.                   *)

\* A thread that is started is queued, and the starting one calls rt_schedule next.
LEMMA StartupStep ==
    ASSUME IInv, NEW t \in All, NEW u \in Threads, Startup(t, u)
    PROVE  IInv'
<1> DEFINE r == InsertThread([k EXCEPT !.prio[u] = InitPrio[u], !.yield = @ \ {u}], u)
           d == [todo EXCEPT ![t] = ToSchedule]
<1>1. /\ Good(k, armed, defunct, todo) /\ NestInv(k, nest, todo) /\ nest \in 0 .. MaxNest /\ TicksInv
      /\ k.cur \in All /\ u \in All /\ todo \in [All -> Todos] /\ DeleteInv(k, armed, todo)
  BY Facts, Zenon DEF Good
<1>2. /\ k.cur = t /\ k.stat[t] = "running" /\ todo[t] = Nothing /\ k.stat[u] = "init" /\ u # t
      /\ k' = r /\ todo' = [todo EXCEPT ![t] = ToSchedule, ![u] = Nothing]
      /\ remaining' = [remaining EXCEPT ![u] = Slice[u]] /\ nest' = nest /\ armed' = armed /\ defunct' = defunct
  BY DEF Startup, Runs
<1>3. Good(r, armed, defunct, todo) /\ r.cur = t /\ r.stat[t] = "running"
  <2>1. InitPrio[u] \in Prios
    BY <1>1, SchedulerAssumption
  <2>2. Good(r, armed, defunct, todo) /\ r.cur = k.cur /\ r.stat[k.cur] = k.stat[k.cur]
    BY <1>1, <1>2, <2>1, StartGood, Zenon
  <2> QED BY <1>2, <2>2, Zenon
<1> HIDE DEF r
<1>4. Good(r, armed, defunct, d) /\ d[t] = ToSchedule /\ d[u] = todo[u] /\ ~Deletes(d, t, t)
  <2>1. todo[t] \in Simple /\ ToSchedule \in Simple
    BY <1>2, Zenon DEF Simple
  <2> QED BY <1>1, <1>2, <1>3, <2>1, ThenGood, Zenon
<1>5. todo' = [d EXCEPT ![u] = Nothing]
  BY <1>1, <1>2, Zenon
<1> HIDE DEF d
<1>6. Good(r, armed, defunct, todo') /\ todo'[t] = ToSchedule
  <2>1. d[u] \in Simple /\ Nothing \in Simple
    BY <1>1, <1>2, <1>4, Zenon DEF DeleteInv, Simple
  <2> DEFINE e == [d EXCEPT ![u] = Nothing]
  <2>2. Good(r, armed, defunct, d) /\ u \in All /\ t \in All \ {u}
    BY <1>1, <1>2, <1>4, Zenon
  <2>3. \A x \in Simple : LET f == [d EXCEPT ![u] = x] IN
           Good(r, armed, defunct, f) /\ \A v \in All \ {u} : f[v] = d[v]
    BY <2>1, <2>2, ThenGood
  <2>4. Good(r, armed, defunct, e) /\ \A v \in All \ {u} : e[v] = d[v]
    BY <2>1, <2>3, Zenon
  <2> QED BY <1>4, <1>5, <2>2, <2>3, <2>4, Zenon
<1>7. NestInv(k', nest', todo') /\ UrgentInv(k', nest', todo')
  <2>1. \A x : x = ToSchedule => x # <<"detach", t>> /\ x # <<"close", t>>
    BY DEF ToSchedule
  <2>2. ~Deletes(todo', t, t)
    BY <1>6, <2>1, Zenon DEF Deletes
  <2> QED BY <1>2, <1>3, <1>6, <2>2, Zenon DEF NestInv, UrgentInv
<1>8. TicksInv'
  <2>1. Slice[u] \in Nat \ {0} /\ Slice[u] \in 1 .. Slice[u]
    BY <1>1, SchedulerAssumption
  <2>2. remaining \in [All -> Nat] /\ \A v \in All : remaining[v] \in 1 .. Slice[v]
    BY <1>1, Zenon DEF TicksInv
  <2> QED BY <1>1, <1>2, <2>1, <2>2, Zenon DEF TicksInv
<1> QED BY <1>1, <1>2, <1>6, <1>7, <1>8, Zenon DEF IInv

\* A thread that suspends itself calls rt_schedule next.
LEMMA SuspendSelfStep ==
    ASSUME IInv, NEW t \in All, SuspendSelf(t)
    PROVE  IInv'
<1> DEFINE d == [todo EXCEPT ![t] = ToSchedule]
<1>1. Good(k, armed, defunct, todo) /\ nest \in 0 .. MaxNest /\ TicksInv /\ k.stat \in [All -> Stats]
  BY Facts
<1>2. /\ k.cur = t /\ k.stat[t] = "running" /\ todo[t] = Nothing /\ t \in Threads /\ nest = 0
      /\ k' = Suspended(k, t) /\ armed' \in {armed \ {t}, armed \cup {t}} /\ todo' = d
      /\ nest' = nest /\ remaining' = remaining /\ defunct' = defunct
  BY DEF SuspendSelf, Runs, Then, All
<1>3. ~Doomed(todo, t)
  BY <1>1, <1>2, RunnerKept
<1>4. Good(k', armed', defunct, todo) /\ k'.cur = t
  <2>1. armed' \in SUBSET (armed \cup {t}) /\ k.stat[t] \in {"ready", "running"}
    BY <1>2
  <2> QED BY <1>1, <1>2, <1>3, <2>1, SuspendGood, Zenon
<1>5. Good(k', armed', defunct, todo') /\ todo'[t] = ToSchedule
  <2>1. todo[t] \in Simple /\ ToSchedule \in Simple
    BY <1>2 DEF Simple
  <2>2. Good(k', armed', defunct, d) /\ d[t] = ToSchedule
    BY <1>4, <2>1, ThenGood
  <2> HIDE DEF d
  <2> QED BY <1>2, <2>2 DEF d
<1>6. NestInv(k', nest', todo') /\ UrgentInv(k', nest', todo')
  BY <1>2, <1>4, <1>5 DEF NestInv, UrgentInv
<1>7. TicksInv'
  BY <1>1, <1>2 DEF TicksInv
<1> QED BY <1>1, <1>2, <1>5, <1>6, <1>7 DEF IInv

\* Suspending another thread takes it out of its queue.
LEMMA SuspendOtherStep ==
    ASSUME IInv, NEW t \in All, NEW u \in Threads, SuspendOther(t, u)
    PROVE  IInv'
<1>1. /\ Good(k, armed, defunct, todo) /\ NestInv(k, nest, todo) /\ UrgentInv(k, nest, todo)
      /\ nest \in 0 .. MaxNest /\ TicksInv /\ RunInv(k) /\ k.cur \in All
  BY Facts, Zenon
<1>2. /\ k.cur = t /\ k.stat[t] = "running" /\ k.stat[u] = "ready" /\ ~Doomed(todo, u)
      /\ k' = Suspended(k, u) /\ armed' = armed \ {u}
      /\ nest' = nest /\ remaining' = remaining /\ defunct' = defunct /\ todo' = todo
  BY Facts, Zenon DEF SuspendOther, Runs
<1>3. /\ Good(k', armed', defunct, todo) /\ k'.cur = k.cur /\ k'.prio = k.prio /\ k'.stat[t] = k.stat[t]
      /\ \A p \in Prios : Row(k', p) \subseteq Row(k, p)
  BY <1>1, <1>2, SuspendGood, Zenon
<1>4. NestInv(k', nest', todo')
  BY <1>1, <1>2, <1>3, Zenon DEF NestInv
<1>5. UrgentInv(k', nest', todo')
  BY <1>1, <1>2, <1>3, Zenon DEF UrgentInv
<1>6. TicksInv'
  BY <1>1, <1>2, Zenon DEF TicksInv
<1> QED BY <1>1, <1>2, <1>3, <1>4, <1>5, <1>6, Zenon DEF IInv

\* rt_thread_resume is followed by rt_schedule.
LEMMA ResumeStep ==
    ASSUME IInv, NEW t \in All, NEW u \in Threads, Resume(t, u)
    PROVE  IInv'
<1> DEFINE d == [todo EXCEPT ![t] = ToSchedule]
<1>1. Good(k, armed, defunct, todo) /\ nest \in 0 .. MaxNest /\ TicksInv
  BY Facts, Zenon
<1>2. /\ k.cur = t /\ k.stat[t] = "running" /\ todo[t] = Nothing /\ k.stat[u] = "suspend" /\ ~Doomed(todo, u)
      /\ k' = InsertThread(k, u) /\ armed' = armed \ {u} /\ todo' = d
      /\ nest' = nest /\ remaining' = remaining /\ defunct' = defunct
  BY Facts, Zenon DEF Resume, Runs, Then, Disarmed
<1>3. Good(k', armed', defunct, todo) /\ k'.cur = t /\ k'.stat[t] = "running"
  BY <1>1, <1>2, ResumeGood, Zenon
<1>4. Good(k', armed', defunct, todo') /\ todo'[t] = ToSchedule
  <2>1. todo[t] \in Simple /\ ToSchedule \in Simple
    BY <1>2 DEF Simple
  <2>2. Good(k', armed', defunct, d) /\ d[t] = ToSchedule
    BY <1>3, <2>1, ThenGood
  <2> HIDE DEF d
  <2> QED BY <1>2, <2>2 DEF d
<1>5. NestInv(k', nest', todo') /\ UrgentInv(k', nest', todo')
  <2>1. ~Deletes(todo', t, t)
    BY <1>4 DEF Deletes, ToSchedule
  <2> QED BY <1>2, <1>3, <1>4, <2>1 DEF NestInv, UrgentInv
<1>6. TicksInv'
  BY <1>1, <1>2 DEF TicksInv
<1> QED BY <1>1, <1>2, <1>4, <1>5, <1>6 DEF IInv

\* rt_thread_control moves an adjusted thread only.
LEMMA ChangePriorityStep ==
    ASSUME IInv, NEW t \in All, NEW u \in Threads, NEW p \in Prios, ChangePriority(t, u, p)
    PROVE  IInv'
<1>1. /\ Good(k, armed, defunct, todo) /\ NestInv(k, nest, todo) /\ UrgentInv(k, nest, todo)
      /\ nest \in 0 .. MaxNest /\ TicksInv /\ k.cur \in All
  BY Facts, Zenon
<1>2. /\ k.stat[u] \in {"ready", "suspend", "running"} /\ ~Doomed(todo, u) /\ u \in Adjusted
      /\ k' = Reprioritised(k, u, p) /\ armed' = armed
      /\ nest' = nest /\ remaining' = remaining /\ defunct' = defunct /\ todo' = todo
  BY Facts, Zenon DEF ChangePriority
<1>3. /\ Good(k', armed, defunct, todo) /\ k'.cur = k.cur /\ k'.stat = k.stat
      /\ \A v \in All \ {u} : k'.prio[v] = k.prio[v]
      /\ \A q \in Prios : Row(k', q) \ {u} = Row(k, q) \ {u}
  <2>1. Good(k, armed, defunct, todo) /\ k.stat[u] \in {"ready", "suspend", "running"} /\ ~Doomed(todo, u)
    BY <1>1, <1>2, Zenon
  <2>2. Good(Reprioritised(k, u, p), armed, defunct, todo) /\ Moves(k, Reprioritised(k, u, p), u)
    BY <2>1, ReprioritisedGood, Zenon
  <2> QED BY <1>2, <2>2, Zenon DEF Moves
<1>4. NestInv(k', nest', todo')
  BY <1>1, <1>2, <1>3, Zenon DEF NestInv
<1>5. UrgentInv(k', nest', todo')
  <2> SUFFICES ASSUME nest' = 0, todo'[k'.cur] # ToSchedule, k'.cur \notin Adjusted,
                      NEW q \in Prios, NEW v \in Row(k', q) \ Adjusted
               PROVE  k'.prio[k'.cur] <= q
    BY DEF UrgentInv
  <2>1. k'.prio[k'.cur] = k.prio[k.cur] /\ v \in Row(k, q)
    BY <1>1, <1>2, <1>3, Zenon
  <2> QED BY <1>1, <1>2, <1>3, <2>1, Zenon DEF UrgentInv
<1>6. TicksInv'
  BY <1>1, <1>2, Zenon DEF TicksInv
<1> QED BY <1>1, <1>2, <1>3, <1>4, <1>5, <1>6, Zenon DEF IInv

\* rt_enter_critical and rt_exit_critical, which calls rt_schedule when the lock is released.
LEMMA CriticalStep ==
    ASSUME IInv, NEW t \in All, EnterCritical(t) \/ ExitCritical(t)
    PROVE  IInv'
<1>1. /\ Good(k, armed, defunct, todo) /\ nest \in Nat /\ nest \in 0 .. MaxNest /\ TicksInv /\ MaxNest \in Nat
  BY Facts, SchedulerAssumption, Zenon
<1>2. /\ k.cur = t /\ k.stat[t] = "running" /\ todo[t] = Nothing
      /\ k' = k /\ armed' = armed /\ remaining' = remaining /\ defunct' = defunct
  BY Zenon DEF EnterCritical, ExitCritical, Runs
<1>3. TicksInv'
  BY <1>1, <1>2 DEF TicksInv
<1>4. CASE EnterCritical(t)
  <2>1. nest' = nest + 1 /\ nest < MaxNest /\ todo' = todo
    BY <1>4 DEF EnterCritical
  <2>2. nest' \in 0 .. MaxNest /\ nest' # 0
    BY <1>1, <2>1
  <2>3. ~Deletes(todo, t, t)
    BY <1>2 DEF Deletes, Nothing
  <2>4. NestInv(k', nest', todo') /\ UrgentInv(k', nest', todo')
    BY <1>2, <2>1, <2>2, <2>3 DEF NestInv, UrgentInv
  <2> QED BY <1>1, <1>2, <1>3, <2>1, <2>2, <2>4, Zenon DEF IInv
<1>5. CASE ExitCritical(t)
  <2> DEFINE x == IF nest' = 0 THEN ToSchedule ELSE Nothing
             d == [todo EXCEPT ![t] = x]
  <2>1. nest' = nest - 1 /\ nest > 0 /\ todo' = d
    BY <1>5 DEF ExitCritical, Then
  <2>2. nest' \in 0 .. MaxNest /\ (nest' = 0 => x = ToSchedule)
    BY <1>1, <2>1
  <2>3. todo[t] \in Simple /\ x \in Simple
    BY <1>2 DEF Simple
  <2> HIDE DEF x
  <2>4. Good(k, armed, defunct, d) /\ d[t] = x /\ ~Deletes(d, t, t)
    BY <1>1, <2>3, ThenGood
  <2> HIDE DEF d
  <2>5. NestInv(k', nest', todo') /\ UrgentInv(k', nest', todo')
    BY <1>2, <2>1, <2>2, <2>4, Zenon DEF NestInv, UrgentInv
  <2> QED BY <1>2, <1>3, <2>1, <2>2, <2>4, <2>5, Zenon DEF IInv
<1> QED BY <1>4, <1>5

\* The first part of rt_thread_delete, of a thread whose timer does not run.
LEMMA DeleteStep ==
    ASSUME ~DeletesTimed, IInv, NEW t \in All, NEW u \in Threads, Delete(t, u)
    PROVE  IInv'
<1> DEFINE d == [todo EXCEPT ![t] = <<"detach", u>>]
<1>1. /\ Good(k, armed, defunct, todo) /\ UrgentInv(k, nest, todo) /\ nest \in 0 .. MaxNest /\ TicksInv
      /\ todo \in [All -> Todos] /\ u \in All
  BY Facts, Zenon
<1>2. /\ k.cur = t /\ k.stat[t] = "running" /\ todo[t] = Nothing /\ ~Doomed(todo, u)
      /\ k.stat[u] \in {"ready", "suspend", "running"} /\ todo[u] \in Simple /\ u \notin armed
      /\ (t = u => nest = 0) /\ k' = RemoveThread(k, u) /\ todo' = d
      /\ nest' = nest /\ remaining' = remaining /\ armed' = armed /\ defunct' = defunct
  BY <1>1, Facts, KeptIsNotDoomed, Zenon DEF Delete, Runs, Then
<1>3. d[t] = <<"detach", u>>
  BY <1>1
<1>4. /\ Good(k', armed, defunct, d) /\ k'.cur = k.cur /\ k'.prio = k.prio /\ k'.stat = k.stat
      /\ \A p \in Prios : Row(k', p) \subseteq Row(k, p)
  BY <1>1, <1>2, DeleteGood, Zenon
<1> HIDE DEF d
<1>5. NestInv(k', nest', todo')
  <2>1. \A x : x = <<"detach", u>> /\ t # u => x # <<"detach", t>> /\ x # <<"close", t>>
    OBVIOUS
  <2>2. t # u => ~Deletes(d, t, t)
    BY <1>3, <2>1, Zenon DEF Deletes
  <2> QED BY <1>2, <1>4, <2>2, Zenon DEF NestInv
<1>6. UrgentInv(k', nest', todo')
  <2>1. todo[k.cur] # ToSchedule
    BY <1>2 DEF Nothing, ToSchedule
  <2> QED BY <1>1, <1>2, <1>4, <2>1, Zenon DEF UrgentInv
<1>7. TicksInv'
  BY <1>1, <1>2, Zenon DEF TicksInv
<1> QED BY <1>1, <1>2, <1>4, <1>5, <1>6, <1>7, Zenon DEF IInv

\* The second part of rt_thread_delete: rt_timer_detach.
LEMMA DeleteTimerStep ==
    ASSUME IInv, NEW t \in All, NEW u \in Threads, DeleteTimer(t, u)
    PROVE  IInv'
<1> DEFINE d == [todo EXCEPT ![t] = <<"close", u>>]
<1>1. /\ Good(k, armed, defunct, todo) /\ NestInv(k, nest, todo) /\ UrgentInv(k, nest, todo)
      /\ nest \in 0 .. MaxNest /\ TicksInv /\ todo \in [All -> Todos]
  BY Facts, Zenon
<1>2. /\ k.cur = t /\ todo[t] = <<"detach", u>> /\ k' = k /\ todo' = d /\ armed' = armed \ {u}
      /\ nest' = nest /\ remaining' = remaining /\ defunct' = defunct
  BY DEF DeleteTimer, Then
<1>3. d \in [All -> Todos] /\ d[t] = <<"close", u>> /\ \A v \in All \ {t} : d[v] = todo[v]
  BY <1>1 DEF Todos
<1> HIDE DEF d
<1>4. \A v : Deletes(d, t, v) <=> Deletes(todo, t, v)
  BY <1>2, <1>3 DEF Deletes
<1>5. \A w \in All : \A v : Deletes(d, w, v) <=> Deletes(todo, w, v)
  BY <1>3, <1>4 DEF Deletes
<1>6. todo[t] \notin Simple /\ d[t] \notin Simple
  BY <1>2, <1>3 DEF Simple, Nothing, ToSchedule
<1>7. Good(k, armed', defunct, d)
  <2>1. armed' \in SUBSET armed
    BY <1>2
  <2>2. \A v \in All : d[v] \in Simple <=> todo[v] \in Simple
    BY <1>3, <1>6
  <2> QED BY <1>1, <1>3, <1>5, <2>1, <2>2, TodoGood
<1>8. NestInv(k', nest', todo') /\ UrgentInv(k', nest', todo')
  <2>1. todo[t] # ToSchedule
    BY <1>6 DEF Simple
  <2> QED BY <1>1, <1>2, <1>4, <2>1, Zenon DEF NestInv, UrgentInv
<1>9. TicksInv'
  BY <1>1, <1>2 DEF TicksInv
<1> QED BY <1>1, <1>2, <1>7, <1>8, <1>9 DEF IInv

\* The last part of rt_thread_delete: the thread is closed and put on rt_thread_defunct.
LEMMA DeleteCloseStep ==
    ASSUME IInv, NEW t \in All, NEW u \in Threads, DeleteClose(t, u)
    PROVE  IInv'
<1> DEFINE x == IF t = u THEN ToSchedule ELSE Nothing
           d == [todo EXCEPT ![t] = x]
<1>1. /\ Good(k, armed, defunct, todo) /\ NestInv(k, nest, todo) /\ UrgentInv(k, nest, todo)
      /\ nest \in 0 .. MaxNest /\ TicksInv /\ todo \in [All -> Todos] /\ u \in All /\ k.cur \in All
      /\ k.prio \in [All -> Prios]
  BY Facts DEF Kernels
<1>2. /\ k.cur = t /\ todo[t] = <<"close", u>> /\ k' = Closed(k, u) /\ todo' = d /\ armed' = armed
      /\ defunct' = IF u \in Static THEN defunct ELSE <<u>> \o defunct
      /\ nest' = nest /\ remaining' = remaining
  BY DEF DeleteClose, Then, Buried
<1>3. d \in [All -> Todos] /\ d[t] = x /\ x \in Simple /\ \A v \in All \ {t} : d[v] = todo[v]
  BY <1>1, Zenon DEF Todos, Simple
<1> HIDE DEF d
<1>4. Members(k) /\ DeleteInv(k, armed, todo) /\ Deletes(todo, t, u)
  BY <1>1, <1>2, Zenon DEF Good, Deletes
<1>5. ~InQueue(k, u) /\ u \notin armed /\ k.stat[u] # "close" /\ (t # u => todo[u] \in Simple)
  <2>1. CASE t = u
    BY <1>1, <1>2, <1>4, <2>1, Zenon DEF Members, DeleteInv, InQueue
  <2>2. CASE t # u
    BY <1>4, <2>2, Zenon DEF DeleteInv
  <2> QED BY <2>1, <2>2
<1>6. d[u] \in Simple /\ \A v \in All : todo[v] \in Simple => d[v] \in Simple
  BY <1>1, <1>3, <1>5, Zenon
<1>7. \A v \in All : \A w \in All : Deletes(d, w, v) <=> Deletes(todo, w, v) /\ v # u
  <2>1. \A v : ~Deletes(d, t, v) /\ (Deletes(todo, t, v) <=> v = u)
    BY <1>2, <1>3 DEF Deletes, Simple, Nothing, ToSchedule
  <2>2. \A w \in All \ {t} : \A v : Deletes(d, w, v) <=> Deletes(todo, w, v)
    BY <1>3 DEF Deletes
  <2>3. \A w \in All \ {t} : ~Deletes(todo, w, u)
    BY <1>4 DEF DeleteInv
  <2> QED BY <2>1, <2>2, <2>3
<1>8. /\ Good(k', armed, defunct', d) /\ k'.cur = k.cur /\ k'.prio = k.prio
      /\ \A v \in All \ {u} : k'.stat[v] = k.stat[v]
      /\ \A p \in Prios : Row(k', p) = Row(k, p)
  <2>1. /\ Good(k, armed, defunct, todo) /\ ~InQueue(k, u) /\ u \notin armed /\ k.stat[u] # "close"
        /\ d \in [All -> Todos]
    BY <1>1, <1>3, <1>5, Zenon
  <2>2. /\ Good(Closed(k, u), armed, IF u \in Static THEN defunct ELSE <<u>> \o defunct, d)
        /\ Ends(k, Closed(k, u), u)
    BY <1>6, <1>7, <2>1, CloseGood, Zenon
  <2> QED BY <1>2, <2>2, Zenon DEF Ends
<1>9. NestInv(k', nest', todo') /\ UrgentInv(k', nest', todo')
  <2>1. \A y : y = <<"close", u>> => y # ToSchedule
    BY DEF ToSchedule
  <2>2. todo[t] # ToSchedule
    BY <1>2, <2>1, Zenon
  <2>3. CASE t = u
    BY <1>1, <1>2, <1>3, <1>4, <1>8, <2>3, Zenon DEF NestInv, UrgentInv
  <2>4. CASE t # u
    <3>1. ~Deletes(d, t, t)
      BY <1>3 DEF Deletes, Simple, Nothing, ToSchedule
    <3> QED BY <1>1, <1>2, <1>8, <2>2, <2>4, <3>1, Zenon DEF NestInv, UrgentInv
  <2> QED BY <2>3, <2>4
<1>10. TicksInv'
  BY <1>1, <1>2, Zenon DEF TicksInv
<1> QED BY <1>1, <1>2, <1>8, <1>9, <1>10, Zenon DEF IInv

\* rt_system_scheduler_start runs the idle thread, with no other thread started.
LEMMA InitGood == Init => IInv
<1> SUFFICES ASSUME Init PROVE IInv
  OBVIOUS
<1>1. /\ k.ready = [p \in Prios |-> <<>>] /\ k.group = {} /\ k.cur = Idle
      /\ k.stat = [t \in All |-> IF t = Idle THEN "running" ELSE "init"] /\ k.prio = InitPrio /\ k.yield = {}
      /\ nest = 0 /\ remaining = Slice /\ armed = {} /\ defunct = <<>> /\ todo = [t \in All |-> Nothing]
  BY DEF Init
<1>2. Idle \in All /\ Threads \subseteq All /\ Idle \notin Threads
  BY SchedulerAssumption DEF All
<1>3. k \in Kernels
  <2>1. k.ready \in [Prios -> Seq(All)] /\ k.stat \in [All -> Stats] /\ k.prio \in [All -> Prios] /\ k.yield \in SUBSET All
    BY <1>1, SchedulerAssumption DEF Stats
  <2> DEFINE a == [p \in Prios |-> <<>>]
             b == [t \in All |-> IF t = Idle THEN "running" ELSE "init"]
  <2>2. k = [ready |-> a, group |-> {}, cur |-> Idle, stat |-> b, prio |-> InitPrio, yield |-> {}]
    BY DEF Init
  <2>3. a \in [Prios -> Seq(All)] /\ b \in [All -> Stats]
    BY <1>1, <2>1
  <2> HIDE DEF a, b
  <2> QED BY <1>2, <2>2, <2>3, SchedulerAssumption, Zenon DEF Kernels
<1>4. \A p \in Prios : k.ready[p] = <<>> /\ Row(k, p) = {}
  BY <1>1 DEF Row, Range
<1>5. Lists(k) /\ Members(k)
  BY <1>1, <1>3, <1>4 DEF Lists, Members, IsInjective
<1>6. k.stat[Idle] = "running" /\ \A t \in All \ {Idle} : k.stat[t] = "init"
  BY <1>1, <1>2
<1>7. RunInv(k) /\ TimedInv(k, armed)
  BY <1>1, <1>6 DEF RunInv, TimedInv
<1>8. todo \in [All -> Todos] /\ \A t \in All : todo[t] = Nothing /\ \A u : ~Deletes(todo, t, u)
  BY <1>1 DEF Todos, Deletes, Nothing
<1>9. DeleteInv(k, armed, todo) /\ ReadyInv(k, todo)
  BY <1>6, <1>8 DEF DeleteInv, ReadyInv, Simple
<1>10. DefunctInv(k, defunct)
  BY <1>1, <1>2, <1>6 DEF DefunctInv, IsInjective, Range
<1>11. NestInv(k, nest, todo) /\ UrgentInv(k, nest, todo)
  BY <1>1, <1>4, <1>6 DEF NestInv, UrgentInv
<1>12. nest \in 0 .. MaxNest /\ TicksInv
  <2>1. \A t \in All : Slice[t] \in 1 .. Slice[t]
    BY SchedulerAssumption
  <2> QED BY <1>1, <2>1, SchedulerAssumption DEF TicksInv
<1> QED BY <1>5, <1>7, <1>8, <1>9, <1>10, <1>11, <1>12 DEF IInv, Good

-----------------------------------------------------------------------------
(* rt_schedule, and the actions that end in it.                            *)

\* The switch of rt_schedule.
LEMMA DispatchSwitches ==
    ASSUME NEW s, Lists(s), Members(s), NEW to \in All, InQueue(s, to)
    PROVE  /\ Lists(Dispatch(s, to)) /\ Dispatch(s, to).cur = to
           /\ Switches(s, Dispatch(s, to))
<1> DEFINE c == s.cur
           w == [s EXCEPT !.cur = to, !.yield = IF s.stat[c] = "running" THEN @ \ {c} ELSE @]
           v == IF s.stat[c] = "running" THEN InsertThread(w, c) ELSE w
           g == RemoveThread(v, to)
           r == Dispatch(s, to)
<1>1. s \in Kernels /\ c \in All /\ s.prio \in [All -> Prios] /\ s.stat \in [All -> Stats]
  BY Zenon DEF Lists, Kernels
<1>2. \A p \in Prios : c \notin Row(s, p)
  BY DEF Members
<1>3. to # c
  BY <1>1, <1>2 DEF InQueue
<1>4. Lists(w) /\ w.cur = to /\ w.prio = s.prio /\ w.stat = s.stat /\ \A p \in Prios : Row(w, p) = Row(s, p)
  <2>1. PICK y \in SUBSET All : y = IF s.stat[c] = "running" THEN s.yield \ {c} ELSE s.yield
    BY <1>1, Zenon DEF Kernels
  <2>2. w = [s EXCEPT !.cur = to, !.yield = y]
    BY <2>1
  <2>3. w \in Kernels /\ w.cur = to /\ w.ready = s.ready /\ w.group = s.group /\ w.prio = s.prio /\ w.stat = s.stat
    BY <1>1, <2>2, Zenon DEF Kernels
  <2> HIDE DEF w
  <2> QED BY <2>3, SameLists
<1>5. r = [g EXCEPT !.stat[to] = "running"]
  BY DEF Dispatch
<1> HIDE DEF w, r
<1>6. /\ Lists(v) /\ v.cur = to /\ v.prio = s.prio
      /\ v.stat = IF s.stat[c] = "running" THEN [s.stat EXCEPT ![c] = "ready"] ELSE s.stat
      /\ \A p \in Prios : Row(v, p) = IF s.stat[c] = "running" /\ p = s.prio[c] THEN Row(s, p) \cup {c} ELSE Row(s, p)
  <2>1. CASE s.stat[c] = "running"
    <3>1. v = InsertThread(w, c) /\ c # w.cur
      BY <1>3, <1>4, <2>1
    <3>2. ~InQueue(w, c)
      BY <1>1, <1>2, <1>4 DEF InQueue
    <3> HIDE DEF v
    <3>3. /\ Lists(v) /\ SameBut(v, w, [w.stat EXCEPT ![c] = "ready"])
          /\ \A p \in Prios : Row(v, p) = IF p = w.prio[c] THEN Row(w, p) \cup {c} ELSE Row(w, p)
      BY <1>1, <1>4, <3>1, <3>2, InsertLists, Zenon
    <3> QED BY <1>4, <2>1, <3>3, Zenon DEF SameBut
  <2>2. CASE s.stat[c] # "running"
    BY <1>4, <2>2, Zenon
  <2> QED BY <2>1, <2>2, Zenon
<1> HIDE DEF v
<1>7. Lists(g) /\ g.cur = to /\ g.prio = s.prio /\ g.stat = v.stat /\ \A p \in Prios : Row(g, p) = Row(v, p) \ {to}
  BY <1>6, RemoveLists, Zenon DEF SameBut
<1> HIDE DEF g
<1>8. /\ Lists(r) /\ r.cur = to /\ r.prio = s.prio /\ r.stat = [g.stat EXCEPT ![to] = "running"]
      /\ \A p \in Prios : Row(r, p) = Row(g, p)
  <2>1. PICK x \in [All -> Stats] : x = [g.stat EXCEPT ![to] = "running"]
    BY <1>7, Zenon DEF Lists, Kernels, Stats
  <2>2. r = [g EXCEPT !.stat = x] /\ g \in Kernels
    BY <1>5, <1>7, <2>1 DEF Lists, Kernels
  <2>3. r \in Kernels /\ r.cur = g.cur /\ r.ready = g.ready /\ r.group = g.group /\ r.prio = g.prio /\ r.stat = x
    BY <2>2, Zenon DEF Kernels
  <2> QED BY <1>7, <2>1, <2>3, SameLists
<1>9. ASSUME NEW t \in All
      PROVE  r.stat[t] = IF t = to THEN "running" ELSE IF Preempted(s, t) THEN "ready" ELSE s.stat[t]
  <2>1. g.stat = IF s.stat[c] = "running" THEN [s.stat EXCEPT ![c] = "ready"] ELSE s.stat
    BY <1>6, <1>7
  <2>2. g.stat[t] = IF Preempted(s, t) THEN "ready" ELSE s.stat[t]
    BY <1>1, <2>1 DEF Preempted
  <2>3. g.stat \in [All -> Stats]
    BY <1>7 DEF Lists, Kernels
  <2> QED BY <1>8, <2>2, <2>3, Zenon
<1>10. ASSUME NEW p \in Prios, NEW t \in All
       PROVE  t \in Row(r, p) <=> (t \in Row(s, p) /\ t # to) \/ (Preempted(s, t) /\ p = s.prio[t])
  <2>1. Row(r, p) = Row(v, p) \ {to}
    BY <1>7, <1>8, Zenon
  <2>2. Row(v, p) = IF s.stat[c] = "running" /\ p = s.prio[c] THEN Row(s, p) \cup {c} ELSE Row(s, p)
    BY <1>6, Zenon
  <2> QED BY <1>3, <2>1, <2>2 DEF Preempted
<1> QED BY <1>3, <1>8, <1>9, <1>10, Zenon DEF Switches, r

\* The first thread of a queue that has a bit is in that queue.
LEMMA HeadQueued ==
    ASSUME NEW s, Lists(s), NEW p \in s.group
    PROVE  p \in Prios /\ Head(s.ready[p]) \in All /\ InQueue(s, Head(s.ready[p])) /\ s.prio[Head(s.ready[p])] = p
<1>1. p \in Prios /\ s.ready[p] \in Seq(All) /\ Row(s, p) # {}
  BY DEF Lists, Kernels
<1>2. s.ready[p] # <<>>
  BY <1>1, EmptyList DEF Row
<1>3. Head(s.ready[p]) = s.ready[p][1] /\ 1 \in DOMAIN s.ready[p]
  BY <1>1, <1>2
<1>4. Head(s.ready[p]) \in Row(s, p)
  BY <1>3 DEF Row, Range
<1> QED BY <1>1, <1>4 DEF Lists, InQueue

INSTANCE WellFoundedInduction

\* The least of a set of priorities.
LEMMA Least ==
    ASSUME NEW S, S \subseteq Prios, S # {}
    PROVE  Min(S) \in S /\ \A p \in S : Min(S) <= p
<1>1. S \subseteq Nat
  BY SchedulerAssumption DEF Prios
<1>2. PICK x \in S : \A y \in S : ~(<<y, x>> \in OpToRel(<, Nat))
  BY <1>1, WFMin, NatLessThanWellFounded, Zenon
<1>3. ASSUME NEW y \in S PROVE x <= y
  <2>1. ~(y < x)
    BY <1>1, <1>2, Zenon DEF OpToRel
  <2> QED BY <1>1, <2>1
<1> QED BY <1>2, <1>3, Zenon DEF Min

\* rt_schedule: it stays or switches, not at all while the scheduler is locked; after it
\* no queued thread is more urgent than the current one, and a current thread that is not
\* running is left, if any thread is ready.
LEMMA ScheduleLists ==
    ASSUME NEW s, Lists(s), Members(s)
    PROVE  /\ Lists(Schedule(s))
           /\ Stays(s, Schedule(s)) \/ (nest = 0 /\ Switches(s, Schedule(s)))
           /\ nest = 0 => \A p \in Prios : Row(Schedule(s), p) # {} => Schedule(s).prio[Schedule(s).cur] <= p
           /\ nest = 0 /\ s.group # {} /\ s.stat[s.cur] # "running" => Switches(s, Schedule(s))
<1> DEFINE r == Schedule(s)
           h == Highest(s)
           c == s.cur
<1>1. s \in Kernels /\ c \in All /\ s.prio \in [All -> Prios] /\ s.stat \in [All -> Stats] /\ s.group \subseteq Prios
  BY Zenon DEF Lists, Kernels
<1>2. \A p \in Prios : p \in Nat
  BY SchedulerAssumption DEF Prios
<1>3. CASE nest # 0 \/ s.group = {}
  <2>1. r = s
    BY <1>3 DEF Schedule
  <2>2. s.group = {} => \A p \in Prios : Row(s, p) = {}
    BY Zenon DEF Lists
  <2> HIDE DEF r
  <2>3. Stays(s, r)
    BY <2>1 DEF Stays
  <2> QED BY <1>3, <2>1, <2>2, <2>3, Zenon DEF r
<1>4. CASE nest = 0 /\ s.group # {}
  <2>1. h \in s.group /\ \A p \in s.group : h <= p
    BY <1>1, <1>4, Least DEF Highest
  <2>2. h \in Prios
    BY <1>1, <2>1
  <2> HIDE DEF h
  <2>3. \A p \in Prios : Row(s, p) # {} => h <= p
    BY <2>1 DEF Lists
  <2>4. CASE Keeps(s)
    <3> DEFINE g == RemoveThread(s, c)
    <3>1. r = [g EXCEPT !.stat[c] = "running"] /\ s.stat[c] = "running" /\ s.prio[c] <= h
      <4>1. r = [g EXCEPT !.stat[c] = "running"]
        BY <1>4, <2>4 DEF Schedule
      <4>2. s.stat[c] = "running" /\ (s.prio[c] < h \/ s.prio[c] = h)
        BY <2>4 DEF Keeps, h
      <4>3. s.prio[c] \in Nat /\ h \in Nat
        BY <1>1, <1>2, <2>2
      <4> QED BY <4>1, <4>2, <4>3
    <3>2. Lists(g) /\ SameBut(g, s, s.stat) /\ \A p \in Prios : Row(g, p) = Row(s, p) \ {c}
      BY <1>1, RemoveLists
    <3> HIDE DEF g, r
    <3>3. [g.stat EXCEPT ![c] = "running"] = s.stat
      BY <1>1, <3>1, <3>2 DEF SameBut
    <3>4. r = [g EXCEPT !.stat = s.stat] /\ g \in Kernels
      BY <3>1, <3>2, <3>3, Zenon DEF Lists, Kernels
    <3>5. r \in Kernels /\ r.cur = g.cur /\ r.ready = g.ready /\ r.group = g.group /\ r.prio = g.prio /\ r.stat = s.stat
      BY <1>1, <3>4, Zenon DEF Kernels
    <3>6. Lists(r) /\ \A p \in Prios : Row(r, p) = Row(g, p)
      BY <3>2, <3>5, SameLists
    <3>7. \A p \in Prios : Row(r, p) = Row(s, p)
      BY <3>2, <3>6 DEF Members
    <3>8. Stays(s, r)
      BY <3>2, <3>5, <3>7 DEF Stays, SameBut
    <3>9. ASSUME NEW p \in Prios, Row(r, p) # {} PROVE r.prio[r.cur] <= p
      <4>1. h <= p /\ r.prio[r.cur] = s.prio[c]
        BY <2>3, <3>7, <3>8, <3>9 DEF Stays
      <4> QED BY <1>1, <1>2, <2>2, <3>1, <4>1
    <3> QED BY <3>1, <3>6, <3>8, <3>9 DEF r
  <2>5. CASE ~Keeps(s)
    <3> DEFINE to == Head(s.ready[h])
    <3>1. r = Dispatch(s, to)
      BY <1>4, <2>5 DEF Schedule, h
    <3>2. to \in All /\ InQueue(s, to) /\ s.prio[to] = h
      BY <2>1, HeadQueued, Zenon
    <3> HIDE DEF to, r
    <3>3. Lists(r) /\ r.cur = to /\ Switches(s, r)
      BY <3>1, <3>2, DispatchSwitches
    <3>4. ASSUME NEW p \in Prios, Row(r, p) # {} PROVE r.prio[r.cur] <= p
      <4>1. r.prio[r.cur] = h
        BY <3>2, <3>3 DEF Switches
      <4>2. PICK t \in All : t \in Row(r, p)
        BY <3>3, <3>4 DEF Lists
      <4>3. CASE t \in Row(s, p)
        BY <2>3, <4>1, <4>3
      <4>4. CASE Preempted(s, t) /\ p = s.prio[t]
        <5>1. s.stat[c] = "running" /\ p = s.prio[c]
          BY <4>4 DEF Preempted
        <5>2. ~(p < h)
          BY <2>5, <5>1 DEF Keeps, h
        <5> QED BY <1>2, <2>2, <4>1, <5>2
      <4> QED BY <3>3, <4>2, <4>3, <4>4, Zenon DEF Switches
    <3> QED BY <1>4, <3>3, <3>4, Zenon DEF r
  <2> QED BY <2>4, <2>5, Zenon
<1> QED BY <1>3, <1>4, Zenon

\* rt_schedule keeps all of it.
LEMMA ScheduleGood ==
    ASSUME NEW s, NEW arm, NEW def, NEW td, Good(s, arm, def, td)
    PROVE  /\ Good(Schedule(s), arm, def, td)
           /\ nest = 0 => Best(Schedule(s))
           /\ nest # 0 => Stays(s, Schedule(s))
<1> DEFINE r == Schedule(s)
<1>1. /\ Lists(s) /\ Members(s) /\ RunInv(s) /\ td \in [All -> Todos] /\ DeleteInv(s, arm, td)
      /\ ReadyInv(s, td) /\ DefunctInv(s, def) /\ TimedInv(s, arm)
  BY DEF Good
<1>2. /\ Lists(r) /\ (Stays(s, r) \/ (nest = 0 /\ Switches(s, r)))
      /\ nest = 0 => \A p \in Prios : Row(r, p) # {} => r.prio[r.cur] <= p
      /\ nest = 0 /\ s.group # {} /\ s.stat[s.cur] # "running" => Switches(s, r)
  BY <1>1, ScheduleLists, Zenon
<1> HIDE DEF r
<1>3. s.prio \in [All -> Prios] /\ s.cur \in All /\ s.stat \in [All -> Stats] /\ Threads \subseteq All /\ Idle \in All
  BY <1>1 DEF Lists, Kernels, All
<1>4. CASE Stays(s, r)
  <2>4. Good(r, arm, def, td)
    BY <1>2, <1>4, StaysGood, Zenon
  <2>5. ASSUME nest = 0 PROVE r.stat[r.cur] = "running"
    <3>1. CASE s.stat[s.cur] = "running"
      BY <1>4, <3>1, Zenon DEF Stays
    <3>2. CASE Switches(s, r)
      BY <3>2, Zenon DEF Switches
    <3>3. CASE s.group = {}
      <4>1. ~InQueue(s, Idle)
        BY <1>1, <1>3, <3>3, Zenon DEF Lists, InQueue
      <4> QED BY <1>1, <1>4, <4>1, IdleReady, Zenon DEF Stays
    <3> QED BY <1>2, <2>5, <3>1, <3>2, <3>3, Zenon
  <2> QED BY <1>2, <1>4, <2>4, <2>5, Zenon DEF Best, r
<1>5. CASE nest = 0 /\ Switches(s, r)
  <2>1. /\ r.prio = s.prio /\ r.cur \in All /\ InQueue(s, r.cur) /\ r.cur # s.cur /\ r.stat[r.cur] = "running"
        /\ s.stat[r.cur] = "ready"
    BY <1>1, <1>3, <1>5, Zenon DEF Switches, Members, InQueue
  <2>2. \A t \in All \ {r.cur} : r.stat[t] = IF Preempted(s, t) THEN "ready" ELSE s.stat[t]
    BY <1>5, Zenon DEF Switches
  <2>3. \A p \in Prios : \A t \in All :
           t \in Row(r, p) <=> (t \in Row(s, p) /\ t # r.cur) \/ (Preempted(s, t) /\ p = s.prio[t])
    BY <1>5, Zenon DEF Switches
  <2>4. \A t \in All : InQueue(r, t) <=> (InQueue(s, t) /\ t # r.cur) \/ Preempted(s, t)
    BY <1>3, <2>1, <2>3, Zenon DEF InQueue
  <2>5. Members(r)
    <3> SUFFICES ASSUME NEW p \in Prios, NEW t \in Row(r, p) PROVE r.stat[t] = "ready" /\ t # r.cur
      BY Zenon DEF Members
    <3>1. t \in All
      BY <1>2, Zenon DEF Lists
    <3>2. CASE t \in Row(s, p) /\ t # r.cur
      BY <1>1, <2>2, <3>1, <3>2, Zenon DEF Members
    <3>3. CASE Preempted(s, t)
      BY <2>1, <2>2, <3>1, <3>3, Zenon DEF Preempted
    <3> QED BY <2>3, <3>1, <3>2, <3>3, Zenon
  <2>6. RunInv(r)
    BY <1>1, <1>3, <2>1, <2>2, Zenon DEF RunInv, Preempted
  <2>7. \A t \in All : r.stat[t] \in {"init", "suspend", "close"} \/ s.stat[t] \in {"init", "suspend", "close"}
                          => r.stat[t] = s.stat[t]
    BY <2>1, <2>2, Zenon DEF Preempted
  <2>8. DeleteInv(r, arm, td)
    <3>1. ASSUME NEW t \in All, NEW u \in Threads, Deletes(td, t, u)
          PROVE  /\ u \notin arm
                 /\ t = u => r.stat[u] \in {"ready", "running"}
                 /\ t # u => r.stat[u] \in {"ready", "suspend"} /\ u # r.cur /\ ~InQueue(r, u) /\ td[u] \in Simple
      <4>1. /\ u \notin arm /\ u \in All
            /\ t = u => s.stat[u] \in {"ready", "running"}
            /\ t # u => s.stat[u] \in {"ready", "suspend"} /\ u # s.cur /\ ~InQueue(s, u) /\ td[u] \in Simple
        BY <1>1, <1>3, <3>1, Zenon DEF DeleteInv
      <4>2. CASE t = u
        BY <2>1, <2>2, <4>1, <4>2, Zenon
      <4>3. CASE t # u
        BY <2>1, <2>2, <2>4, <4>1, <4>3, Zenon DEF Preempted
      <4> QED BY <4>1, <4>2, <4>3, Zenon
    <3>2. \A t, v \in All, u \in Threads : Deletes(td, t, u) /\ Deletes(td, v, u) => t = v
      BY <1>1, Zenon DEF DeleteInv
    <3>3. \A t \in All : r.stat[t] \in {"init", "close"} => td[t] \in Simple
      BY <1>1, <2>7, Zenon DEF DeleteInv
    <3> QED BY <3>1, <3>2, <3>3, Zenon DEF DeleteInv
  <2>9. ReadyInv(r, td)
    BY <1>1, <2>1, <2>2, <2>4, Zenon DEF ReadyInv
  <2>10. DefunctInv(r, def) /\ TimedInv(r, arm)
    BY <1>1, <1>3, <2>7, Zenon DEF DefunctInv, TimedInv
  <2> QED BY <1>1, <1>2, <1>5, <2>1, <2>5, <2>6, <2>8, <2>9, <2>10, Zenon DEF Good, Best, r
<1> QED BY <1>2, <1>4, <1>5, Zenon

\* A step that ends with rt_schedule.
LEMMA ScheduledGood ==
    ASSUME NEW s, NEW arm, NEW def, NEW td, Good(s, arm, def, td), nest \in Nat,
           nest # 0 => s.stat[s.cur] = "running" /\ ~Deletes(td, s.cur, s.cur)
    PROVE  /\ Good(Schedule(s), arm, def, td)
           /\ NestInv(Schedule(s), nest, td) /\ UrgentInv(Schedule(s), nest, td)
<1> DEFINE r == Schedule(s)
<1>1. /\ Good(r, arm, def, td)
      /\ nest = 0 => Best(r)
      /\ nest # 0 => Stays(s, r)
  BY ScheduleGood, Zenon
<1> HIDE DEF r
<1>2. NestInv(r, nest, td)
  BY <1>1, Zenon DEF NestInv, Best, Stays
<1>3. UrgentInv(r, nest, td)
  BY <1>1, Zenon DEF UrgentInv, Best
<1> QED BY <1>1, <1>2, <1>3, Zenon DEF r

\* rt_schedule at the end of a function, and rt_thread_yield.
LEMMA CallScheduleStep ==
    ASSUME IInv, NEW t \in All, CallSchedule(t) \/ Yield(t)
    PROVE  IInv'
<1> DEFINE d == [todo EXCEPT ![t] = Nothing]
<1>1. Good(k, armed, defunct, todo) /\ NestInv(k, nest, todo) /\ nest \in Nat /\ nest \in 0 .. MaxNest /\ TicksInv
  BY Facts, Zenon
<1>2. /\ k.cur = t /\ todo[t] \in Simple /\ k' = Schedule(k) /\ todo' \in {todo, d}
      /\ nest' = nest /\ armed' = armed /\ remaining' = remaining /\ defunct' = defunct
  BY Zenon DEF CallSchedule, Yield, Then, Runs, Simple
<1>3. Good(k, armed, defunct, todo') /\ ~Deletes(todo', t, t)
  <2>1. Nothing \in Simple
    BY DEF Simple
  <2>2. Good(k, armed, defunct, d) /\ ~Deletes(d, t, t)
    BY <1>1, <1>2, <2>1, ThenGood
  <2>3. ~Deletes(todo, t, t)
    BY <1>2 DEF Deletes, Simple, Nothing, ToSchedule
  <2> HIDE DEF d
  <2> QED BY <1>1, <1>2, <2>2, <2>3, Zenon
<1> HIDE DEF d
<1>4. nest # 0 => k.stat[k.cur] = "running" /\ ~Deletes(todo', k.cur, k.cur)
  BY <1>1, <1>2, <1>3, Zenon DEF NestInv
<1>5. Good(k', armed, defunct, todo') /\ NestInv(k', nest, todo') /\ UrgentInv(k', nest, todo')
  BY <1>1, <1>2, <1>3, <1>4, ScheduledGood, Zenon
<1>6. TicksInv'
  BY <1>1, <1>2, Zenon DEF TicksInv
<1> QED BY <1>1, <1>2, <1>5, <1>6, Zenon DEF IInv

\* rt_thread_exit closes the current thread, which nobody deletes, and switches.
LEMMA ExitStep ==
    ASSUME IInv, NEW t \in All, Exit(t)
    PROVE  IInv'
<1> DEFINE g == RemoveThread(k, t)
           c == Closed(g, t)
<1>1. /\ Good(k, armed, defunct, todo) /\ nest \in 0 .. MaxNest /\ nest \in Nat /\ TicksInv
      /\ todo \in [All -> Todos] /\ k.prio \in [All -> Prios]
  BY Facts DEF Kernels
<1>2. /\ k.cur = t /\ k.stat[t] = "running" /\ todo[t] = Nothing /\ t \in Threads /\ nest = 0
      /\ k' = Schedule(c) /\ armed' = armed \ {t} /\ defunct' = Buried(t)
      /\ nest' = nest /\ remaining' = remaining /\ todo' = todo
  BY SchedulerAssumption, Zenon DEF Exit, Runs
<1>3. Lists(k) /\ Members(k) /\ TimedInv(k, armed)
  BY <1>1, Zenon DEF Good
<1>4. ~Doomed(todo, t) /\ t \notin armed
  BY <1>1, <1>2, <1>3, RunnerKept, Zenon DEF TimedInv
<1>5. Lists(g) /\ SameBut(g, k, k.stat) /\ \A p \in Prios : Row(g, p) = Row(k, p) \ {t}
  BY <1>3, RemoveLists
<1> HIDE DEF g
<1>6. Stays(k, g) /\ ~InQueue(g, t)
  <2>1. \A p \in Prios : t \notin Row(k, p)
    BY <1>2, <1>3, Zenon DEF Members
  <2> QED BY <1>1, <1>5, <2>1, Zenon DEF Stays, SameBut, InQueue
<1>7. Good(g, armed, defunct, todo)
  BY <1>1, <1>5, <1>6, StaysGood, Zenon
<1>8. Good(c, armed, IF t \in Static THEN defunct ELSE <<t>> \o defunct, todo)
  <2>1. todo[t] \in Simple /\ g.stat[t] # "close"
    BY <1>2, <1>6, Zenon DEF Simple, Stays
  <2>2. \A v \in All : \A w \in All : Deletes(todo, w, v) <=> Deletes(todo, w, v) /\ v # t
    BY <1>4 DEF Doomed
  <2> QED BY <1>1, <1>2, <1>4, <1>6, <1>7, <2>1, <2>2, CloseGood, Zenon
<1> HIDE DEF c
<1>9. Good(k', armed', defunct', todo') /\ NestInv(k', nest', todo') /\ UrgentInv(k', nest', todo')
  <2>1. armed' = armed /\ defunct' = IF t \in Static THEN defunct ELSE <<t>> \o defunct
    BY <1>2, <1>4 DEF Buried
  <2> QED BY <1>1, <1>2, <1>8, <2>1, ScheduledGood, Zenon
<1>10. TicksInv'
  BY <1>1, <1>2, Zenon DEF TicksInv
<1> QED BY <1>1, <1>2, <1>9, <1>10, Zenon DEF IInv

\* The idle thread frees a closed thread.
LEMMA ReapStep ==
    ASSUME IInv, Reap
    PROVE  IInv'
<1> DEFINE r == [k EXCEPT !.stat[Head(defunct)] = "init"]
<1>1. Good(k, armed, defunct, todo) /\ NestInv(k, nest, todo) /\ nest \in Nat /\ nest \in 0 .. MaxNest /\ TicksInv
  BY Facts, Zenon
<1>2. /\ defunct # <<>> /\ k' = Schedule(r) /\ defunct' = Tail(defunct)
      /\ nest' = nest /\ armed' = armed /\ remaining' = remaining /\ todo' = todo
  BY DEF Reap
<1>3. Good(r, armed, defunct', todo) /\ r.cur = k.cur /\ (k.stat[k.cur] = "running" => r.stat[k.cur] = "running")
  BY <1>1, <1>2, ReapGood, Zenon
<1> HIDE DEF r
<1>4. nest # 0 => r.stat[r.cur] = "running" /\ ~Deletes(todo, r.cur, r.cur)
  BY <1>1, <1>3 DEF NestInv
<1>5. Good(k', armed, defunct', todo) /\ NestInv(k', nest, todo) /\ UrgentInv(k', nest, todo)
  BY <1>1, <1>2, <1>3, <1>4, ScheduledGood, Zenon
<1>6. TicksInv'
  BY <1>1, <1>2 DEF TicksInv
<1> QED BY <1>1, <1>2, <1>5, <1>6 DEF IInv

\* The tick counts the slice down, or starts it again and calls rt_schedule.
LEMMA TickStep ==
    ASSUME IInv, Tick
    PROVE  IInv'
<1> DEFINE over == remaining[k.cur] = 1
           y == k.yield \cup {k.cur}
           r == [k EXCEPT !.yield = y]
<1>1. /\ Good(k, armed, defunct, todo) /\ NestInv(k, nest, todo) /\ UrgentInv(k, nest, todo)
      /\ nest \in Nat /\ nest \in 0 .. MaxNest /\ TicksInv
      /\ k \in Kernels /\ k.cur \in All /\ k.yield \in SUBSET All /\ Lists(k)
  BY Facts DEF Kernels, Good
<1>2. /\ remaining' = [remaining EXCEPT ![k.cur] = IF over THEN Slice[k.cur] ELSE remaining[k.cur] - 1]
      /\ (over => k' = Schedule(r)) /\ (~over => k' = k)
      /\ nest' = nest /\ armed' = armed /\ defunct' = defunct /\ todo' = todo
  BY DEF Tick
<1>3. TicksInv'
  <2>1. remaining \in [All -> Nat] /\ \A t \in All : remaining[t] \in 1 .. Slice[t] /\ Slice[t] \in Nat \ {0}
    BY <1>1, SchedulerAssumption, Zenon DEF TicksInv
  <2>2. ASSUME NEW n \in Nat, n = IF over THEN Slice[k.cur] ELSE remaining[k.cur] - 1
        PROVE  n \in 1 .. Slice[k.cur]
    <3>1. remaining[k.cur] \in Nat /\ remaining[k.cur] \in 1 .. Slice[k.cur] /\ Slice[k.cur] \in Nat \ {0}
      BY <1>1, <2>1, Zenon
    <3> QED BY <2>2, <3>1
  <2>3. PICK n \in Nat : n = IF over THEN Slice[k.cur] ELSE remaining[k.cur] - 1
    <3>1. remaining[k.cur] \in 1 .. Slice[k.cur] /\ Slice[k.cur] \in Nat
      BY <1>1, <2>1, Zenon
    <3>2. remaining[k.cur] - 1 \in Nat
      BY <3>1
    <3> QED BY <3>1, <3>2, Zenon
  <2>4. n \in 1 .. Slice[k.cur] /\ remaining' = [remaining EXCEPT ![k.cur] = n]
    BY <1>2, <2>2, <2>3
  <2> QED BY <1>1, <2>1, <2>4, Zenon DEF TicksInv
<1>4. CASE over
  <2>1. y \in SUBSET All
    BY <1>1, Zenon
  <2> HIDE DEF y
  <2>2. r \in Kernels /\ r.cur = k.cur /\ r.prio = k.prio /\ r.stat = k.stat /\ r.ready = k.ready /\ r.group = k.group
    BY <1>1, <2>1, Zenon DEF Kernels
  <2> HIDE DEF r
  <2>3. Lists(r) /\ Stays(k, r)
    BY <1>1, <2>2, SameLists, Zenon DEF Stays
  <2>4. Good(r, armed, defunct, todo)
    BY <1>1, <2>3, StaysGood, Zenon
  <2>5. nest # 0 => r.stat[r.cur] = "running" /\ ~Deletes(todo, r.cur, r.cur)
    BY <1>1, <2>2, Zenon DEF NestInv
  <2>6. Good(k', armed, defunct, todo) /\ NestInv(k', nest, todo) /\ UrgentInv(k', nest, todo)
    BY <1>1, <1>2, <1>4, <2>4, <2>5, ScheduledGood, Zenon
  <2> QED BY <1>1, <1>2, <1>3, <2>6, Zenon DEF IInv
<1>5. CASE ~over
  BY <1>1, <1>2, <1>3, <1>5 DEF IInv
<1> QED BY <1>4, <1>5

\* A suspended thread is resumed from an interrupt.
LEMMA InterruptStep ==
    ASSUME IInv, NEW u \in Threads, Timeout(u) \/ ResumeFromInterrupt(u)
    PROVE  IInv'
<1> DEFINE r == InsertThread(k, u)
<1>1. /\ Good(k, armed, defunct, todo) /\ NestInv(k, nest, todo) /\ nest \in Nat /\ nest \in 0 .. MaxNest /\ TicksInv
      /\ DeleteInv(k, armed, todo) /\ TimedInv(k, armed)
  BY Facts, Zenon DEF Good
<1>2. /\ k' = Schedule(r) /\ armed' = armed \ {u}
      /\ nest' = nest /\ remaining' = remaining /\ defunct' = defunct /\ todo' = todo
  BY Zenon DEF Timeout, ResumeFromInterrupt, Disarmed
<1>3. k.stat[u] = "suspend" /\ ~Doomed(todo, u)
  <2>1. CASE u \in armed
    BY <1>1, <2>1, Zenon DEF DeleteInv, TimedInv, Doomed
  <2>2. CASE ResumeFromInterrupt(u)
    BY <2>2, Facts, Zenon DEF ResumeFromInterrupt
  <2> QED BY <2>1, <2>2 DEF Timeout
<1>4. Good(r, armed', defunct, todo) /\ r.cur = k.cur /\ (k.stat[k.cur] = "running" => r.stat[k.cur] = "running")
  BY <1>1, <1>2, <1>3, ResumeGood, Zenon
<1> HIDE DEF r
<1>5. nest # 0 => r.stat[r.cur] = "running" /\ ~Deletes(todo, r.cur, r.cur)
  BY <1>1, <1>4, Zenon DEF NestInv
<1>6. Good(k', armed', defunct, todo) /\ NestInv(k', nest, todo) /\ UrgentInv(k', nest, todo)
  BY <1>1, <1>2, <1>4, <1>5, ScheduledGood, Zenon
<1>7. TicksInv'
  BY <1>1, <1>2 DEF TicksInv
<1> QED BY <1>1, <1>2, <1>6, <1>7 DEF IInv

-----------------------------------------------------------------------------
(* The theorems.                                                           *)

\* The invariant is kept by everything the threads, the idle thread and the interrupts do,
\* when no thread is deleted while its timer runs.
THEOREM Inductive == ASSUME ~DeletesTimed PROVE Spec => []IInv
<1>1. Init => IInv
  BY InitGood
<1>2. IInv /\ [Next]_vars => IInv'
  <2> SUFFICES ASSUME IInv, [Next]_vars PROVE IInv'
    OBVIOUS
  <2>1. CASE UNCHANGED vars
    BY <2>1 DEF IInv, TicksInv, vars
  <2>2. ASSUME NEW t \in All, Step(t) PROVE IInv'
    <3>1. CASE SuspendSelf(t)
      BY <3>1, SuspendSelfStep
    <3>2. CASE EnterCritical(t) \/ ExitCritical(t)
      BY <3>2, CriticalStep
    <3>3. CASE CallSchedule(t) \/ Yield(t)
      BY <3>3, CallScheduleStep
    <3>4. CASE Exit(t)
      BY <3>4, ExitStep
    <3>5. ASSUME NEW u \in Threads, Startup(t, u) PROVE IInv'
      BY <3>5, StartupStep
    <3>6. ASSUME NEW u \in Threads, SuspendOther(t, u) PROVE IInv'
      BY <3>6, SuspendOtherStep
    <3>7. ASSUME NEW u \in Threads, Resume(t, u) PROVE IInv'
      BY <3>7, ResumeStep
    <3>8. ASSUME NEW u \in Threads, Delete(t, u) PROVE IInv'
      BY <3>8, DeleteStep
    <3>9. ASSUME NEW u \in Threads, DeleteTimer(t, u) PROVE IInv'
      BY <3>9, DeleteTimerStep
    <3>10. ASSUME NEW u \in Threads, DeleteClose(t, u) PROVE IInv'
      BY <3>10, DeleteCloseStep
    <3>11. ASSUME NEW u \in Threads, NEW p \in Prios, ChangePriority(t, u, p) PROVE IInv'
      BY <3>11, ChangePriorityStep
    <3> QED BY <2>2, <3>1, <3>2, <3>3, <3>4, <3>5, <3>6, <3>7, <3>8, <3>9, <3>10, <3>11 DEF Step
  <2>3. CASE Reap
    BY <2>3, ReapStep
  <2>4. CASE Tick
    BY <2>4, TickStep
  <2>5. ASSUME NEW u \in Threads, Timeout(u) \/ ResumeFromInterrupt(u) PROVE IInv'
    BY <2>5, InterruptStep
  <2> QED BY <2>1, <2>2, <2>3, <2>4, <2>5 DEF Next
<1> QED BY <1>1, <1>2, PTL DEF Spec

\* The ready queues and the bits of rt_thread_ready_priority_group agree with the state and the
\* priority of the threads, and rt_thread_defunct holds exactly the closed ones, after any
\* sequence of the calls of thread.c and of interrupts.
THEOREM QueuesAlwaysExact == ASSUME ~DeletesTimed PROVE Spec => []QueuesExact
<1>1. IInv => QueuesExact
  <2> SUFFICES ASSUME IInv PROVE QueuesExact
    OBVIOUS
  <2>1. /\ Lists(k) /\ Members(k) /\ todo \in [All -> Todos] /\ ReadyInv(k, todo)
        /\ DefunctInv(k, defunct) /\ TimedInv(k, armed) /\ nest \in 0 .. MaxNest /\ TicksInv
    BY DEF IInv, Good
  <2>2. TypeOK
    BY <2>1, Zenon DEF Lists, Kernels, TimedInv, TicksInv, DefunctInv, TypeOK
  <2>3. \A p \in Prios : k.ready[p] = <<>> <=> Row(k, p) = {}
    BY <2>2, EmptyList, Zenon DEF TypeOK, Row
  <2>4. k.group = {p \in Prios : k.ready[p] # <<>>}
    <3>1. k.group \subseteq Prios
      BY <2>2 DEF TypeOK
    <3> QED BY <2>1, <2>3, <3>1, Zenon DEF Lists
  <2>5. \A p \in Prios : /\ IsInjective(k.ready[p])
                        /\ \A t \in Range(k.ready[p]) : k.prio[t] = p /\ k.stat[t] = "ready" /\ t # k.cur
    BY <2>1, Zenon DEF Lists, Members, Row
  <2>6. \A t \in All : k.stat[t] = "ready" /\ Kept(t) => t \in Range(k.ready[k.prio[t]])
    BY <2>1, KeptIsNotDoomed, Zenon DEF ReadyInv, InQueue, Row
  <2>7. \A t \in Threads : t \in Range(defunct) <=> k.stat[t] = "close"
    BY <2>1, Zenon DEF DefunctInv
  <2> QED BY <2>2, <2>4, <2>5, <2>6, <2>7, Zenon DEF QueuesExact
<1> QED BY <1>1, Inductive, PTL

\* Whenever the scheduler is not locked and the current thread is not about to call rt_schedule,
\* the current thread is RUNNING and no queued thread is more urgent, but for the threads whose
\* priority rt_thread_control changes.
THEOREM PreemptionNeverMissed == ASSUME ~DeletesTimed PROVE Spec => []NoMissedPreemption
<1>1. IInv => NoMissedPreemption
  <2> SUFFICES ASSUME IInv PROVE NoMissedPreemption
    OBVIOUS
  <2>1. NestInv(k, nest, todo) /\ UrgentInv(k, nest, todo)
    BY DEF IInv
  <2> QED BY <2>1 DEF NestInv, UrgentInv, NoMissedPreemption, Row
<1> QED BY <1>1, Inductive, PTL

\* The assertion of rt_thread_timeout: it finds the thread suspended.
THEOREM TimeoutFindsSuspended == ASSUME ~DeletesTimed PROVE Spec => []TimedIsSuspended
<1>1. IInv => TimedIsSuspended
  BY Zenon DEF IInv, Good, TimedInv, TimedIsSuspended
<1> QED BY <1>1, Inductive, PTL

=============================================================================
