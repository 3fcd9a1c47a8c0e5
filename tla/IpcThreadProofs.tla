-------------------------- MODULE IpcThreadProofs --------------------------
(***************************************************************************)
(* Lemmas about the lists of suspended threads: linking a thread where     *)
(* rt_ipc_list_suspend does, removing one, and resuming the first, for     *)
(* lists of any length, any priorities and both flags.                     *)
(***************************************************************************)
EXTENDS IpcThread, TLAPS

\* Linking a thread at any position of a list, as rt_list_insert_before does,
\* keeps a duplicate-free list of threads and adds exactly that thread.
LEMMA LinkedProperties ==
    ASSUME NEW list \in Seq(Threads), NEW t \in Threads, NEW k \in 1..(Len(list) + 1),
           Distinct(list), t \notin Members(list)
    PROVE  /\ Linked(list, t, k) \in Seq(Threads)
           /\ Distinct(Linked(list, t, k))
           /\ Members(Linked(list, t, k)) = Members(list) \cup {t}
           /\ Linked(list, t, k) # <<>>
<1> DEFINE n == Len(list)
           l == Linked(list, t, k)
<1>1. n \in Nat /\ DOMAIN list = 1..n /\ \A i \in 1..n : list[i] \in Threads
  OBVIOUS
<1>2. l = [i \in 1..(n + 1) |->
             IF i < k THEN list[i] ELSE IF i = k THEN t ELSE list[i - 1]]
  BY DEF Linked
<1>3. \A i \in 1..(n + 1) : l[i] \in Threads
  BY <1>1, <1>2
<1>4. l \in Seq(Threads) /\ Len(l) = n + 1 /\ DOMAIN l = 1..(n + 1)
  BY <1>1, <1>2, <1>3
<1>5. \A i \in 1..n : list[i] # t
  BY <1>1 DEF Members
<1>6. Distinct(l)
  BY <1>1, <1>2, <1>4, <1>5 DEF Distinct
<1>7. Members(l) = Members(list) \cup {t}
  <2>1. ASSUME NEW x \in Members(l) PROVE x \in Members(list) \cup {t}
    <3>1. PICK i \in 1..(n + 1) : x = l[i]
      BY <1>4 DEF Members
    <3>2. CASE i < k
      BY <1>1, <1>2, <3>1, <3>2 DEF Members
    <3>3. CASE i = k
      BY <1>2, <3>1, <3>3
    <3>4. CASE i > k
      BY <1>1, <1>2, <3>1, <3>4 DEF Members
    <3> QED BY <3>2, <3>3, <3>4
  <2>2. ASSUME NEW x \in Members(list) PROVE x \in Members(l)
    <3>1. PICK i \in 1..n : x = list[i]
      BY <1>1 DEF Members
    <3>2. CASE i < k
      <4>1. i \in 1..(n + 1) /\ l[i] = list[i]
        BY <1>1, <1>2, <3>2
      <4> QED BY <1>4, <3>1, <4>1, Zenon DEF Members
    <3>3. CASE i >= k
      <4>1. i + 1 \in 1..(n + 1) /\ l[i + 1] = list[i]
        BY <1>1, <1>2, <3>3
      <4> QED BY <1>4, <3>1, <4>1, Zenon DEF Members
    <3> QED BY <3>2, <3>3
  <2>3. t \in Members(l)
    BY <1>1, <1>2, <1>4 DEF Members
  <2> QED BY <2>1, <2>2, <2>3
<1> QED BY <1>1, <1>4, <1>6, <1>7

\* The position rt_ipc_list_suspend finds is one of the list, or just behind it.
LEMMA PositionInRange ==
    ASSUME NEW list \in Seq(Threads), NEW t \in Threads, NEW prio \in [Threads -> Nat]
    PROVE  Position(list, t, prio) \in 1..(Len(list) + 1)
<1>1. Len(list) \in Nat /\ DOMAIN list = 1..Len(list)
  OBVIOUS
<1>2. CASE Flag = "PRIO" /\ \E i \in DOMAIN list : FirstBehind(list, t, prio, i)
  <2>1. (CHOOSE i \in DOMAIN list : FirstBehind(list, t, prio, i)) \in DOMAIN list
    BY <1>2
  <2> QED BY <1>1, <1>2, <2>1 DEF Position
<1>3. CASE ~ (Flag = "PRIO" /\ \E i \in DOMAIN list : FirstBehind(list, t, prio, i))
  BY <1>1, <1>3 DEF Position
<1> QED BY <1>2, <1>3

\* rt_ipc_list_suspend adds exactly the caller, once, in FIFO and in PRIO order.
LEMMA ListSuspendProperties ==
    ASSUME NEW list \in Seq(Threads), NEW t \in Threads, NEW prio \in [Threads -> Nat],
           Distinct(list), t \notin Members(list)
    PROVE  /\ ListSuspend(list, t, prio) \in Seq(Threads)
           /\ Distinct(ListSuspend(list, t, prio))
           /\ Members(ListSuspend(list, t, prio)) = Members(list) \cup {t}
           /\ ListSuspend(list, t, prio) # <<>>
BY LinkedProperties, PositionInRange, Zenon DEF ListSuspend

\* rt_list_remove takes exactly one thread out of the list.
LEMMA ListRemoveProperties ==
    ASSUME NEW list \in Seq(Threads), NEW t \in Threads,
           Distinct(list), t \in Members(list)
    PROVE  /\ ListRemove(list, t) \in Seq(Threads)
           /\ Distinct(ListRemove(list, t))
           /\ Members(ListRemove(list, t)) = Members(list) \ {t}
<1> DEFINE n == Len(list)
           k == CHOOSE i \in DOMAIN list : list[i] = t
           l == ListRemove(list, t)
<1>1. n \in Nat /\ DOMAIN list = 1..n /\ \A i \in 1..n : list[i] \in Threads
  OBVIOUS
<1>2. k \in 1..n /\ list[k] = t
  BY <1>1 DEF Members
<1>3. l = [i \in 1..(n - 1) |-> IF i < k THEN list[i] ELSE list[i + 1]]
  BY DEF ListRemove
<1> HIDE DEF k
<1>4. l \in Seq(Threads) /\ Len(l) = n - 1 /\ DOMAIN l = 1..(n - 1)
  <2>1. \A i \in 1..(n - 1) : l[i] \in Threads
    BY <1>1, <1>2, <1>3
  <2> QED BY <1>1, <1>2, <1>3, <2>1
<1>5. Distinct(l)
  BY <1>1, <1>2, <1>3, <1>4 DEF Distinct
<1>6. ASSUME NEW x \in Members(l) PROVE x \in Members(list) \ {t}
  <2>1. PICK i \in 1..(n - 1) : x = l[i]
    BY <1>4 DEF Members
  <2>2. CASE i < k
    <3>1. i \in 1..n /\ i # k /\ x = list[i]
      BY <1>1, <1>2, <1>3, <2>1, <2>2
    <3>2. list[i] # t
      BY <1>1, <1>2, <3>1 DEF Distinct
    <3> QED BY <1>1, <3>1, <3>2, Zenon DEF Members
  <2>3. CASE i >= k
    <3>1. i + 1 \in 1..n /\ i + 1 # k /\ x = list[i + 1]
      BY <1>1, <1>2, <1>3, <2>1, <2>3
    <3>2. list[i + 1] # t
      BY <1>1, <1>2, <3>1 DEF Distinct
    <3> QED BY <1>1, <3>1, <3>2, Zenon DEF Members
  <2> QED BY <1>1, <1>2, <2>2, <2>3
<1>7. ASSUME NEW x \in Members(list), x # t PROVE x \in Members(l)
  <2>1. PICK i \in 1..n : x = list[i]
    BY <1>1 DEF Members
  <2>2. CASE i < k
    <3>1. i \in 1..(n - 1) /\ l[i] = list[i]
      BY <1>1, <1>2, <1>3, <2>2
    <3> QED BY <1>4, <2>1, <3>1, Zenon DEF Members
  <2>3. CASE i > k
    <3>1. i - 1 \in 1..(n - 1) /\ l[i - 1] = list[i]
      BY <1>1, <1>2, <1>3, <2>3
    <3> QED BY <1>4, <2>1, <3>1, Zenon DEF Members
  <2> QED BY <1>1, <1>2, <1>7, <2>1, <2>2, <2>3
<1> QED BY <1>4, <1>5, <1>6, <1>7

\* rt_ipc_list_resume takes the first thread out of the list.
LEMMA ListTailProperties ==
    ASSUME NEW list \in Seq(Threads), list # <<>>, Distinct(list)
    PROVE  /\ Head(list) \in Members(list) /\ Head(list) \in Threads
           /\ Tail(list) \in Seq(Threads)
           /\ Distinct(Tail(list))
           /\ Members(Tail(list)) = Members(list) \ {Head(list)}
<1> DEFINE n == Len(list)
           l == Tail(list)
<1>1. n \in Nat /\ n > 0 /\ DOMAIN list = 1..n /\ \A i \in 1..n : list[i] \in Threads
  OBVIOUS
<1>2. Head(list) = list[1]
  BY <1>1
<1>3. l \in Seq(Threads) /\ Len(l) = n - 1 /\ DOMAIN l = 1..(n - 1)
      /\ \A i \in 1..(n - 1) : l[i] = list[i + 1]
  BY <1>1
<1>4. Distinct(l)
  BY <1>1, <1>3 DEF Distinct
<1>5. ASSUME NEW x \in Members(l) PROVE x \in Members(list) \ {list[1]}
  <2>1. PICK i \in 1..(n - 1) : x = list[i + 1]
    BY <1>3 DEF Members
  <2>2. i + 1 \in 1..n /\ i + 1 # 1
    BY <1>1
  <2> QED BY <1>1, <2>1, <2>2 DEF Members, Distinct
<1>6. ASSUME NEW x \in Members(list), x # list[1] PROVE x \in Members(l)
  <2>1. PICK i \in 1..n : x = list[i]
    BY <1>1 DEF Members
  <2>2. i - 1 \in 1..(n - 1) /\ l[i - 1] = list[i]
    BY <1>1, <1>3, <1>6, <2>1
  <2> QED BY <1>3, <2>1, <2>2, Zenon DEF Members
<1>7. list[1] \in Members(list) /\ list[1] \in Threads
  BY <1>1 DEF Members
<1> QED BY <1>2, <1>3, <1>4, <1>5, <1>6, <1>7

\* A list has members unless it is empty.
LEMMA EmptyListProperties ==
    /\ <<>> \in Seq(Threads) /\ Distinct(<<>>) /\ Members(<<>>) = {}
    /\ \A list \in Seq(Threads) : Members(list) = {} => list = <<>>
<1>1. <<>> \in Seq(Threads) /\ DOMAIN <<>> = {}
  OBVIOUS
<1>2. Distinct(<<>>) /\ Members(<<>>) = {}
  BY <1>1 DEF Distinct, Members
<1>3. ASSUME NEW list \in Seq(Threads), Members(list) = {} PROVE list = <<>>
  <2>1. DOMAIN list = 1..Len(list) /\ Len(list) \in Nat
    OBVIOUS
  <2>2. DOMAIN list = {}
    BY <1>3, Zenon DEF Members
  <2>3. Len(list) = 0
    BY <2>1, <2>2
  <2> QED BY <2>3
<1> QED BY <1>1, <1>2, <1>3

\* Waking a set of threads with an error, as rt_ipc_list_resume_all does, keeps
\* the types of the threads' state.
LEMMA ResumeErrorType ==
    ASSUME ThreadTypeOK, NEW S, ResumeError(S)
    PROVE  ThreadTypeOK'
<1>1. stat' \in [Threads -> {"ready", "suspend"}] /\ error' \in [Threads -> Errors]
  BY DEF ThreadTypeOK, ResumeError, Errors
<1>2. timer' \in [Threads -> BOOLEAN]
  <2>1. \A t \in Threads : (IF t \in S THEN FALSE ELSE timer[t]) \in BOOLEAN
    BY Zenon DEF ThreadTypeOK
  <2> QED BY <2>1, Zenon DEF ResumeError
<1> QED BY <1>1, <1>2 DEF ThreadTypeOK

-----------------------------------------------------------------------------

\* The waiters in the order of their urgency, those of one priority as they came.
SortedBy(list, prio) == \A i, j \in DOMAIN list : i < j => prio[list[i]] <= prio[list[j]]

\* Linking a thread behind the waiters that are as urgent and before the others keeps the order.
LEMMA LinkedSorted ==
    ASSUME NEW list \in Seq(Threads), NEW t \in Threads, NEW prio \in [Threads -> Nat],
           SortedBy(list, prio), NEW k \in 1..(Len(list) + 1),
           \A i \in 1..(k - 1) : prio[list[i]] <= prio[t],
           \A i \in k..Len(list) : prio[t] <= prio[list[i]]
    PROVE  SortedBy(Linked(list, t, k), prio)
<1> DEFINE n == Len(list)
           l == Linked(list, t, k)
<1>1. n \in Nat /\ DOMAIN list = 1..n /\ k \in 1..(n + 1)
  OBVIOUS
<1>2. DOMAIN l = 1..(n + 1) /\ l[k] = t
      /\ (\A i \in 1..(k - 1) : l[i] = list[i]) /\ (\A i \in (k + 1)..(n + 1) : l[i] = list[i - 1])
  BY <1>1 DEF Linked
<1> HIDE DEF l
<1> SUFFICES ASSUME NEW i \in 1..(n + 1), NEW j \in 1..(n + 1), i < j
             PROVE  prio[l[i]] <= prio[l[j]]
  BY <1>2 DEF SortedBy, l
<1>3. \A a, b \in 1..n : a < b => prio[list[a]] <= prio[list[b]]
  BY <1>1, Zenon DEF SortedBy
<1>4. CASE j < k
  BY <1>1, <1>2, <1>3, <1>4
<1>5. CASE j = k
  BY <1>1, <1>2, <1>5
<1>6. CASE i = k
  <2>1. j - 1 \in k..n /\ l[j] = list[j - 1] /\ l[i] = t
    BY <1>1, <1>2, <1>6
  <2> QED BY <2>1
<1>7. CASE i < k /\ j > k
  <2>1. l[i] = list[i] /\ l[j] = list[j - 1]
    <3>1. i \in 1..(k - 1) /\ j \in (k + 1)..(n + 1)
      BY <1>1, <1>7
    <3> QED BY <1>2, <3>1, Zenon
  <2>2. i \in 1..n /\ j - 1 \in 1..n /\ i < j - 1
    BY <1>1, <1>7
  <2> QED BY <1>3, <2>1, <2>2, Zenon
<1>8. CASE i > k
  <2>1. i - 1 \in 1..n /\ j - 1 \in 1..n /\ i - 1 < j - 1 /\ l[i] = list[i - 1] /\ l[j] = list[j - 1]
    BY <1>1, <1>2, <1>8
  <2> QED BY <1>3, <2>1, Zenon
<1> QED BY <1>1, <1>4, <1>5, <1>6, <1>7, <1>8

\* rt_list_remove keeps the order of the others.
LEMMA ListRemoveSorted ==
    ASSUME NEW list \in Seq(Threads), NEW t \in Threads, t \in Members(list),
           NEW prio, SortedBy(list, prio)
    PROVE  SortedBy(ListRemove(list, t), prio)
<1> DEFINE n == Len(list)
           k == CHOOSE i \in DOMAIN list : list[i] = t
           l == ListRemove(list, t)
<1>1. n \in Nat /\ DOMAIN list = 1..n
  OBVIOUS
<1>2. k \in 1..n
  BY <1>1 DEF Members
<1>3. l = [i \in 1..(n - 1) |-> IF i < k THEN list[i] ELSE list[i + 1]]
  BY DEF ListRemove
<1> HIDE DEF k, l
<1> SUFFICES ASSUME NEW i \in 1..(n - 1), NEW j \in 1..(n - 1), i < j
             PROVE  prio[l[i]] <= prio[l[j]]
  BY <1>3 DEF SortedBy, l
<1>4. PICK a \in 1..n : l[i] = list[a] /\ (a = i \/ (a = i + 1 /\ ~(i < k)))
  BY <1>1, <1>2, <1>3
<1>5. PICK b \in 1..n : l[j] = list[b] /\ ((b = j /\ j < k) \/ b = j + 1)
  BY <1>1, <1>2, <1>3
<1>6. a < b
  BY <1>1, <1>2, <1>4, <1>5
<1> QED BY <1>1, <1>4, <1>5, <1>6 DEF SortedBy

\* The first waiter is the most urgent, and the others stay in order behind it.
LEMMA TailSorted ==
    ASSUME NEW list \in Seq(Threads), list # <<>>, NEW prio, SortedBy(list, prio)
    PROVE  /\ SortedBy(Tail(list), prio)
           /\ \A t \in Members(Tail(list)) : prio[Head(list)] <= prio[t]
<1> DEFINE n == Len(list)
           l == Tail(list)
<1>1. n \in Nat /\ n > 0 /\ DOMAIN list = 1..n /\ Head(list) = list[1]
  OBVIOUS
<1>2. DOMAIN l = 1..(n - 1) /\ \A i \in 1..(n - 1) : l[i] = list[i + 1]
  BY <1>1
<1> HIDE DEF l
<1>3. \A i, j \in 1..n : i < j => prio[list[i]] <= prio[list[j]]
  BY <1>1 DEF SortedBy
<1>4. ASSUME NEW i \in 1..(n - 1), NEW j \in 1..(n - 1), i < j PROVE prio[l[i]] <= prio[l[j]]
  <2>1. i + 1 \in 1..n /\ j + 1 \in 1..n /\ i + 1 < j + 1
    BY <1>1, <1>4
  <2> QED BY <1>2, <1>3, <2>1
<1>5. ASSUME NEW t \in Members(l) PROVE prio[list[1]] <= prio[t]
  <2>1. PICK i \in 1..(n - 1) : t = list[i + 1]
    BY <1>2 DEF Members
  <2>2. 1 \in 1..n /\ i + 1 \in 1..n /\ 1 < i + 1
    BY <1>1
  <2> QED BY <1>3, <2>1, <2>2
<1>6. SortedBy(l, prio)
  BY <1>2, <1>4 DEF SortedBy
<1> QED BY <1>1, <1>5, <1>6 DEF l

\* Every set of numbers has a least one; proved where it is used, with the library of
\* well-founded orders.
WellOrdered == \A S \in SUBSET Nat : S # {} => \E x \in S : \A y \in S : x <= y

\* rt_ipc_list_suspend with RT_IPC_FLAG_PRIO keeps the list in the order of urgency.
LEMMA ListSuspendSorted ==
    ASSUME NEW list \in Seq(Threads), NEW t \in Threads, NEW prio \in [Threads -> Nat],
           Flag = "PRIO", WellOrdered, SortedBy(list, prio)
    PROVE  SortedBy(ListSuspend(list, t, prio), prio)
<1> DEFINE n == Len(list)
           k == Position(list, t, prio)
           S == {i \in 1..n : prio[t] < prio[list[i]]}
<1>1. n \in Nat /\ DOMAIN list = 1..n /\ (\A i \in 1..n : prio[list[i]] \in Nat) /\ prio[t] \in Nat
  OBVIOUS
<1>2. k \in 1..(n + 1)
  BY PositionInRange
<1>3. CASE S = {}
  <2>1. ~ \E i \in DOMAIN list : FirstBehind(list, t, prio, i)
    BY <1>1, <1>3 DEF FirstBehind
  <2>2. k = n + 1
    BY <2>1 DEF Position
  <2>3. \A i \in 1..n : prio[list[i]] <= prio[t]
    BY <1>1, <1>3
  <2> HIDE DEF k
  <2>4. (\A i \in 1..(k - 1) : prio[list[i]] <= prio[t]) /\ \A i \in k..n : prio[t] <= prio[list[i]]
    BY <1>1, <2>2, <2>3
  <2> QED BY <1>2, <2>4, LinkedSorted, Zenon DEF ListSuspend, k
<1>4. CASE S # {}
  <2>1. PICK x \in S : \A y \in S : x <= y
    <3>1. S \subseteq Nat
      BY <1>1
    <3> QED BY <1>4, <3>1, Zenon DEF WellOrdered
  <2>2. FirstBehind(list, t, prio, x)
    BY <1>1, <2>1 DEF FirstBehind
  <2>3. k \in DOMAIN list /\ FirstBehind(list, t, prio, k)
    <3>1. x \in DOMAIN list
      BY <1>1, <2>1
    <3>2. k = CHOOSE i \in DOMAIN list : FirstBehind(list, t, prio, i)
      BY <2>2, <3>1 DEF Position
    <3> QED BY <2>2, <3>1, <3>2, Zenon
  <2> HIDE DEF k
  <2>4. \A i \in 1..(k - 1) : prio[list[i]] <= prio[t]
    BY <2>3 DEF FirstBehind
  <2>5. ASSUME NEW i \in k..n PROVE prio[t] <= prio[list[i]]
    <3>1. k \in 1..n /\ i \in 1..n /\ (k < i \/ k = i) /\ prio[t] < prio[list[k]]
      BY <1>1, <2>3 DEF FirstBehind
    <3>2. prio[t] \in Nat /\ prio[list[k]] \in Nat /\ prio[list[i]] \in Nat
      BY <1>1, <3>1
    <3>3. k < i => prio[list[k]] <= prio[list[i]]
      BY <1>1, <3>1, Zenon DEF SortedBy
    <3> QED BY <3>1, <3>2, <3>3
  <2> QED BY <1>2, <2>4, <2>5, LinkedSorted, Zenon DEF ListSuspend, k
<1> QED BY <1>3, <1>4

=============================================================================
