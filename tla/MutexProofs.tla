---------------------------- MODULE MutexProofs ----------------------------
(***************************************************************************)
(* Mutual exclusion and the bookkeeping of the recursive mutexes, for any  *)
(* set of threads and mutexes, any priorities, both flags, and with        *)
(* mutexes that are deleted.                                               *)
(***************************************************************************)
EXTENDS Mutex, IpcThreadProofs

\* A thread that is inside rt_mutex_take has no earlier take of that mutex.
WaiterOutside == \A t \in Threads, m \in Mutexes : wants[t] = m => depth[t][m] = 0

\* Mutual exclusion follows from the agreement of owner and hold with who is
\* inside, which is inductive only with the lists and the free state.
IInv == TypeOK /\ ListsConsistent /\ HoldCounts /\ FreeMeansNoWaiter /\ WaiterOutside

\* hold ++ and hold -- do not wrap within the bounds that HoldCounts gives.
LEMMA HoldArithmetic ==
    ASSUME NEW m \in Mutexes, hold[m] \in 0..HoldMax
    PROVE  /\ hold[m] < HoldMax => IncHold(m) = hold[m] + 1
           /\ hold[m] > 0 => DecHold(m) = hold[m] - 1
<1> DEFINE h == hold[m]
<1>1. HoldMax \in Nat
  BY MutexAssumption
<1>2. ASSUME h < HoldMax PROVE (h + 1) % (HoldMax + 1) = h + 1
  BY <1>1, <1>2
<1>3. ASSUME h > 0 PROVE (h + HoldMax) % (HoldMax + 1) = h - 1
  <2>1. h + HoldMax = (h - 1) + (HoldMax + 1) /\ h - 1 \in 0..HoldMax
    BY <1>1, <1>3
  <2> QED BY <1>1, <1>3, <2>1
<1> QED BY <1>2, <1>3 DEF IncHold, DecHold

\* What a change of one entry of depth leaves.
SetsDepth(t, m, e) == depth' = [depth EXCEPT ![t][m] = e]
DepthSet(t, m, e) ==
    /\ depth' \in [Threads -> [Mutexes -> 0..MaxDepth]]
    /\ \A u \in Threads, n \in Mutexes :
          depth'[u][n] = IF u = t /\ n = m THEN e ELSE depth[u][n]

\* A take or a release changes one entry of depth.
LEMMA DepthUpdate ==
    ASSUME TypeOK, NEW t \in Threads, NEW m \in Mutexes, NEW e \in 0..MaxDepth, SetsDepth(t, m, e)
    PROVE  DepthSet(t, m, e)
<1>1. [depth[t] EXCEPT ![m] = e] \in [Mutexes -> 0..MaxDepth]
  BY DEF TypeOK
<1>2. depth' = [depth EXCEPT ![t] = [depth[t] EXCEPT ![m] = e]]
  BY DEF SetsDepth
<1> QED BY <1>1, <1>2, Zenon DEF TypeOK, DepthSet

\* Raising the owner's priority and giving it back keep priorities natural.
LEMMA PriorityType ==
    ASSUME TypeOK, FreeMeansNoWaiter, NEW t \in Threads, NEW m \in Mutexes
    PROVE  /\ ~ Free(m) => Inherited(t, m) \in [Threads -> Nat]
           /\ Restored(t, m) \in [Threads -> Nat]
<1>1. ~ Free(m) => owner[m] \in Threads
  BY DEF TypeOK, Free, FreeMeansNoWaiter
<1> QED BY <1>1 DEF TypeOK, Inherited, Restored

\* rt_mutex_take by a thread that has to wait keeps the invariant.
LEMMA TakeWaitsStep ==
    ASSUME IInv, NEW t \in Threads, NEW m \in Mutexes, NEW timed \in BOOLEAN,
           TakeWaits(t, m, timed)
    PROVE  IInv'
<1> USE MutexAssumption
<1>1. wants[t] = None /\ stat[t] # "suspend" /\ owner[m] # t /\ owner[m] # None
  BY DEF IInv, TypeOK, TakeWaits, Usable, ListsConsistent, Free, FreeMeansNoWaiter
<1>2. t \notin Members(list[m])
  BY <1>1 DEF IInv, ListsConsistent
<1>3. prio' \in [Threads -> Nat]
  BY PriorityType DEF IInv, TakeWaits
<1>4. /\ list'[m] \in Seq(Threads) /\ Distinct(list'[m])
      /\ Members(list'[m]) = Members(list[m]) \cup {t}
  <2>1. list[m] \in Seq(Threads) /\ Distinct(list[m])
    BY Zenon DEF IInv, TypeOK, ListsConsistent
  <2>2. PICK p \in [Threads -> Nat] : p = prio'
    BY <1>3, Zenon
  <2>3. list'[m] = ListSuspend(list[m], t, p)
    BY <2>2 DEF IInv, TypeOK, TakeWaits
  <2> QED BY <1>2, <2>1, <2>3, ListSuspendProperties, Zenon
<1>5. \A n \in Mutexes : n # m => list'[n] = list[n]
  BY DEF IInv, TypeOK, TakeWaits
<1>0. /\ stat'[t] = "suspend" /\ wants'[t] = m /\ error'[t] = "EOK"
      /\ \A u \in Threads : u # t => /\ stat'[u] = stat[u] /\ wants'[u] = wants[u]
                                     /\ error'[u] = error[u] /\ timer'[u] = timer[u]
      /\ owner' = owner /\ hold' = hold /\ depth' = depth
  BY DEF IInv, TypeOK, ThreadTypeOK, TakeWaits, Suspend, mutexVars
<1>6. TypeOK'
  <2>1. ThreadTypeOK'
    BY DEF IInv, TypeOK, ThreadTypeOK, TakeWaits, Suspend, Errors
  <2>2. list' \in [Mutexes -> Seq(Threads)]
    BY <1>4, <1>5 DEF IInv, TypeOK, TakeWaits
  <2> QED BY <1>3, <2>1, <2>2, Zenon DEF IInv, TypeOK, TakeWaits, mutexVars
<1>7. ListsConsistent'
  <2>1. \A n \in Mutexes : Distinct(list'[n])
    BY <1>4, <1>5 DEF IInv, ListsConsistent
  <2>2. ASSUME NEW n \in Mutexes
        PROVE  Members(list'[n]) = {u \in Threads : stat'[u] = "suspend" /\ wants'[u] = n}
    <3>2. Members(list[n]) = {u \in Threads : stat[u] = "suspend" /\ wants[u] = n}
      BY DEF IInv, ListsConsistent
    <3>3. CASE n = m
      BY <1>0, <1>4, <3>2, <3>3, Zenon
    <3>4. CASE n # m
      BY <1>0, <1>1, <1>5, <3>2, <3>4
    <3> QED BY <3>3, <3>4
  <2>3. \A u \in Threads :
           /\ stat'[u] = "suspend" => wants'[u] # None /\ error'[u] = "EOK" /\ owner'[wants'[u]] # u
           /\ timer'[u] => stat'[u] = "suspend"
    BY <1>0, <1>1 DEF IInv, ListsConsistent
  <2> QED BY <2>1, <2>2, <2>3 DEF ListsConsistent
<1>8. HoldCounts'
  <2>1. \A u \in Threads, n \in Mutexes : Granted(u, n)' <=> Granted(u, n)
    BY <1>0, <1>1 DEF Granted
  <2> QED BY <1>0, <2>1 DEF IInv, HoldCounts
<1>9. FreeMeansNoWaiter'
  BY <1>1, <1>5 DEF IInv, FreeMeansNoWaiter, TakeWaits, mutexVars
<1>10. WaiterOutside'
  <2>1. depth[t][m] = 0
    BY <1>1 DEF IInv, HoldCounts
  <2> QED BY <1>0, <2>1 DEF IInv, WaiterOutside
<1> QED BY <1>6, <1>7, <1>8, <1>9, <1>10 DEF IInv

\* Taking one suspended thread out of the list it waits in and making it ready,
\* as a release, a timeout and a deletion do, keeps the lists consistent.
LEMMA WakeKeepsLists ==
    ASSUME IInv, NEW m \in Mutexes, NEW h \in Members(list[m]), NEW l \in Seq(Threads),
           Distinct(l), Members(l) = Members(list[m]) \ {h},
           list' = [list EXCEPT ![m] = l], wants' = wants,
           stat'[h] = "ready", timer'[h] = FALSE,
           \A u \in Threads : u # h => /\ stat'[u] = stat[u] /\ timer'[u] = timer[u]
                                       /\ error'[u] = error[u],
           \A n \in Mutexes : owner'[n] = owner[n] \/ owner'[n] = h \/ owner'[n] = None
    PROVE  ListsConsistent' /\ list' \in [Mutexes -> Seq(Threads)]
<1> USE MutexAssumption
<1>1. h \in Threads /\ wants[h] = m
  BY DEF IInv, ListsConsistent
<1>2. list'[m] = l /\ \A n \in Mutexes : n # m => list'[n] = list[n]
  BY DEF IInv, TypeOK
<1>3. \A n \in Mutexes : Distinct(list'[n])
  BY <1>2 DEF IInv, ListsConsistent
<1>4. ASSUME NEW n \in Mutexes
      PROVE  Members(list'[n]) = {u \in Threads : stat'[u] = "suspend" /\ wants'[u] = n}
  <2>1. Members(list[n]) = {u \in Threads : stat[u] = "suspend" /\ wants[u] = n}
    BY DEF IInv, ListsConsistent
  <2>2. CASE n = m
    <3>1. Members(list'[n]) = Members(list[n]) \ {h}
      BY <1>2, <2>2
    <3>2. \A u \in Threads : stat'[u] = "suspend" /\ wants'[u] = n
                               <=> u # h /\ stat[u] = "suspend" /\ wants[u] = n
      BY <1>1
    <3> QED BY <2>1, <3>1, <3>2
  <2>3. CASE n # m
    <3>1. \A u \in Threads : stat'[u] = "suspend" /\ wants'[u] = n <=> stat[u] = "suspend" /\ wants[u] = n
      BY <1>1, <2>3
    <3> QED BY <1>2, <2>1, <2>3, <3>1, Zenon
  <2> QED BY <2>2, <2>3
<1>5. ASSUME NEW u \in Threads
      PROVE  /\ stat'[u] = "suspend" => wants'[u] # None /\ error'[u] = "EOK" /\ owner'[wants'[u]] # u
             /\ timer'[u] => stat'[u] = "suspend"
  <2>1. CASE u = h
    BY <2>1
  <2>2. CASE u # h
    <3>1. wants[u] \in Mutexes \cup {None} /\ u # None
      BY Zenon DEF IInv, TypeOK
    <3>2. /\ stat[u] = "suspend" => wants[u] # None /\ error[u] = "EOK" /\ owner[wants[u]] # u
          /\ timer[u] => stat[u] = "suspend"
      BY Zenon DEF IInv, ListsConsistent
    <3> QED BY <2>2, <3>1, <3>2, Zenon
  <2> QED BY <2>1, <2>2
<1>6. list' \in [Mutexes -> Seq(Threads)]
  BY DEF IInv, TypeOK
<1> QED BY <1>3, <1>4, <1>5, <1>6 DEF ListsConsistent

\* A thread timer that fires keeps the invariant.
LEMMA TimeoutStep ==
    ASSUME IInv, NEW t \in Threads, Timeout(t)
    PROVE  IInv'
<1> USE MutexAssumption
<1> DEFINE m == wants[t]
<1>1. stat[t] = "suspend" /\ m \in Mutexes /\ t \in Members(list[m])
  BY DEF IInv, TypeOK, ListsConsistent, Timeout, ThreadTimeout
<1>2. /\ ListRemove(list[m], t) \in Seq(Threads) /\ Distinct(ListRemove(list[m], t))
      /\ Members(ListRemove(list[m], t)) = Members(list[m]) \ {t}
  BY <1>1, ListRemoveProperties DEF IInv, TypeOK, ListsConsistent
<1>3. ThreadTypeOK' /\ stat'[t] = "ready" /\ timer'[t] = FALSE /\ error'[t] = "ETIMEOUT"
      /\ \A u \in Threads : u # t => /\ stat'[u] = stat[u] /\ timer'[u] = timer[u]
                                     /\ error'[u] = error[u]
  BY DEF IInv, TypeOK, ThreadTypeOK, Timeout, ThreadTimeout, Errors
<1>4. ListsConsistent' /\ list' \in [Mutexes -> Seq(Threads)]
  BY <1>1, <1>2, <1>3, WakeKeepsLists, Zenon DEF Timeout, mutexVars
<1>5. TypeOK'
  BY <1>3, <1>4 DEF IInv, TypeOK, Timeout, mutexVars
<1>6. \A u \in Threads, n \in Mutexes : Granted(u, n)' <=> Granted(u, n)
  BY <1>1, <1>3 DEF Granted, Timeout
<1>7. HoldCounts'
  BY <1>6 DEF IInv, HoldCounts, Timeout, mutexVars
<1>8. FreeMeansNoWaiter'
  <2>1. owner[m] # None
    BY <1>1, EmptyListProperties DEF IInv, FreeMeansNoWaiter
  <2> QED BY <1>1, <2>1 DEF IInv, TypeOK, FreeMeansNoWaiter, Timeout, mutexVars
<1>9. WaiterOutside'
  BY DEF IInv, WaiterOutside, Timeout
<1> QED BY <1>4, <1>5, <1>7, <1>8, <1>9 DEF IInv

\* The steps that leave every list and every thread's state alone and only count
\* the takes of one thread: takes of a free or an own mutex, nested releases.
LEMMA CountStep ==
    ASSUME IInv, NEW t \in Threads, NEW m \in Mutexes,
           TakeNested(t, m) \/ TakeFree(t, m) \/ ReleaseNested(t, m)
    PROVE  IInv'
<1> USE MutexAssumption
<1>1. /\ wants[t] = None /\ stat[t] # "suspend" /\ ~ Granted(t, m)
      /\ hold[m] \in 0..HoldMax /\ depth[t][m] \in 0..MaxDepth
  BY DEF IInv, TypeOK, ListsConsistent, Granted, Usable, TakeNested, TakeFree, ReleaseNested
<1>2. UNCHANGED <<stat, error, timer, list, prio, wants, del>>
  BY DEF TakeNested, TakeFree, ReleaseNested, threadVars
<1>3. \A u \in Threads, n \in Mutexes : Granted(u, n)' <=> Granted(u, n)
  BY <1>2 DEF Granted
<1>4. CASE TakeNested(t, m)
  <2>1. hold[m] = depth[t][m] /\ IncHold(m) = hold[m] + 1 /\ IncHold(m) \in 0..HoldMax
    BY <1>1, <1>4, HoldArithmetic DEF IInv, HoldCounts, TakeNested
  <2>depth. DepthSet(t, m, depth[t][m] + 1)
    <3>1. depth[t][m] + 1 \in 0..MaxDepth
      BY <1>1, <1>4 DEF TakeNested
    <3>2. SetsDepth(t, m, depth[t][m] + 1) /\ TypeOK
      BY <1>4, Zenon DEF IInv, TakeNested, SetsDepth
    <3> QED BY <3>1, <3>2, DepthUpdate, Zenon
  <2>2. TypeOK'
    <3>2. depth' \in [Threads -> [Mutexes -> 0..MaxDepth]]
      BY <2>depth, Zenon DEF DepthSet
    <3>3. hold' \in [Mutexes -> 0..HoldMax]
      BY <1>4, <2>1 DEF IInv, TypeOK, TakeNested
    <3>4. ThreadTypeOK'
      BY <1>2 DEF IInv, TypeOK, ThreadTypeOK
    <3> QED BY <1>2, <1>4, <3>2, <3>3, <3>4, Zenon DEF IInv, TypeOK, TakeNested
  <2>3. HoldCounts'
    <3>1. \A u \in Threads, n \in Mutexes : depth'[u][n] = IF u = t /\ n = m THEN depth[t][m] + 1 ELSE depth[u][n]
      BY <2>depth, Zenon DEF DepthSet
    <3>2. \A n \in Mutexes : owner'[n] = owner[n] /\ hold'[n] = IF n = m THEN hold[m] + 1 ELSE hold[n]
      BY <1>4, <2>1 DEF IInv, TypeOK, TakeNested
    <3> SUFFICES ASSUME NEW u \in Threads, NEW n \in Mutexes
                 PROVE  IF owner'[n] = u
                        THEN hold'[n] = depth'[u][n] + (IF Granted(u, n)' THEN 1 ELSE 0) /\ hold'[n] > 0
                        ELSE depth'[u][n] = 0 /\ ~ Granted(u, n)'
      BY DEF HoldCounts
    <3>3. IF owner[n] = u
          THEN hold[n] = depth[u][n] + (IF Granted(u, n) THEN 1 ELSE 0) /\ hold[n] > 0
          ELSE depth[u][n] = 0 /\ ~ Granted(u, n)
      BY DEF IInv, HoldCounts
    <3>4. CASE n = m
      <4>1. depth[t][m] \in Nat /\ owner[m] = t
        BY <1>1, <1>4 DEF TakeNested
      <4>2. CASE u = t
        <5>1. owner'[n] = u /\ ~ Granted(u, n)' /\ hold'[n] = depth[t][m] + 1 /\ depth'[u][n] = depth[t][m] + 1
          BY <1>1, <1>3, <2>1, <3>1, <3>2, <3>4, <4>1, <4>2, Zenon
        <5> QED BY <4>1, <5>1
      <4>3. CASE u # t
        BY <1>3, <3>1, <3>2, <3>3, <3>4, <4>1, <4>3, Zenon
      <4> QED BY <4>2, <4>3
    <3>5. CASE n # m
      BY <1>3, <3>1, <3>2, <3>3, <3>5, Zenon
    <3> QED BY <3>4, <3>5
  <2>4. ListsConsistent'
    BY <1>2, <1>4 DEF IInv, ListsConsistent, TakeNested
  <2>5. FreeMeansNoWaiter'
    BY <1>2, <1>4 DEF IInv, TypeOK, FreeMeansNoWaiter, TakeNested
  <2>6. WaiterOutside'
    BY <1>1, <1>2, <1>4 DEF IInv, TypeOK, WaiterOutside, TakeNested
  <2> QED BY <2>2, <2>3, <2>4, <2>5, <2>6 DEF IInv
<1>5. CASE TakeFree(t, m)
  <2>1. owner[m] = None /\ value[m] = 1 /\ hold[m] = 0 /\ depth[t][m] = 0 /\ list[m] = <<>>
    BY <1>5 DEF IInv, TypeOK, FreeMeansNoWaiter, HoldCounts, TakeFree, Free
  <2>2. IncHold(m) = 1 /\ HoldMax >= 1
    BY <1>1, <2>1, HoldArithmetic
  <2>depth. DepthSet(t, m, 1)
    <3>1. 1 \in 0..MaxDepth
      BY MutexAssumption
    <3>2. depth[t][m] + 1 = 1
      BY <2>1
    <3>3. SetsDepth(t, m, 1) /\ TypeOK
      BY <1>5, <3>2, Zenon DEF IInv, TakeFree, SetsDepth
    <3> QED BY <3>1, <3>3, DepthUpdate, Zenon
  <2>3. TypeOK'
    <3>1. value' \in [Mutexes -> {0, 1}]
      BY <1>5, <2>1 DEF IInv, TypeOK, TakeFree
    <3>2. owner' \in [Mutexes -> Threads \cup {None}] /\ orig' \in [Mutexes -> Nat]
      BY <1>5 DEF IInv, TypeOK, TakeFree
    <3>3. hold' \in [Mutexes -> 0..HoldMax]
      BY <1>5, <2>2 DEF IInv, TypeOK, TakeFree
    <3>4. depth' \in [Threads -> [Mutexes -> 0..MaxDepth]]
      BY <2>depth, Zenon DEF DepthSet
    <3>5. ThreadTypeOK'
      BY <1>2 DEF IInv, TypeOK, ThreadTypeOK
    <3> QED BY <1>2, <3>1, <3>2, <3>3, <3>4, <3>5, Zenon DEF IInv, TypeOK
  <2>4. HoldCounts'
    <3>1. \A u \in Threads, n \in Mutexes : depth'[u][n] = IF u = t /\ n = m THEN 1 ELSE depth[u][n]
      BY <2>depth, Zenon DEF DepthSet
    <3>2. \A n \in Mutexes : n # m => owner'[n] = owner[n] /\ hold'[n] = hold[n]
      BY <1>5, Zenon DEF IInv, TypeOK, TakeFree
    <3>3. owner'[m] = t /\ hold'[m] = 1
      BY <1>5, <2>2, Zenon DEF IInv, TypeOK, TakeFree
    <3> SUFFICES ASSUME NEW u \in Threads, NEW n \in Mutexes
                 PROVE  IF owner'[n] = u
                        THEN hold'[n] = depth'[u][n] + (IF Granted(u, n)' THEN 1 ELSE 0) /\ hold'[n] > 0
                        ELSE depth'[u][n] = 0 /\ ~ Granted(u, n)'
      BY DEF HoldCounts
    <3>4. IF owner[n] = u
          THEN hold[n] = depth[u][n] + (IF Granted(u, n) THEN 1 ELSE 0) /\ hold[n] > 0
          ELSE depth[u][n] = 0 /\ ~ Granted(u, n)
      BY DEF IInv, HoldCounts
    <3>5. CASE n = m
      <4>1. CASE u = t
        <5>1. owner'[n] = u /\ ~ Granted(u, n)' /\ hold'[n] = 1 /\ depth'[u][n] = 1
          BY <1>1, <1>3, <3>1, <3>3, <3>5, <4>1, Zenon
        <5> QED BY <5>1
      <4>2. CASE u # t
        <5>1. owner[n] # u
          BY <2>1, <3>5, MutexAssumption, Zenon
        <5> QED BY <1>3, <3>1, <3>3, <3>4, <3>5, <4>2, <5>1, Zenon
      <4> QED BY <4>1, <4>2
    <3>6. CASE n # m
      BY <1>3, <3>1, <3>2, <3>4, <3>6, Zenon
    <3> QED BY <3>5, <3>6
  <2>5. ListsConsistent'
    <3>1. \A n \in Mutexes : owner'[n] = IF n = m THEN t ELSE owner[n]
      BY <1>5 DEF IInv, TypeOK, TakeFree
    <3>2. \A u \in Threads : stat[u] = "suspend" => wants[u] \in Mutexes /\ u # t
      BY <1>1 DEF IInv, TypeOK, ListsConsistent
    <3>3. \A u \in Threads : stat[u] = "suspend" => owner'[wants[u]] # u
      BY <3>1, <3>2 DEF IInv, ListsConsistent
    <3> QED BY <1>2, <3>3, Zenon DEF IInv, ListsConsistent
  <2>6. FreeMeansNoWaiter'
    BY <1>2, <1>5, <2>1 DEF IInv, TypeOK, FreeMeansNoWaiter, TakeFree
  <2>7. WaiterOutside'
    BY <1>1, <1>2, <1>5 DEF IInv, TypeOK, WaiterOutside, TakeFree
  <2> QED BY <2>3, <2>4, <2>5, <2>6, <2>7 DEF IInv
<1>6. CASE ReleaseNested(t, m)
  <2>1. hold[m] = depth[t][m] /\ DecHold(m) = hold[m] - 1 /\ DecHold(m) > 0
    BY <1>1, <1>6, HoldArithmetic DEF IInv, HoldCounts, ReleaseNested
  <2>depth. DepthSet(t, m, depth[t][m] - 1)
    <3>1. depth[t][m] - 1 \in 0..MaxDepth
      BY <1>1, <2>1
    <3>2. SetsDepth(t, m, depth[t][m] - 1) /\ TypeOK
      BY <1>6, Zenon DEF IInv, ReleaseNested, SetsDepth
    <3> QED BY <3>1, <3>2, DepthUpdate, Zenon
  <2>2. TypeOK'
    <3>2. depth' \in [Threads -> [Mutexes -> 0..MaxDepth]]
      BY <2>depth, Zenon DEF DepthSet
    <3>3. hold' \in [Mutexes -> 0..HoldMax]
      BY <1>1, <1>6, <2>1 DEF IInv, TypeOK, ReleaseNested
    <3>4. ThreadTypeOK'
      BY <1>2 DEF IInv, TypeOK, ThreadTypeOK
    <3> QED BY <1>2, <1>6, <3>2, <3>3, <3>4, Zenon DEF IInv, TypeOK, ReleaseNested
  <2>3. HoldCounts'
    <3>1. \A u \in Threads, n \in Mutexes : depth'[u][n] = IF u = t /\ n = m THEN depth[t][m] - 1 ELSE depth[u][n]
      BY <2>depth, Zenon DEF DepthSet
    <3>2. \A n \in Mutexes : owner'[n] = owner[n] /\ hold'[n] = IF n = m THEN hold[m] - 1 ELSE hold[n]
      BY <1>6, <2>1 DEF IInv, TypeOK, ReleaseNested
    <3> SUFFICES ASSUME NEW u \in Threads, NEW n \in Mutexes
                 PROVE  IF owner'[n] = u
                        THEN hold'[n] = depth'[u][n] + (IF Granted(u, n)' THEN 1 ELSE 0) /\ hold'[n] > 0
                        ELSE depth'[u][n] = 0 /\ ~ Granted(u, n)'
      BY DEF HoldCounts
    <3>3. IF owner[n] = u
          THEN hold[n] = depth[u][n] + (IF Granted(u, n) THEN 1 ELSE 0) /\ hold[n] > 0
          ELSE depth[u][n] = 0 /\ ~ Granted(u, n)
      BY DEF IInv, HoldCounts
    <3>4. CASE n = m
      <4>1. depth[t][m] - 1 \in Nat /\ depth[t][m] - 1 > 0 /\ owner[m] = t
        BY <1>1, <1>6, <2>1 DEF ReleaseNested
      <4>2. CASE u = t
        <5>1. owner'[n] = u /\ ~ Granted(u, n)' /\ hold'[n] = depth[t][m] - 1 /\ depth'[u][n] = depth[t][m] - 1
          BY <1>1, <1>3, <2>1, <3>1, <3>2, <3>4, <4>1, <4>2, Zenon
        <5> QED BY <4>1, <5>1
      <4>3. CASE u # t
        BY <1>3, <3>1, <3>2, <3>3, <3>4, <4>1, <4>3, Zenon
      <4> QED BY <4>2, <4>3
    <3>5. CASE n # m
      BY <1>3, <3>1, <3>2, <3>3, <3>5, Zenon
    <3> QED BY <3>4, <3>5
  <2>4. ListsConsistent'
    BY <1>2, <1>6 DEF IInv, ListsConsistent, ReleaseNested
  <2>5. FreeMeansNoWaiter'
    BY <1>2, <1>6 DEF IInv, TypeOK, FreeMeansNoWaiter, ReleaseNested
  <2>6. WaiterOutside'
    BY <1>1, <1>2, <1>6 DEF IInv, TypeOK, WaiterOutside, ReleaseNested
  <2> QED BY <2>2, <2>3, <2>4, <2>5, <2>6 DEF IInv
<1> QED BY <1>4, <1>5, <1>6

\* The last release of a mutex nobody waits for makes it free.
LEMMA ReleaseFreeStep ==
    ASSUME IInv, NEW t \in Threads, NEW m \in Mutexes, ReleaseLast(t, m), list[m] = <<>>
    PROVE  IInv'
<1> USE MutexAssumption
<1>1. /\ wants[t] = None /\ ~ Granted(t, m) /\ owner[m] = t /\ t # None
      /\ hold[m] \in 0..HoldMax /\ depth[t][m] \in 0..MaxDepth
  <2>1. wants[t] = None /\ owner[m] = t /\ t # None
    BY Zenon DEF Usable, ReleaseLast
  <2>2. hold[m] \in 0..HoldMax /\ depth[t][m] \in 0..MaxDepth
    BY DEF IInv, TypeOK
  <2>3. ~ Granted(t, m)
    BY <2>1 DEF Granted
  <2> QED BY <2>1, <2>2, <2>3
<1>2. hold[m] = depth[t][m] /\ DecHold(m) = hold[m] - 1 /\ hold[m] = 1
  BY <1>1, HoldArithmetic DEF IInv, HoldCounts, ReleaseLast
<1>3. value[m] = 0
  BY <1>1 DEF IInv, TypeOK, FreeMeansNoWaiter
<1>4. /\ UNCHANGED <<stat, error, timer, list, wants, del>>
      /\ value' = [value EXCEPT ![m] = @ + 1] /\ owner' = [owner EXCEPT ![m] = None]
      /\ orig' = [orig EXCEPT ![m] = NoPriority] /\ hold' = [hold EXCEPT ![m] = 0]
      /\ depth' = [depth EXCEPT ![t][m] = @ - 1]
  BY DEF ReleaseLast, threadVars
<1>5. prio' \in [Threads -> Nat]
  BY PriorityType DEF IInv, ReleaseLast
<1>6. TypeOK'
  <2>1. value' \in [Mutexes -> {0, 1}]
    BY <1>3, <1>4 DEF IInv, TypeOK
  <2>2. owner' \in [Mutexes -> Threads \cup {None}] /\ orig' \in [Mutexes -> Nat]
    BY <1>4 DEF IInv, TypeOK, NoPriority
  <2>3. hold' \in [Mutexes -> 0..HoldMax]
    BY <1>4 DEF IInv, TypeOK
  <2>4. depth' \in [Threads -> [Mutexes -> 0..MaxDepth]]
    <3>1. depth[t][m] - 1 \in 0..MaxDepth
      BY <1>1, <1>2
    <3>2. SetsDepth(t, m, depth[t][m] - 1) /\ TypeOK
      BY <1>4, Zenon DEF IInv, SetsDepth
    <3>3. DepthSet(t, m, depth[t][m] - 1)
      BY <3>1, <3>2, DepthUpdate, Zenon
    <3> QED BY <3>3, Zenon DEF DepthSet
  <2> QED BY <1>4, <1>5, <2>1, <2>2, <2>3, <2>4, Zenon DEF IInv, TypeOK, ThreadTypeOK
<1>7. \A u \in Threads, n \in Mutexes : Granted(u, n)' <=> Granted(u, n)
  BY <1>4 DEF Granted
<1>8. HoldCounts'
  BY <1>1, <1>2, <1>4, <1>7 DEF IInv, TypeOK, HoldCounts
<1>9. ListsConsistent'
  BY <1>4 DEF IInv, TypeOK, ListsConsistent
<1>10. FreeMeansNoWaiter'
  BY <1>3, <1>4 DEF IInv, TypeOK, FreeMeansNoWaiter
<1>11. WaiterOutside'
  BY <1>1, <1>4 DEF IInv, TypeOK, WaiterOutside
<1> QED BY <1>6, <1>8, <1>9, <1>10, <1>11 DEF IInv

\* The last release of a mutex with waiters hands it to the first of them.
LEMMA HandOverStep ==
    ASSUME IInv, NEW t \in Threads, NEW m \in Mutexes, ReleaseLast(t, m), list[m] # <<>>
    PROVE  IInv'
<1> USE MutexAssumption
<1> DEFINE h == Head(list[m])
<1>1. /\ wants[t] = None /\ ~ Granted(t, m) /\ owner[m] = t /\ t # None
      /\ hold[m] \in 0..HoldMax /\ depth[t][m] \in 0..MaxDepth
  <2>1. wants[t] = None /\ owner[m] = t /\ t # None
    BY Zenon DEF Usable, ReleaseLast
  <2>2. hold[m] \in 0..HoldMax /\ depth[t][m] \in 0..MaxDepth
    BY DEF IInv, TypeOK
  <2>3. ~ Granted(t, m)
    BY <2>1 DEF Granted
  <2> QED BY <2>1, <2>2, <2>3
<1>2. hold[m] = depth[t][m] /\ DecHold(m) = hold[m] - 1 /\ hold[m] = 1
  BY <1>1, HoldArithmetic DEF IInv, HoldCounts, ReleaseLast
<1>3. /\ h \in Members(list[m]) /\ h \in Threads /\ Tail(list[m]) \in Seq(Threads)
      /\ Distinct(Tail(list[m])) /\ Members(Tail(list[m])) = Members(list[m]) \ {h}
  BY ListTailProperties DEF IInv, TypeOK, ListsConsistent
<1>4. stat[h] = "suspend" /\ wants[h] = m /\ error[h] = "EOK" /\ h # t /\ depth[h][m] = 0
  BY <1>1, <1>3 DEF IInv, ListsConsistent, WaiterOutside
<1>5. /\ UNCHANGED <<wants, del, value>> /\ Resume(h)
      /\ owner' = [owner EXCEPT ![m] = h] /\ orig' = [orig EXCEPT ![m] = prio'[h]]
      /\ hold' = [hold EXCEPT ![m] = 1] /\ list' = [list EXCEPT ![m] = Tail(list[m])]
      /\ depth' = [depth EXCEPT ![t][m] = @ - 1]
  BY DEF ReleaseLast
<1>6. /\ ThreadTypeOK' /\ stat'[h] = "ready" /\ timer'[h] = FALSE /\ error' = error
      /\ \A u \in Threads : u # h => stat'[u] = stat[u] /\ timer'[u] = timer[u]
  BY <1>3, <1>5, Zenon DEF IInv, TypeOK, ThreadTypeOK, Resume
<1>7. \A n \in Mutexes : owner'[n] = IF n = m THEN h ELSE owner[n]
  BY <1>5 DEF IInv, TypeOK
<1> HIDE DEF h
<1>8. ListsConsistent' /\ list' \in [Mutexes -> Seq(Threads)]
  <2>1. \A u \in Threads : u # h => /\ stat'[u] = stat[u] /\ timer'[u] = timer[u]
                                    /\ error'[u] = error[u]
    BY <1>6, Zenon
  <2>2. \A n \in Mutexes : owner'[n] = owner[n] \/ owner'[n] = h \/ owner'[n] = None
    BY <1>7
  <2>3. list' = [list EXCEPT ![m] = Tail(list[m])] /\ wants' = wants
    BY <1>5
  <2>4. stat'[h] = "ready" /\ timer'[h] = FALSE
    BY <1>6, Zenon
  <2> HIDE DEF IInv
  <2> QED BY <1>3, <2>1, <2>2, <2>3, <2>4, WakeKeepsLists, Zenon
<1>9. prio' \in [Threads -> Nat]
  BY PriorityType DEF IInv, ReleaseLast
<1>10. /\ depth' \in [Threads -> [Mutexes -> 0..MaxDepth]]
       /\ \A u \in Threads, n \in Mutexes :
            depth'[u][n] = IF u = t /\ n = m THEN 0 ELSE depth[u][n]
  <2>1. depth[t][m] - 1 = 0 /\ 0 \in 0..MaxDepth
    BY <1>2
  <2>2. SetsDepth(t, m, 0) /\ TypeOK
    BY <1>5, <2>1, Zenon DEF IInv, SetsDepth
  <2>3. DepthSet(t, m, 0)
    BY <2>1, <2>2, DepthUpdate, Zenon
  <2> QED BY <2>3, Zenon DEF DepthSet
<1>11. TypeOK'
  <2>1. owner' \in [Mutexes -> Threads \cup {None}] /\ orig' \in [Mutexes -> Nat]
    BY <1>3, <1>5, <1>9, Zenon DEF IInv, TypeOK
  <2>2. hold' \in [Mutexes -> 0..HoldMax]
    BY <1>5 DEF IInv, TypeOK
  <2>3. depth' \in [Threads -> [Mutexes -> 0..MaxDepth]]
    BY <1>10
  <2> QED BY <1>5, <1>6, <1>8, <1>9, <2>1, <2>2, <2>3, Zenon DEF IInv, TypeOK
<1>12. HoldCounts'
  <2> SUFFICES ASSUME NEW u \in Threads, NEW n \in Mutexes
               PROVE  IF owner'[n] = u
                      THEN hold'[n] = depth'[u][n] + (IF Granted(u, n)' THEN 1 ELSE 0) /\ hold'[n] > 0
                      ELSE depth'[u][n] = 0 /\ ~ Granted(u, n)'
    BY DEF HoldCounts
  <2>1. depth'[u][n] = IF u = t /\ n = m THEN 0 ELSE depth[u][n]
    BY <1>10
  <2>2. hold'[n] = IF n = m THEN 1 ELSE hold[n]
    BY <1>5 DEF IInv, TypeOK
  <2>3. Granted(u, n)' <=> Granted(u, n) \/ (u = h /\ n = m)
    BY <1>4, <1>5, <1>6 DEF Granted
  <2>4. ~ Granted(h, m)
    BY <1>4 DEF Granted
  <2>5. IF owner[n] = u
        THEN hold[n] = depth[u][n] + (IF Granted(u, n) THEN 1 ELSE 0) /\ hold[n] > 0
        ELSE depth[u][n] = 0 /\ ~ Granted(u, n)
    BY DEF IInv, HoldCounts
  <2>6. CASE n = m
    <3>1. owner'[n] = h /\ hold'[n] = 1 /\ owner[n] = t
      BY <1>1, <1>7, <2>2, <2>6, Zenon
    <3>2. CASE u = h
      BY <1>1, <1>4, <2>1, <2>3, <2>5, <2>6, <3>1, <3>2
    <3>3. CASE u # h
      BY <1>1, <1>4, <2>1, <2>3, <2>5, <2>6, <3>1, <3>3
    <3> QED BY <3>2, <3>3
  <2>7. CASE n # m
    BY <1>7, <2>1, <2>2, <2>3, <2>5, <2>7
  <2> QED BY <2>6, <2>7
<1>13. FreeMeansNoWaiter'
  BY <1>1, <1>3, <1>5, <1>7, Zenon DEF IInv, TypeOK, FreeMeansNoWaiter
<1>14. WaiterOutside'
  BY <1>1, <1>2, <1>5 DEF IInv, TypeOK, WaiterOutside
<1> QED BY <1>8, <1>11, <1>12, <1>13, <1>14 DEF IInv

\* A thread that runs again and returns from rt_mutex_take keeps the invariant:
\* when it was granted the mutex it is now inside, once.
LEMMA ReturnStep ==
    ASSUME IInv, NEW t \in Threads, Return(t)
    PROVE  IInv'
<1> USE MutexAssumption
<1> DEFINE m == wants[t]
<1>1. m \in Mutexes /\ stat[t] = "ready" /\ depth[t][m] = 0 /\ MaxDepth >= 1
  BY DEF IInv, TypeOK, Return, Leave, WaiterOutside
<1>2. /\ UNCHANGED <<stat, timer, value, owner, hold, orig, list, prio, del>>
      /\ error' = [error EXCEPT ![t] = "EOK"] /\ wants' = [wants EXCEPT ![t] = None]
  BY DEF Return, Leave, mutexVars
<1>3. wants'[t] = None /\ \A u \in Threads : u # t => wants'[u] = wants[u] /\ error'[u] = error[u]
  BY <1>2 DEF IInv, TypeOK, ThreadTypeOK
<1>4. /\ depth' \in [Threads -> [Mutexes -> 0..MaxDepth]]
      /\ \A u \in Threads, n \in Mutexes :
           depth'[u][n] = IF u = t /\ n = m /\ error[t] = "EOK" THEN 1 ELSE depth[u][n]
  <2>1. CASE error[t] = "EOK"
    <3>1. 1 \in 0..MaxDepth /\ depth' = [depth EXCEPT ![t][m] = 1]
      BY <1>1, <2>1 DEF Return
    <3>2. /\ depth' \in [Threads -> [Mutexes -> 0..MaxDepth]]
          /\ \A u \in Threads, n \in Mutexes :
               depth'[u][n] = IF u = t /\ n = m THEN 1 ELSE depth[u][n]
      <4>1. PICK k \in Mutexes, e \in 0..MaxDepth : k = m /\ e = 1
        BY <1>1, <3>1
      <4>2. SetsDepth(t, k, e) /\ TypeOK
        BY <3>1, <4>1 DEF IInv, SetsDepth
      <4>3. /\ depth' \in [Threads -> [Mutexes -> 0..MaxDepth]]
            /\ \A u \in Threads, n \in Mutexes :
                 depth'[u][n] = IF u = t /\ n = k THEN e ELSE depth[u][n]
        <5>1. DepthSet(t, k, e)
          BY <4>2, DepthUpdate, Zenon
        <5> QED BY <5>1, Zenon DEF DepthSet
      <4> QED BY <4>1, <4>3
    <3> QED BY <2>1, <3>2
  <2>2. CASE error[t] # "EOK"
    BY <2>2 DEF IInv, TypeOK, Return
  <2> QED BY <2>1, <2>2
<1>5. TypeOK'
  <2>1. ThreadTypeOK'
    BY <1>2 DEF IInv, TypeOK, ThreadTypeOK, Errors
  <2> QED BY <1>2, <1>4, <2>1, Zenon DEF IInv, TypeOK
<1>6. ListsConsistent'
  <2> HIDE DEF m
  <2>1. \A u \in Threads : stat[u] = "suspend" => u # t /\ wants'[u] = wants[u] /\ error'[u] = error[u]
    BY <1>1, <1>3, Zenon
  <2>2. \A u \in Threads, n \in Mutexes : stat[u] = "suspend" => (wants'[u] = n <=> wants[u] = n)
    BY <2>1, Zenon
  <2>3. \A n \in Mutexes : {u \in Threads : stat[u] = "suspend" /\ wants'[u] = n}
                              = {u \in Threads : stat[u] = "suspend" /\ wants[u] = n}
    BY <2>2, Zenon
  <2>4. \A u \in Threads : stat[u] = "suspend"
                             => wants'[u] # None /\ error'[u] = "EOK" /\ owner[wants'[u]] # u
    BY <2>1, Zenon DEF IInv, ListsConsistent
  <2>5. UNCHANGED <<stat, timer, list, owner>>
    BY <1>2
  <2>6. \A n \in Mutexes : Members(list[n]) = {u \in Threads : stat[u] = "suspend" /\ wants'[u] = n}
    BY <2>3, Zenon DEF IInv, ListsConsistent
  <2>7. /\ \A n \in Mutexes : Distinct(list[n])
        /\ \A u \in Threads : timer[u] => stat[u] = "suspend"
    BY DEF IInv, ListsConsistent
  <2> QED BY <2>4, <2>5, <2>6, <2>7, Zenon DEF ListsConsistent
<1>7. HoldCounts'
  <2> SUFFICES ASSUME NEW u \in Threads, NEW n \in Mutexes
               PROVE  IF owner'[n] = u
                      THEN hold'[n] = depth'[u][n] + (IF Granted(u, n)' THEN 1 ELSE 0) /\ hold'[n] > 0
                      ELSE depth'[u][n] = 0 /\ ~ Granted(u, n)'
    BY DEF HoldCounts
  <2>1. Granted(u, n)' <=> u # t /\ Granted(u, n)
    BY <1>2, <1>3 DEF Granted
  <2>2. Granted(t, n) <=> n = m /\ error[t] = "EOK"
    BY <1>1 DEF Granted
  <2>3. IF owner[n] = u
        THEN hold[n] = depth[u][n] + (IF Granted(u, n) THEN 1 ELSE 0) /\ hold[n] > 0
        ELSE depth[u][n] = 0 /\ ~ Granted(u, n)
    BY DEF IInv, HoldCounts
  <2> HIDE DEF m
  <2>4. CASE u = t
    BY <1>1, <1>2, <1>4, <2>1, <2>2, <2>3, <2>4
  <2>5. CASE u # t
    BY <1>2, <1>4, <2>1, <2>3, <2>5, Zenon
  <2> QED BY <2>4, <2>5, Zenon
<1>8. FreeMeansNoWaiter'
  BY <1>2 DEF IInv, FreeMeansNoWaiter
<1>9. WaiterOutside'
  <2> SUFFICES ASSUME NEW u \in Threads, NEW n \in Mutexes, wants'[u] = n PROVE depth'[u][n] = 0
    BY Zenon DEF WaiterOutside
  <2>1. u # t
    BY <1>3, MutexAssumption, Zenon
  <2>2. depth'[u][n] = depth[u][n] /\ wants[u] = n
    BY <1>3, <1>4, <2>1
  <2> QED BY <2>2 DEF IInv, WaiterOutside
<1> QED BY <1>5, <1>6, <1>7, <1>8, <1>9 DEF IInv

\* Refused calls and the steps of a deletion that wake nobody change nothing
\* that IInv is about.
LEMMA SameStep ==
    ASSUME IInv, UNCHANGED <<stat, error, timer, value, owner, hold, orig, list, prio, wants, depth>>,
           del' \in [Mutexes -> {"none", "check", "resume", "free", "gone", "fault"}]
    PROVE  IInv'
<1>1. TypeOK'
  BY DEF IInv, TypeOK, ThreadTypeOK
<1>2. ListsConsistent'
  BY Zenon DEF IInv, ListsConsistent
<1>3. HoldCounts'
  BY DEF IInv, HoldCounts, Granted
<1>4. FreeMeansNoWaiter'
  BY DEF IInv, FreeMeansNoWaiter
<1>5. WaiterOutside'
  BY Zenon DEF IInv, WaiterOutside
<1> QED BY <1>1, <1>2, <1>3, <1>4, <1>5 DEF IInv

\* A turn of the loop of rt_ipc_list_resume_all keeps the invariant.
LEMMA DeleteResumeStep ==
    ASSUME IInv, NEW m \in Mutexes, DeleteResume(m)
    PROVE  IInv'
<1> USE MutexAssumption
<1> DEFINE h == Head(list[m])
<1>1. CASE list[m] # <<>>
  <2>1. /\ h \in Members(list[m]) /\ h \in Threads /\ Tail(list[m]) \in Seq(Threads)
        /\ Distinct(Tail(list[m])) /\ Members(Tail(list[m])) = Members(list[m]) \ {h}
    BY <1>1, ListTailProperties DEF IInv, TypeOK, ListsConsistent
  <2>2. stat[h] = "suspend" /\ owner[m] # None
    <3>1. h \in {u \in Threads : stat[u] = "suspend" /\ wants[u] = m}
      BY <2>1, Zenon DEF IInv, ListsConsistent
    <3>2. owner[m] # None
      BY <1>1 DEF IInv, FreeMeansNoWaiter
    <3> QED BY <3>1, <3>2, Zenon
  <2>3. /\ UNCHANGED <<value, owner, hold, orig, prio, wants, depth>> /\ ResumeError({h})
        /\ list' = [list EXCEPT ![m] = Tail(list[m])] /\ del' = [del EXCEPT ![m] = "check"]
    BY <1>1 DEF DeleteResume, mutexVars
  <2> HIDE DEF h
  <2>4. ThreadTypeOK'
    BY <2>3, ResumeErrorType DEF IInv, TypeOK
  <2>5. /\ stat'[h] = "ready" /\ error'[h] = "ERROR" /\ timer'[h] = FALSE
        /\ \A u \in Threads : u # h => /\ stat'[u] = stat[u] /\ timer'[u] = timer[u]
                                       /\ error'[u] = error[u]
    BY <2>1, <2>3, Zenon DEF ResumeError
  <2>6. ListsConsistent' /\ list' \in [Mutexes -> Seq(Threads)]
    BY <2>1, <2>3, <2>5, WakeKeepsLists, Zenon
  <2>7. TypeOK'
    BY <2>3, <2>4, <2>6, Zenon DEF IInv, TypeOK
  <2>8. \A u \in Threads, n \in Mutexes : Granted(u, n)' <=> Granted(u, n)
    BY <2>2, <2>3, <2>5, Zenon DEF Granted
  <2>9. HoldCounts'
    BY <2>3, <2>8, Zenon DEF IInv, HoldCounts
  <2>10. FreeMeansNoWaiter' /\ WaiterOutside'
    BY <2>2, <2>3 DEF IInv, TypeOK, FreeMeansNoWaiter, WaiterOutside
  <2> QED BY <2>6, <2>7, <2>9, <2>10 DEF IInv
<1>2. CASE list[m] = <<>>
  BY <1>2, SameStep, Zenon DEF DeleteResume, threadVars, mutexVars, IInv, TypeOK
<1> QED BY <1>1, <1>2

\* Every step of the threads, of the tick and of a deletion keeps IInv.
LEMMA InductiveStep == IInv /\ [Next]_vars => IInv'
<1> SUFFICES ASSUME IInv, [Next]_vars PROVE IInv'
  OBVIOUS
<1>1. ASSUME NEW t \in Threads, NEW m \in Mutexes, Call(t, m) PROVE IInv'
  <2>1. ASSUME TryFails(t, m) \/ ReleaseRefused(t, m) PROVE IInv'
    BY <2>1, SameStep, Zenon DEF TryFails, ReleaseRefused, vars, IInv, TypeOK
  <2> QED BY <1>1, <2>1, CountStep, TakeWaitsStep, ReleaseFreeStep, HandOverStep, Zenon DEF Call
<1>2. ASSUME NEW m \in Mutexes, Delete(m) PROVE IInv'
  <2>1. ASSUME DeleteCheck(m) \/ DeleteFree(m) PROVE IInv'
    BY <2>1, SameStep, Zenon DEF DeleteCheck, DeleteFree, threadVars, mutexVars, IInv, TypeOK
  <2> QED BY <1>2, <2>1, DeleteResumeStep DEF Delete
<1>3. ASSUME UNCHANGED vars PROVE IInv'
  BY <1>3, SameStep DEF vars, IInv, TypeOK
<1> QED BY <1>1, <1>2, <1>3, ReturnStep, TimeoutStep DEF Next

\* rt_mutex_init leaves mutexes that satisfy IInv.
LEMMA InitInductive == Init => IInv
BY MutexAssumption, EmptyListProperties
DEF Init, ThreadInit, IInv, TypeOK, ThreadTypeOK, Errors, NoPriority, ListsConsistent,
    HoldCounts, Granted, FreeMeansNoWaiter, WaiterOutside

\* IInv is an invariant of the mutexes.
THEOREM Inductive == Spec => []IInv
BY InitInductive, InductiveStep, PTL DEF Spec

\* The mutexes' state keeps its type: hold stays within rt_uint8_t, value in 0..1.
THEOREM TypeCorrect == Spec => []TypeOK
<1>1. IInv => TypeOK
  BY DEF IInv
<1> QED BY <1>1, Inductive, PTL

\* No two threads are ever between a successful rt_mutex_take and the last
\* rt_mutex_release of the same mutex, whatever timeouts, hand-overs, nested
\* takes and a deletion do.
THEOREM MutexExcludes == Spec => []MutualExclusion
<1>1. IInv => MutualExclusion
  BY DEF IInv, HoldCounts, MutualExclusion
<1> QED BY <1>1, Inductive, PTL

\* owner and hold always agree with who is inside and how often.
THEOREM HoldAlwaysCounts == Spec => []HoldCounts
<1>1. IInv => HoldCounts
  BY DEF IInv
<1> QED BY <1>1, Inductive, PTL

\* A free mutex has no waiter, so no thread is forgotten on one.
THEOREM FreeHasNoWaiter == Spec => []FreeMeansNoWaiter
<1>1. IInv => FreeMeansNoWaiter
  BY DEF IInv
<1> QED BY <1>1, Inductive, PTL

\* A suspended thread is linked in the list of the mutex it asked for and in no
\* other, and only there is a timer armed.
THEOREM ListsAlwaysConsistent == Spec => []ListsConsistent
<1>1. IInv => ListsConsistent
  BY DEF IInv
<1> QED BY <1>1, Inductive, PTL

-----------------------------------------------------------------------------

\* The discipline of an application that nests no mutexes: a thread that owns one owns no
\* other and waits for no other.
OneAtATime ==
    \A t \in Threads, m, n \in Mutexes : owner[m] = t /\ (owner[n] = t \/ wants[t] = n) => m = n

\* original_priority is the one the owner was created with.
OriginalKept == \A m \in Mutexes : owner[m] # None => orig[m] = InitPrio[owner[m]]

\* With RT_IPC_FLAG_PRIO the first waiter, who gets the mutex next, is the most urgent.
Urgency == Flag = "PRIO" => OwnerInherits /\ \A m \in Mutexes : SortedBy(list[m], prio)

PriorityInv == PriorityRestored /\ OriginalKept /\ Urgency

\* A step that only takes threads out of lists keeps the priorities right.
LEMMA ShrinkKeepsPriority ==
    ASSUME PriorityInv, UNCHANGED <<prio, owner, orig>>,
           \A m \in Mutexes : /\ Members(list'[m]) \subseteq Members(list[m])
                              /\ SortedBy(list[m], prio) => SortedBy(list'[m], prio)
    PROVE  PriorityInv'
<1>1. PriorityRestored' /\ OriginalKept'
  BY Zenon DEF PriorityInv, PriorityRestored, OriginalKept
<1>2. Urgency'
  BY Zenon DEF PriorityInv, Urgency, OwnerInherits
<1> QED BY <1>1, <1>2 DEF PriorityInv

\* A thread of a list waits for its mutex, and owns none if it keeps to one at a time.
LEMMA WaiterOwnsNone ==
    ASSUME IInv, OneAtATime, NEW m \in Mutexes, NEW t \in Members(list[m])
    PROVE  t \in Threads /\ wants[t] = m /\ owner[m] \in Threads /\ \A n \in Mutexes : owner[n] # t
<1>1. t \in Threads /\ stat[t] = "suspend" /\ wants[t] = m
  BY DEF IInv, ListsConsistent
<1>2. owner[m] # t
  BY <1>1 DEF IInv, ListsConsistent
<1>3. list[m] # <<>>
  BY EmptyListProperties, Zenon
<1>4. owner[m] \in Threads
  BY <1>3 DEF IInv, TypeOK, FreeMeansNoWaiter
<1> QED BY <1>1, <1>2, <1>4, Zenon DEF OneAtATime

\* rt_mutex_take of a free mutex records the priority the thread was created with.
LEMMA TakeFreePriority ==
    ASSUME IInv, OneAtATime', PriorityInv, NEW t \in Threads, NEW m \in Mutexes, TakeFree(t, m)
    PROVE  PriorityInv'
<1> USE MutexAssumption
<1>1. owner[m] = None /\ list[m] = <<>>
  BY DEF IInv, TypeOK, FreeMeansNoWaiter, TakeFree, Free
<1>2. /\ prio' = prio /\ list' = list
      /\ owner'[m] = t /\ orig'[m] = prio[t]
      /\ \A n \in Mutexes : n # m => owner'[n] = owner[n] /\ orig'[n] = orig[n]
  BY DEF IInv, TypeOK, TakeFree
<1>3. \A n \in Mutexes : owner[n] # t
  <2>1. \A n \in Mutexes : owner'[n] = t => n = m
    BY <1>2, Zenon DEF OneAtATime
  <2> QED BY <1>1, <1>2, <2>1, Zenon
<1>4. prio[t] = InitPrio[t]
  BY <1>3, Zenon DEF PriorityInv, PriorityRestored
<1>5. PriorityRestored'
  <2> SUFFICES ASSUME NEW u \in Threads, \A n \in Mutexes : owner'[n] # u PROVE prio[u] = InitPrio[u]
    BY <1>2, Zenon DEF PriorityRestored
  <2>1. \A n \in Mutexes : owner[n] # u
    BY <1>1, <1>2, Zenon
  <2> QED BY <2>1, Zenon DEF PriorityInv, PriorityRestored
<1>6. OriginalKept'
  BY <1>2, <1>4, Zenon DEF PriorityInv, OriginalKept
<1>7. Urgency'
  <2> SUFFICES ASSUME Flag = "PRIO", NEW n \in Mutexes, NEW u \in Members(list[n])
               PROVE  prio[owner'[n]] <= prio[u]
    BY <1>2, Zenon DEF PriorityInv, Urgency, OwnerInherits
  <2>1. n # m
    BY <1>1, EmptyListProperties, Zenon
  <2> QED BY <1>2, <2>1, Zenon DEF PriorityInv, Urgency, OwnerInherits
<1> QED BY <1>5, <1>6, <1>7 DEF PriorityInv

LOCAL INSTANCE WellFoundedInduction

\* The least of a set of numbers.
LEMMA LeastNumber == WellOrdered
<1> SUFFICES ASSUME NEW S \in SUBSET Nat, S # {} PROVE \E x \in S : \A y \in S : x <= y
  BY DEF WellOrdered
<1>1. PICK x \in S : \A y \in S : ~(<<y, x>> \in OpToRel(<, Nat))
  BY WFMin, NatLessThanWellFounded, Zenon
<1>2. ASSUME NEW y \in S PROVE x <= y
  <2>1. ~(y < x)
    BY <1>1, Zenon DEF OpToRel
  <2> QED BY <2>1
<1> QED BY <1>2

\* rt_mutex_take of a taken mutex lends the owner the caller's priority.  The owner is in no
\* list, so that the order of the lists stays.
LEMMA TakeWaitsPriority ==
    ASSUME IInv, OneAtATime, PriorityInv, NEW t \in Threads, NEW m \in Mutexes,
           NEW timed \in BOOLEAN, TakeWaits(t, m, timed)
    PROVE  PriorityInv'
<1> USE MutexAssumption
<1> DEFINE o == owner[m]
<1>1. /\ o \in Threads /\ o # t /\ owner' = owner /\ orig' = orig
      /\ prio' = Inherited(t, m) /\ list' = [list EXCEPT ![m] = ListSuspend(list[m], t, prio')]
  BY DEF IInv, TypeOK, FreeMeansNoWaiter, TakeWaits, Free, mutexVars
<1>2. prio \in [Threads -> Nat] /\ prio' \in [Threads -> Nat] /\ list \in [Mutexes -> Seq(Threads)]
  BY <1>1 DEF IInv, TypeOK, Inherited
<1>3. /\ prio'[o] <= prio[o] /\ prio'[o] <= prio[t]
      /\ \A u \in Threads : u # o => prio'[u] = prio[u]
  BY <1>1, <1>2 DEF Inherited
<1>4. PriorityRestored'
  BY <1>1, <1>3, Zenon DEF PriorityInv, PriorityRestored
<1>5. OriginalKept'
  BY <1>1, Zenon DEF PriorityInv, OriginalKept
<1>6. ASSUME NEW n \in Mutexes, NEW u \in Members(list[n]) PROVE u \in Threads /\ u # o
  BY WaiterOwnsNone, Zenon
<1>7. ASSUME Flag = "PRIO", NEW n \in Mutexes PROVE SortedBy(list[n], prio')
  <2>1. DOMAIN list[n] = 1..Len(list[n]) /\ \A i \in DOMAIN list[n] : list[n][i] \in Members(list[n])
    BY <1>2 DEF Members
  <2>2. \A i \in DOMAIN list[n] : prio'[list[n][i]] = prio[list[n][i]]
    BY <1>3, <1>6, <2>1, Zenon
  <2> QED BY <1>7, <2>2 DEF PriorityInv, Urgency, SortedBy
<1>8. /\ list'[m] = ListSuspend(list[m], t, prio')
      /\ \A n \in Mutexes : n # m => list'[n] = list[n]
  BY <1>1, <1>2, Zenon
<1>9. Members(list'[m]) = Members(list[m]) \cup {t}
  <2>1. Distinct(list[m]) /\ t \notin Members(list[m]) /\ list[m] \in Seq(Threads)
    BY <1>2 DEF IInv, ListsConsistent, TakeWaits, Usable
  <2> QED BY <1>2, <1>8, <2>1, ListSuspendProperties, Zenon
<1>10. Urgency'
  <2> SUFFICES ASSUME Flag = "PRIO" PROVE OwnerInherits' /\ \A n \in Mutexes : SortedBy(list'[n], prio')
    BY Zenon DEF Urgency
  <2>1. \A n \in Mutexes : SortedBy(list'[n], prio')
    <3>1. list[m] \in Seq(Threads)
      BY <1>2
    <3>2. SortedBy(list'[m], prio')
      BY <1>2, <1>7, <1>8, <3>1, LeastNumber, ListSuspendSorted, Zenon
    <3> QED BY <1>7, <1>8, <3>2, Zenon
  <2>2. ASSUME NEW n \in Mutexes, NEW u \in Members(list'[n]) PROVE prio'[owner[n]] <= prio'[u]
    <3>1. CASE u \in Members(list[n])
      <4>1. u \in Threads /\ u # o /\ owner[n] \in Threads
        BY <1>6, <3>1, WaiterOwnsNone, Zenon
      <4>2. prio[owner[n]] <= prio[u] /\ prio'[u] = prio[u]
        BY <1>3, <3>1, <4>1, Zenon DEF PriorityInv, Urgency, OwnerInherits
      <4>3. prio'[owner[n]] <= prio[owner[n]]
        <5>1. prio[owner[n]] <= prio[owner[n]]
          BY <1>2, <4>1
        <5> QED BY <1>3, <4>1, <5>1, Zenon
      <4> QED BY <1>1, <1>2, <4>1, <4>2, <4>3
    <3>2. CASE u \notin Members(list[n])
      <4>1. n = m /\ u = t
        BY <1>8, <1>9, <3>2, Zenon
      <4> QED BY <1>1, <1>3, <4>1
    <3> QED BY <3>1, <3>2
  <2> QED BY <1>1, <2>1, <2>2, Zenon DEF OwnerInherits
<1> QED BY <1>4, <1>5, <1>10 DEF PriorityInv

\* The last rt_mutex_release gives the owner its own priority back, and hands the mutex to
\* the most urgent waiter, which still has its own.
LEMMA ReleasePriority ==
    ASSUME IInv, OneAtATime, PriorityInv, NEW t \in Threads, NEW m \in Mutexes, ReleaseLast(t, m)
    PROVE  PriorityInv'
<1> USE MutexAssumption
<1>1. owner[m] = t /\ wants[t] = None /\ t # None /\ prio' = [prio EXCEPT ![t] = orig[m]]
  BY DEF ReleaseLast, Usable, Restored
<1>2. /\ prio \in [Threads -> Nat] /\ list \in [Mutexes -> Seq(Threads)]
      /\ owner \in [Mutexes -> Threads \cup {None}] /\ orig \in [Mutexes -> Nat]
  BY DEF IInv, TypeOK
<1>3. prio'[t] = InitPrio[t] /\ \A u \in Threads : u # t => prio'[u] = prio[u]
  BY <1>1, <1>2 DEF PriorityInv, OriginalKept
<1>4. \A n \in Mutexes : n # m => owner[n] # t
  BY <1>1, Zenon DEF OneAtATime
<1>5. ASSUME NEW n \in Mutexes, NEW u \in Members(list[n])
      PROVE  u \in Threads /\ u # t /\ prio'[u] = prio[u] /\ owner[n] \in Threads
             /\ \A k \in Mutexes : owner[k] # u
  <2>1. /\ u \in Threads /\ wants[u] = n /\ owner[n] \in Threads
        /\ \A k \in Mutexes : owner[k] # u
    BY WaiterOwnsNone, Zenon
  <2>2. u # t
    BY <1>1, <2>1, Zenon
  <2> QED BY <1>3, <2>1, <2>2, Zenon
<1>6. ASSUME Flag = "PRIO", NEW n \in Mutexes PROVE SortedBy(list[n], prio')
  <2>1. \A i \in DOMAIN list[n] : list[n][i] \in Members(list[n])
    BY Zenon DEF Members
  <2>2. \A i \in DOMAIN list[n] : prio'[list[n][i]] = prio[list[n][i]]
    BY <1>5, <2>1, Zenon
  <2> QED BY <1>6, <2>2 DEF PriorityInv, Urgency, SortedBy
<1>7. ASSUME NEW h \in Threads \cup {None}, owner' = [owner EXCEPT ![m] = h],
             h # None => h # t /\ \A n \in Mutexes : owner[n] # h
      PROVE  PriorityRestored'
  <2> SUFFICES ASSUME NEW u \in Threads, \A n \in Mutexes : owner'[n] # u
               PROVE  prio'[u] = InitPrio[u]
    BY Zenon DEF PriorityRestored
  <2>1. CASE u = t
    BY <1>3, <2>1
  <2>2. CASE u # t
    <3>1. \A n \in Mutexes : owner[n] # u
      BY <1>1, <1>2, <1>7, <2>2, Zenon
    <3> QED BY <1>3, <2>2, <3>1, Zenon DEF PriorityInv, PriorityRestored
  <2> QED BY <2>1, <2>2
<1>8. CASE list[m] = <<>>
  <2>1. /\ owner' = [owner EXCEPT ![m] = None] /\ list' = list
        /\ orig' = [orig EXCEPT ![m] = NoPriority]
    BY <1>8 DEF ReleaseLast
  <2>2. PriorityRestored'
    BY <1>7, <2>1, Zenon
  <2>3. OriginalKept'
    BY <1>2, <2>1, Zenon DEF PriorityInv, OriginalKept
  <2>4. Urgency'
    <3> SUFFICES ASSUME Flag = "PRIO", NEW n \in Mutexes, NEW u \in Members(list[n])
                 PROVE  prio'[owner'[n]] <= prio'[u]
      BY <1>6, <2>1, Zenon DEF Urgency, OwnerInherits
    <3>1. n # m
      BY <1>8, EmptyListProperties, Zenon
    <3>2. owner'[n] = owner[n] /\ owner[n] # t /\ owner[n] \in Threads
      BY <1>2, <1>4, <1>5, <2>1, <3>1, Zenon
    <3> QED BY <1>3, <1>5, <3>2, Zenon DEF PriorityInv, Urgency, OwnerInherits
  <2> QED BY <2>2, <2>3, <2>4 DEF PriorityInv
<1>9. CASE list[m] # <<>>
  <2> DEFINE h == Head(list[m])
  <2>1. /\ owner' = [owner EXCEPT ![m] = h] /\ orig' = [orig EXCEPT ![m] = prio'[h]]
        /\ list' = [list EXCEPT ![m] = Tail(list[m])]
    BY <1>9, Zenon DEF ReleaseLast
  <2>2. /\ h \in Members(list[m]) /\ Members(Tail(list[m])) = Members(list[m]) \ {h}
        /\ list[m] \in Seq(Threads)
    <3>1. list[m] \in Seq(Threads) /\ Distinct(list[m])
      BY <1>2 DEF IInv, ListsConsistent
    <3> QED BY <1>9, <3>1, ListTailProperties, Zenon
  <2>3. h \in Threads /\ h # t /\ prio'[h] = prio[h] /\ \A n \in Mutexes : owner[n] # h
    BY <1>5, <2>2, Zenon
  <2>4. prio[h] = InitPrio[h]
    BY <2>3, Zenon DEF PriorityInv, PriorityRestored
  <2> HIDE DEF h
  <2>5. /\ owner'[m] = h /\ orig'[m] = prio'[h] /\ list'[m] = Tail(list[m])
        /\ \A n \in Mutexes : n # m => owner'[n] = owner[n] /\ orig'[n] = orig[n] /\ list'[n] = list[n]
    BY <1>2, <2>1, Zenon
  <2>6. PriorityRestored'
    BY <1>7, <2>1, <2>3, Zenon
  <2>7. OriginalKept'
    <3> SUFFICES ASSUME NEW n \in Mutexes, owner'[n] # None PROVE orig'[n] = InitPrio[owner'[n]]
      BY DEF OriginalKept
    <3>1. CASE n = m
      BY <2>3, <2>4, <2>5, <3>1
    <3>2. CASE n # m
      BY <2>5, <3>2, Zenon DEF PriorityInv, OriginalKept
    <3> QED BY <3>1, <3>2
  <2>8. Urgency'
    <3> SUFFICES ASSUME Flag = "PRIO" PROVE OwnerInherits' /\ \A n \in Mutexes : SortedBy(list'[n], prio')
      BY Zenon DEF Urgency
    <3>1. SortedBy(Tail(list[m]), prio') /\ \A u \in Members(Tail(list[m])) : prio'[h] <= prio'[u]
      BY <1>6, <1>9, <2>2, TailSorted, Zenon DEF h
    <3>2. \A n \in Mutexes : SortedBy(list'[n], prio')
      BY <1>6, <2>5, <3>1, Zenon
    <3>3. ASSUME NEW n \in Mutexes, n # m, NEW u \in Members(list[n]) PROVE prio'[owner[n]] <= prio'[u]
      <4>1. owner[n] # t /\ owner[n] \in Threads
        BY <1>4, <1>5, <3>3, Zenon
      <4> QED BY <1>3, <1>5, <4>1, Zenon DEF PriorityInv, Urgency, OwnerInherits
    <3> QED BY <2>5, <3>1, <3>2, <3>3, Zenon DEF OwnerInherits
  <2> QED BY <2>6, <2>7, <2>8 DEF PriorityInv
<1> QED BY <1>8, <1>9

\* Every step of threads that take one mutex at a time keeps the priorities right.
LEMMA PriorityStep == IInv /\ OneAtATime /\ OneAtATime' /\ PriorityInv /\ [Next]_vars => PriorityInv'
<1> SUFFICES ASSUME IInv, OneAtATime, OneAtATime', PriorityInv, [Next]_vars PROVE PriorityInv'
  OBVIOUS
<1>1. list \in [Mutexes -> Seq(Threads)] /\ \A m \in Mutexes : Distinct(list[m])
  BY DEF IInv, TypeOK, ListsConsistent
<1>2. ASSUME UNCHANGED <<prio, owner, orig, list>> PROVE PriorityInv'
  BY <1>2, ShrinkKeepsPriority, Zenon
<1>3. ASSUME NEW t \in Threads, NEW m \in Mutexes, Call(t, m) PROVE PriorityInv'
  <2>1. ASSUME TakeNested(t, m) \/ TryFails(t, m) \/ ReleaseRefused(t, m) \/ ReleaseNested(t, m)
        PROVE  PriorityInv'
    BY <1>2, <2>1, Zenon DEF TakeNested, TryFails, ReleaseRefused, ReleaseNested, vars
  <2> QED BY <1>3, <2>1, TakeFreePriority, TakeWaitsPriority, ReleasePriority, Zenon DEF Call
<1>4. ASSUME NEW m \in Mutexes, NEW l, list' = [list EXCEPT ![m] = l], UNCHANGED <<prio, owner, orig>>,
             Members(l) \subseteq Members(list[m]), SortedBy(list[m], prio) => SortedBy(l, prio)
      PROVE  PriorityInv'
  <2>1. \A n \in Mutexes : list'[n] = IF n = m THEN l ELSE list[n]
    BY <1>1, <1>4, Zenon
  <2> QED BY <1>4, <2>1, ShrinkKeepsPriority, Zenon
<1>5. ASSUME NEW t \in Threads, Timeout(t) PROVE PriorityInv'
  <2>1. wants[t] \in Mutexes /\ t \in Members(list[wants[t]])
    BY <1>5 DEF Timeout, ThreadTimeout, IInv, TypeOK, ListsConsistent
  <2>2. list[wants[t]] \in Seq(Threads) /\ Distinct(list[wants[t]])
    BY <1>1, <2>1
  <2>3. Members(ListRemove(list[wants[t]], t)) \subseteq Members(list[wants[t]])
    BY <2>1, <2>2, ListRemoveProperties, Zenon
  <2>4. SortedBy(list[wants[t]], prio) => SortedBy(ListRemove(list[wants[t]], t), prio)
    BY <2>1, <2>2, ListRemoveSorted, Zenon
  <2> QED BY <1>4, <1>5, <2>1, <2>3, <2>4, Zenon DEF Timeout, mutexVars
<1>6. ASSUME NEW m \in Mutexes, DeleteResume(m) PROVE PriorityInv'
  <2>1. CASE list[m] = <<>>
    BY <1>2, <1>6, <2>1, Zenon DEF DeleteResume, mutexVars
  <2>2. CASE list[m] # <<>>
    <3>1. list[m] \in Seq(Threads) /\ Distinct(list[m])
      BY <1>1
    <3>2. Members(Tail(list[m])) \subseteq Members(list[m])
      BY <2>2, <3>1, ListTailProperties, Zenon
    <3>3. SortedBy(list[m], prio) => SortedBy(Tail(list[m]), prio)
      BY <2>2, <3>1, TailSorted, Zenon
    <3> QED BY <1>4, <1>6, <2>2, <3>2, <3>3, Zenon DEF DeleteResume, mutexVars
  <2> QED BY <2>1, <2>2
<1>7. ASSUME \/ \E t \in Threads : Return(t)
             \/ \E m \in Mutexes : DeleteCheck(m) \/ DeleteFree(m)
             \/ UNCHANGED vars
      PROVE  PriorityInv'
  BY <1>2, <1>7, Zenon DEF Return, DeleteCheck, DeleteFree, mutexVars, vars
<1> QED BY <1>3, <1>5, <1>6, <1>7, Zenon DEF Next, Delete

\* Mutexes start with every thread at its own priority.
LEMMA InitPriority == Init => PriorityInv
BY MutexAssumption
DEF Init, PriorityInv, PriorityRestored, OriginalKept, Urgency, OwnerInherits, SortedBy, Members

\* Priority inheritance is right, with any number of mutexes, for threads that take one mutex
\* at a time.
THEOREM PrioritiesKept == Spec /\ []OneAtATime => []PriorityInv
BY InitPriority, PriorityStep, Inductive, PTL DEF Spec

\* "change the owner thread to original priority": a thread that owns no mutex runs at the
\* priority it was created with, whatever priorities it inherited, as long as threads take
\* one mutex at a time; with two at once they may not.
THEOREM PriorityAlwaysRestored == Spec /\ []OneAtATime => []PriorityRestored
<1>1. PriorityInv => PriorityRestored
  BY DEF PriorityInv
<1> QED BY <1>1, PrioritiesKept, PTL

\* With RT_IPC_FLAG_PRIO the owner of a mutex is always at least as urgent as every thread
\* that waits for it, after a hand-over too, as long as threads take one mutex at a time.
THEOREM OwnerAlwaysInherits ==
    ASSUME Flag = "PRIO"
    PROVE  Spec /\ []OneAtATime => []OwnerInherits
<1>1. PriorityInv => OwnerInherits
  BY DEF PriorityInv, Urgency
<1> QED BY <1>1, PrioritiesKept, PTL

\* With a single mutex the discipline is no restriction: both hold in every behaviour.
THEOREM SingleMutexPriorities ==
    ASSUME \A m, n \in Mutexes : m = n, Flag = "PRIO"
    PROVE  Spec => [](PriorityRestored /\ OwnerInherits)
<1>1. OneAtATime
  BY DEF OneAtATime
<1>2. PriorityInv => PriorityRestored /\ OwnerInherits
  BY DEF PriorityInv, Urgency
<1> QED BY <1>1, <1>2, PrioritiesKept, PTL

=============================================================================
