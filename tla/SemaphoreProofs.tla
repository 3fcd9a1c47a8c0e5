-------------------------- MODULE SemaphoreProofs --------------------------
(***************************************************************************)
(* Proofs about the semaphore, for any number of threads, any priorities,  *)
(* both flags, any width of the counter and with or without a deletion.    *)
(***************************************************************************)
EXTENDS Semaphore, IpcThreadProofs

\* The list, the threads' states and the counter together are inductive; none
\* of the three is without the others.
IInv == TypeOK /\ ListConsistent /\ NoLostWakeup

\* Adding the caller to the list by rt_ipc_list_suspend and suspending it
\* keeps the list the list of the suspended threads.
LEMMA SuspendKeepsList ==
    ASSUME IInv, NEW t \in Threads, NEW timed \in BOOLEAN, pc[t] = "idle",
           list' = ListSuspend(list, t, Prio), Suspend(t, timed),
           pc' = [pc EXCEPT ![t] = "take"]
    PROVE  list' \in Seq(Threads) /\ list' # <<>> /\ ThreadTypeOK' /\ ListConsistent'
<1>1. t \notin Members(list)
  BY DEF IInv, ListConsistent
<1>2. /\ list' \in Seq(Threads) /\ Distinct(list')
      /\ Members(list') = Members(list) \cup {t} /\ list' # <<>>
  BY <1>1, ListSuspendProperties, SemAssumption DEF IInv, TypeOK, ListConsistent
<1>3. ThreadTypeOK'
  BY DEF IInv, TypeOK, ThreadTypeOK, Suspend, Errors
<1>4. ListConsistent'
  BY <1>2 DEF IInv, TypeOK, ThreadTypeOK, ListConsistent, Suspend
<1> QED BY <1>2, <1>3, <1>4

\* Waking the first thread of the list, with RT_EOK or with an error, keeps it.
LEMMA ResumeFirstKeepsList ==
    ASSUME IInv, list # <<>>, list' = Tail(list), pc' = pc,
           Resume(Head(list)) \/ ResumeError({Head(list)})
    PROVE  list' \in Seq(Threads) /\ ThreadTypeOK' /\ ListConsistent'
<1>1. /\ Head(list) \in Members(list) /\ Head(list) \in Threads
      /\ list' \in Seq(Threads) /\ Distinct(list')
      /\ Members(list') = Members(list) \ {Head(list)}
  BY ListTailProperties DEF IInv, TypeOK, ListConsistent
<1>2. ThreadTypeOK'
  <2>1. CASE Resume(Head(list))
    BY <2>1 DEF IInv, TypeOK, ThreadTypeOK, Resume
  <2>2. CASE ResumeError({Head(list)})
    BY <2>2, ResumeErrorType DEF IInv, TypeOK
  <2> QED BY <2>1, <2>2
<1>3. /\ stat'[Head(list)] = "ready" /\ timer'[Head(list)] = FALSE
      /\ \A t \in Threads \ {Head(list)} : stat'[t] = stat[t] /\ timer'[t] = timer[t] /\ error'[t] = error[t]
  <2>1. CASE Resume(Head(list))
    BY <1>1, <2>1, Zenon DEF IInv, TypeOK, ThreadTypeOK, Resume
  <2>2. CASE ResumeError({Head(list)})
    BY <1>1, <2>2, Zenon DEF ResumeError
  <2> QED BY <2>1, <2>2, Zenon
<1>4. ListConsistent'
  <2>1. Members(list') = {t \in Threads : stat'[t] = "suspend"}
    BY <1>1, <1>3 DEF IInv, ListConsistent
  <2>2. \A t \in Threads : /\ stat'[t] = "suspend" => pc'[t] = "take" /\ error'[t] = "EOK"
                           /\ timer'[t] => stat'[t] = "suspend"
    BY <1>1, <1>3 DEF IInv, ListConsistent
  <2> QED BY <1>1, <2>1, <2>2, Zenon DEF ListConsistent
<1> QED BY <1>1, <1>2, <1>4

\* Every step of the threads, the interrupt handlers and a deletion keeps IInv.
LEMMA InductiveStep == IInv /\ [Next]_vars => IInv'
<1> SUFFICES ASSUME IInv, [Next]_vars PROVE IInv'
  OBVIOUS
<1> USE SemAssumption
<1>1. ASSUME NEW t \in Threads, NEW wait \in Waits, Take(t, wait) PROVE IInv'
  <2>1. CASE /\ Available /\ value' = value - 1 /\ acquired' = acquired + 1
             /\ UNCHANGED <<threadVars, list, pc>>
    BY <1>1, <2>1 DEF Take, Available, IInv, TypeOK, ListConsistent, NoLostWakeup, ThreadTypeOK, threadVars
  <2>2. CASE ~ Available /\ UNCHANGED <<threadVars, value, list, pc, acquired>>
    BY <1>1, <2>2 DEF Take, IInv, TypeOK, ListConsistent, NoLostWakeup, ThreadTypeOK, threadVars
  <2>3. CASE /\ ~ Available /\ wait # "no"
             /\ list' = ListSuspend(list, t, Prio)
             /\ Suspend(t, wait = "timed")
             /\ pc' = [pc EXCEPT ![t] = "take"]
             /\ UNCHANGED <<value, acquired>>
    <3>1. list' \in Seq(Threads) /\ list' # <<>> /\ ThreadTypeOK' /\ ListConsistent'
      BY <1>1, <2>3, SuspendKeepsList, Zenon DEF Take
    <3>2. TypeOK'
      BY <1>1, <2>3, <3>1 DEF Take, IInv, TypeOK
    <3>3. NoLostWakeup'
      BY <2>3 DEF IInv, TypeOK, NoLostWakeup, Available
    <3> QED BY <3>1, <3>2, <3>3 DEF IInv
  <2> QED BY <1>1, <2>1, <2>2, <2>3 DEF Take
<1>2. ASSUME NEW t \in Threads, Return(t) PROVE IInv'
  BY <1>2 DEF Return, Leave, IInv, TypeOK, ListConsistent, NoLostWakeup, ThreadTypeOK, Errors
<1>3. ASSUME NEW t \in Threads, Timeout(t) PROVE IInv'
  <2>1. t \in Members(list)
    BY <1>3 DEF Timeout, ThreadTimeout, IInv, ListConsistent
  <2>2. /\ list' \in Seq(Threads) /\ Distinct(list')
        /\ Members(list') = Members(list) \ {t}
    BY <1>3, <2>1, ListRemoveProperties DEF Timeout, IInv, TypeOK, ListConsistent
  <2>3. TypeOK'
    BY <1>3, <2>2 DEF Timeout, ThreadTimeout, IInv, TypeOK, ThreadTypeOK, Errors
  <2>4. ListConsistent'
    BY <1>3, <2>2 DEF Timeout, ThreadTimeout, IInv, TypeOK, ThreadTypeOK, ListConsistent
  <2>5. NoLostWakeup'
    <3>1. list # <<>>
      BY <2>1, EmptyListProperties
    <3> QED BY <1>3, <3>1 DEF Timeout, IInv, NoLostWakeup
  <2> QED BY <2>3, <2>4, <2>5 DEF IInv
<1>4. ASSUME Release PROVE IInv'
  <2>1. CASE list # <<>> /\ Resume(Head(list)) /\ list' = Tail(list) /\ UNCHANGED value
    <3>1. list' \in Seq(Threads) /\ ThreadTypeOK' /\ ListConsistent'
      BY <1>4, <2>1, ResumeFirstKeepsList DEF Release
    <3>2. TypeOK'
      BY <1>4, <2>1, <3>1 DEF Release, IInv, TypeOK
    <3> QED BY <1>4, <2>1, <3>1, <3>2 DEF Release, IInv, NoLostWakeup
  <2>2. CASE /\ list = <<>> /\ value' = (value + 1) % (ValueMax + 1)
             /\ UNCHANGED <<threadVars, list>>
    <3>1. value' \in 0..ValueMax
      BY <2>2 DEF IInv, TypeOK
    <3> QED BY <1>4, <2>2, <3>1 DEF Release, IInv, TypeOK, ListConsistent, NoLostWakeup, ThreadTypeOK, threadVars
  <2> QED BY <1>4, <2>1, <2>2 DEF Release
<1>5. ASSUME NEW v \in 0..ValueMax, Reset(v) PROVE IInv'
  <2>1. list' = <<>> /\ list' \in Seq(Threads) /\ Distinct(list') /\ Members(list') = {}
    BY <1>5, EmptyListProperties DEF Reset
  <2>2. TypeOK'
    <3>1. ThreadTypeOK'
      BY <1>5, ResumeErrorType DEF Reset, IInv, TypeOK
    <3> QED BY <1>5, <2>1, <3>1 DEF Reset, IInv, TypeOK
  <2>3. ListConsistent'
    BY <1>5, <2>1 DEF Reset, ResumeError, IInv, TypeOK, ThreadTypeOK, ListConsistent
  <2> QED BY <2>1, <2>2, <2>3 DEF IInv, NoLostWakeup
<1>6. ASSUME DeleteCheck PROVE IInv'
  BY <1>6 DEF DeleteCheck, IInv, TypeOK, ListConsistent, NoLostWakeup, ThreadTypeOK, threadVars
<1>7. ASSUME DeleteResume PROVE IInv'
  <2>1. CASE list # <<>> /\ ResumeError({Head(list)}) /\ list' = Tail(list) /\ del' = "check"
    <3>1. list' \in Seq(Threads) /\ ThreadTypeOK' /\ ListConsistent'
      BY <1>7, <2>1, ResumeFirstKeepsList DEF DeleteResume
    <3>2. TypeOK'
      BY <1>7, <2>1, <3>1 DEF DeleteResume, IInv, TypeOK
    <3> QED BY <1>7, <2>1, <3>1, <3>2 DEF DeleteResume, IInv, NoLostWakeup
  <2>2. CASE list = <<>> /\ del' = "fault" /\ UNCHANGED <<threadVars, list>>
    BY <1>7, <2>2 DEF DeleteResume, IInv, TypeOK, ListConsistent, NoLostWakeup, ThreadTypeOK, threadVars
  <2> QED BY <1>7, <2>1, <2>2 DEF DeleteResume
<1>8. ASSUME DeleteFree PROVE IInv'
  BY <1>8 DEF DeleteFree, IInv, TypeOK, ListConsistent, NoLostWakeup, ThreadTypeOK, threadVars
<1>9. ASSUME UNCHANGED vars PROVE IInv'
  BY <1>9 DEF vars, IInv, TypeOK, ListConsistent, NoLostWakeup, ThreadTypeOK
<1> QED BY <1>1, <1>2, <1>3, <1>4, <1>5, <1>6, <1>7, <1>8, <1>9 DEF Next

\* rt_sem_init leaves an object that satisfies IInv.
LEMMA InitInductive == Init => IInv
BY SemAssumption, EmptyListProperties
DEF Init, ThreadInit, IInv, TypeOK, ThreadTypeOK, Errors, ListConsistent, NoLostWakeup

\* IInv is an invariant of the semaphore.
THEOREM Inductive == Spec => []IInv
BY InitInductive, InductiveStep, PTL DEF Spec

\* The semaphore's state keeps its type; value keeps within rt_uint16_t.
THEOREM TypeCorrect == Spec => []TypeOK
<1>1. IInv => TypeOK
  BY DEF IInv
<1> QED BY <1>1, Inductive, PTL

\* The list of rt_sem_take is exactly the suspended threads, and a timer is
\* armed only for one of them: the assertion of rt_thread_timeout never fails.
THEOREM ListAlwaysConsistent == Spec => []ListConsistent
<1>1. IInv => ListConsistent
  BY DEF IInv
<1> QED BY <1>1, Inductive, PTL

\* No wakeup is lost: no thread is suspended on a semaphore with a token, even
\* when the 16-bit counter wraps and while another thread deletes the object.
THEOREM WakeupsNotLost == Spec => []NoLostWakeup
<1>1. IInv => NoLostWakeup
  BY DEF IInv
<1> QED BY <1>1, Inductive, PTL

-----------------------------------------------------------------------------

\* With RT_IPC_FLAG_PRIO the list is in the order of urgency.
ListSorted == Flag = "PRIO" => SortedBy(list, Prio)

LOCAL INSTANCE WellFoundedInduction

\* The least of a set of numbers.
LEMMA LeastNumber == WellOrdered
<1> SUFFICES ASSUME NEW S \in SUBSET Nat, S # {} PROVE \E x \in S : \A y \in S : x <= y
  BY DEF WellOrdered
<1>1. PICK x \in S : \A y \in S : ~(<<y, x>> \in OpToRel(<, Nat))
  BY WFMin, NatLessThanWellFounded, Zenon
<1>2. ASSUME NEW y \in S PROVE x <= y
  <2>1. ~(y < x)
    BY <1>1, Zenon DEF OpToRel
  <2> QED BY <2>1
<1> QED BY <1>2

\* rt_ipc_list_suspend inserts in order; what takes a thread out keeps the order.
LEMMA SortedStep == IInv /\ ListSorted /\ [Next]_vars => ListSorted'
<1> SUFFICES ASSUME IInv, ListSorted, [Next]_vars, Flag = "PRIO" PROVE SortedBy(list', Prio)
  BY DEF ListSorted
<1>1. list \in Seq(Threads) /\ Distinct(list) /\ SortedBy(list, Prio) /\ Prio \in [Threads -> Nat]
  BY SemAssumption DEF IInv, TypeOK, ListConsistent, ListSorted
<1>2. SortedBy(<<>>, Prio)
  BY DEF SortedBy
<1>3. ASSUME NEW t \in Threads, NEW wait \in Waits, Take(t, wait) PROVE SortedBy(list', Prio)
  BY <1>1, <1>3, LeastNumber, ListSuspendSorted, Zenon DEF Take
<1>4. ASSUME NEW t \in Threads, Timeout(t) PROVE SortedBy(list', Prio)
  <2>1. t \in Members(list)
    BY <1>4 DEF Timeout, ThreadTimeout, IInv, ListConsistent
  <2> QED BY <1>1, <1>4, <2>1, ListRemoveSorted, Zenon DEF Timeout
<1>5. ASSUME Release \/ DeleteResume PROVE SortedBy(list', Prio)
  BY <1>1, <1>5, TailSorted, Zenon DEF Release, DeleteResume
<1>6. ASSUME NEW v \in 0..ValueMax, Reset(v) PROVE SortedBy(list', Prio)
  BY <1>2, <1>6 DEF Reset
<1>7. ASSUME \/ \E t \in Threads : Return(t)
             \/ DeleteCheck \/ DeleteFree \/ UNCHANGED vars
      PROVE  SortedBy(list', Prio)
  BY <1>1, <1>7, Zenon DEF Return, DeleteCheck, DeleteFree, vars
<1> QED BY <1>3, <1>4, <1>5, <1>6, <1>7, Zenon DEF Next

\* rt_sem_release with RT_IPC_FLAG_PRIO wakes a thread that is at least as urgent as all
\* that stay suspended: the first of a list that is always in the order of urgency.
THEOREM MostUrgentFirst == Spec => UrgentFirst
<1>1. Init => ListSorted
  BY DEF Init, ListSorted, SortedBy
<1>2. IInv /\ ListSorted /\ [Next]_vars
        => [Flag = "PRIO" /\ issued' = issued + 1 /\ list # <<>>
              => \A t \in Members(list) \ Members(list'), u \in Members(list') :
                    Prio[t] <= Prio[u]]_vars
  <2> SUFFICES ASSUME IInv, ListSorted, Next, Flag = "PRIO", issued' = issued + 1, list # <<>>,
                      NEW t \in Members(list) \ Members(list'), NEW u \in Members(list')
               PROVE  Prio[t] <= Prio[u]
    BY Zenon
  <2>1. issued' # issued
    BY DEF IInv, TypeOK
  <2>2. Release \/ \E v \in 0..ValueMax : Reset(v)
    BY <2>1, Zenon DEF Next, Take, Return, Timeout, DeleteCheck, DeleteResume, DeleteFree
  <2>3. CASE Release
    <3>1. list' = Tail(list)
      BY <2>3 DEF Release
    <3>2. t = Head(list)
      BY <3>1, ListTailProperties DEF IInv, TypeOK, ListConsistent
    <3> QED BY <3>1, <3>2, TailSorted DEF ListSorted, IInv, TypeOK
  <2>4. CASE \E v \in 0..ValueMax : Reset(v)
    BY <2>4, EmptyListProperties DEF Reset
  <2> QED BY <2>2, <2>3, <2>4
<1> QED BY <1>1, <1>2, SortedStep, Inductive, PTL DEF Spec, UrgentFirst

-----------------------------------------------------------------------------

INSTANCE FiniteSetTheorems

\* A release that wakes a thread grants one more token, a return takes one off.
LEMMA GrantCounts ==
    ASSUME IsFiniteSet(Threads), NEW t \in Threads
    PROVE  /\ Cardinality(Granted) \in Nat
           /\ Granted' = Granted => Cardinality(Granted') = Cardinality(Granted)
           /\ t \notin Granted /\ Granted' = Granted \cup {t}
                => Cardinality(Granted') = Cardinality(Granted) + 1
           /\ t \in Granted /\ Granted' = Granted \ {t}
                => Cardinality(Granted') = Cardinality(Granted) - 1
<1>1. IsFiniteSet(Granted)
  BY FS_Subset DEF Granted
<1> QED BY <1>1, FS_CardinalityType, FS_AddElement, FS_RemoveElement

\* No step loses or invents a token as long as the counter does not wrap.
LEMMA TokensStep ==
    ASSUME IsFiniteSet(Threads), MaxIssued <= ValueMax,
           IInv, IInv', TokensConserved, [Next]_vars
    PROVE  TokensConserved'
<1> USE SemAssumption
<1>0. Cardinality(Granted) \in Nat /\ (Granted' = Granted => Cardinality(Granted') = Cardinality(Granted))
  <2>1. IsFiniteSet(Granted)
    BY FS_Subset DEF Granted
  <2> QED BY <2>1, FS_CardinalityType
<1>1. ASSUME NEW t \in Threads, NEW wait \in Waits, Take(t, wait) PROVE TokensConserved'
  <2>1. Granted' = Granted
    BY <1>1 DEF Take, Suspend, threadVars, Granted, IInv, TypeOK, ThreadTypeOK
  <2>2. /\ issued' = issued
        /\ \/ value' = value - 1 /\ acquired' = acquired + 1
           \/ value' = value /\ acquired' = acquired
    BY <1>1, Zenon DEF Take
  <2>3. Cardinality(Granted') = Cardinality(Granted) /\ Cardinality(Granted) \in Nat
    BY <1>0, <2>1
  <2>4. value \in Int /\ acquired \in Int
    BY DEF IInv, TypeOK
  <2> QED BY <2>2, <2>3, <2>4 DEF TokensConserved
<1>2. ASSUME NEW t \in Threads, Return(t) PROVE TokensConserved'
  <2>1. CASE error[t] = "EOK"
    <3>1. t \in Granted /\ Granted' = Granted \ {t}
      BY <1>2, <2>1 DEF Return, Leave, Granted, IInv, TypeOK, ThreadTypeOK
    <3>2. issued' = issued /\ value' = value /\ acquired' = acquired + 1
      BY <1>2, <2>1 DEF Return
    <3>3. Cardinality(Granted') = Cardinality(Granted) - 1
      BY <3>1, GrantCounts, Zenon
    <3> QED BY <1>0, <3>2, <3>3 DEF TokensConserved, IInv, TypeOK
  <2>2. CASE error[t] # "EOK"
    <3>1. Granted' = Granted
      BY <1>2, <2>2 DEF Return, Leave, Granted, IInv, TypeOK, ThreadTypeOK
    <3>2. issued' = issued /\ value' = value /\ acquired' = acquired
      BY <1>2, <2>2 DEF Return, IInv, TypeOK
    <3> QED BY <1>0, <3>1, <3>2 DEF TokensConserved
  <2> QED BY <2>1, <2>2
<1>3. ASSUME NEW t \in Threads, Timeout(t) PROVE TokensConserved'
  <2>1. Granted' = Granted
    BY <1>3 DEF Timeout, ThreadTimeout, Granted, IInv, TypeOK, ThreadTypeOK, ListConsistent
  <2> QED BY <1>0, <1>3, <2>1 DEF Timeout, TokensConserved
<1>4. ASSUME Release PROVE TokensConserved'
  <2>1. CASE list # <<>> /\ Resume(Head(list)) /\ list' = Tail(list) /\ UNCHANGED value
    <3>1. Head(list) \in Threads /\ stat[Head(list)] = "suspend"
      BY <2>1, ListTailProperties DEF IInv, TypeOK, ListConsistent
    <3>2. Head(list) \notin Granted /\ Granted' = Granted \cup {Head(list)}
      BY <1>4, <2>1, <3>1 DEF Release, Resume, Granted, IInv, TypeOK, ThreadTypeOK, ListConsistent
    <3>3. Cardinality(Granted') = Cardinality(Granted) + 1
      BY <3>1, <3>2, GrantCounts, Zenon
    <3> QED BY <1>0, <1>4, <2>1, <3>3 DEF Release, TokensConserved, IInv, TypeOK
  <2>2. CASE /\ list = <<>> /\ value' = (value + 1) % (ValueMax + 1)
             /\ UNCHANGED <<threadVars, list>>
    <3>1. Granted' = Granted
      BY <1>4, <2>2 DEF Release, threadVars, Granted
    <3>2. value < ValueMax
      BY <1>0, <1>4 DEF Release, TokensConserved, IInv, TypeOK
    <3>3. value' = value + 1
      BY <2>2, <3>2 DEF IInv, TypeOK
    <3> QED BY <1>0, <1>4, <3>1, <3>3 DEF Release, TokensConserved, IInv, TypeOK
  <2> QED BY <1>4, <2>1, <2>2 DEF Release
<1>5. ASSUME NEW v \in 0..ValueMax, Reset(v) PROVE TokensConserved'
  <2>1. Granted' = Granted
    BY <1>5 DEF Reset, ResumeError, Granted, IInv, TypeOK, ThreadTypeOK, ListConsistent
  <2> QED BY <1>0, <1>5, <2>1 DEF Reset, TokensConserved, IInv, TypeOK
<1>6. ASSUME DeleteCheck \/ DeleteFree \/ UNCHANGED vars PROVE TokensConserved'
  <2>1. Granted' = Granted
    BY <1>6 DEF DeleteCheck, DeleteFree, vars, threadVars, Granted
  <2> QED BY <1>0, <1>6, <2>1 DEF DeleteCheck, DeleteFree, vars, TokensConserved
<1>7. ASSUME DeleteResume PROVE TokensConserved'
  <2>1. Granted' = Granted
    <3>1. CASE list # <<>> /\ ResumeError({Head(list)})
      <4>1. Head(list) \in Threads /\ stat[Head(list)] = "suspend"
        BY <3>1, ListTailProperties DEF IInv, TypeOK, ListConsistent
      <4> QED BY <1>7, <3>1, <4>1 DEF DeleteResume, ResumeError, Granted
    <3>2. CASE UNCHANGED <<threadVars, list>>
      BY <1>7, <3>2 DEF DeleteResume, threadVars, Granted
    <3> QED BY <1>7, <3>1, <3>2 DEF DeleteResume
  <2> QED BY <1>0, <1>7, <2>1 DEF DeleteResume, TokensConserved
<1> QED BY <1>1, <1>2, <1>3, <1>4, <1>5, <1>6, <1>7 DEF Next

\* Tokens are conserved for every finite set of threads, as long as fewer are
\* put in than the 16-bit counter holds.
THEOREM TokensAlwaysConserved ==
    ASSUME IsFiniteSet(Threads), MaxIssued <= ValueMax
    PROVE  Spec => []TokensConserved
<1>1. Init => TokensConserved
  <2> SUFFICES ASSUME Init PROVE TokensConserved
    OBVIOUS
  <2>1. Granted = {}
    BY DEF Init, Granted
  <2>2. Cardinality(Granted) = 0
    BY <2>1, FS_EmptySet
  <2> QED BY <2>2, SemAssumption DEF Init, TokensConserved
<1>2. IInv /\ IInv' /\ TokensConserved /\ [Next]_vars => TokensConserved'
  BY TokensStep
<1> QED BY <1>1, <1>2, Inductive, PTL DEF Spec

=============================================================================
