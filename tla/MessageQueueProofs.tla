------------------------- MODULE MessageQueueProofs -------------------------
(***************************************************************************)
(* Proofs about the message queue, for any number of threads, any          *)
(* priorities, both flags, any number of slots and with or without a       *)
(* deletion: the slots are never lost or shared, the unprotected copies    *)
(* are undisturbed, the chained slots implement BoundedQueue, and neither  *)
(* a receiver nor a sender is forgotten.                                   *)
(***************************************************************************)
EXTENDS MessageQueue, IpcThreadProofs

-----------------------------------------------------------------------------
(* Lists of slots, for any next field nx.                                  *)

\* The slots q are the list at p, each in it once.
SlotList(nx, q, p) == q \in Seq(Slots) /\ Distinct(q) /\ IsChain(nx, q, p)

\* What msg_queue_tail points to.
LastOf(q) == IF q = <<>> THEN None ELSE q[Len(q)]

\* The empty sequence is the one of length 0.
LEMMA NoSlots == \A q \in Seq(Slots) : q = <<>> <=> Len(q) = 0
OBVIOUS

\* The list does not notice a change of the next field of other slots.
LEMMA SameList ==
    ASSUME NEW nx, NEW ny, NEW q, NEW p, SlotList(nx, q, p),
           \A s \in Members(q) : ny[s] = nx[s]
    PROVE  SlotList(ny, q, p)
BY DEF SlotList, IsChain, Members

\* An empty list starts at RT_NULL, ...
LEMMA EmptyList ==
    ASSUME NEW nx
    PROVE  SlotList(nx, <<>>, None) /\ Members(<<>>) = {}
<1>1. <<>> \in Seq(Slots) /\ DOMAIN <<>> = {}
  OBVIOUS
<1> QED BY <1>1 DEF SlotList, IsChain, Distinct, Members

\* ... and only an empty one does.
LEMMA EmptyStart ==
    ASSUME NEW nx, NEW q, NEW p, SlotList(nx, q, p)
    PROVE  p = None <=> q = <<>>
<1>1. ASSUME q # <<>> PROVE p # None
  <2>1. q \in Seq(Slots) /\ p = q[1]
    BY <1>1 DEF SlotList, IsChain
  <2>2. q[1] \in Slots
    BY <1>1, <2>1
  <2> QED BY <2>1, <2>2, QueueAssumption DEF Slots
<1> QED BY <1>1 DEF SlotList, IsChain

\* Taking the first slot off a list.
LEMMA PopList ==
    ASSUME NEW nx, NEW q, NEW p, SlotList(nx, q, p), q # <<>>
    PROVE  /\ p = Head(q) /\ p \in Slots /\ p \in Members(q)
           /\ SlotList(nx, Tail(q), nx[p])
           /\ Members(Tail(q)) = Members(q) \ {p}
           /\ Len(Tail(q)) = Len(q) - 1
           /\ LastOf(Tail(q)) = IF LastOf(q) = p THEN None ELSE LastOf(q)
<1> DEFINE n == Len(q)
           r == Tail(q)
<1>1. /\ q \in Seq(Slots) /\ n \in Nat /\ n > 0 /\ DOMAIN q = 1..n
      /\ \A i \in 1..n : q[i] \in Slots
  BY DEF SlotList
<1>2. p = q[1] /\ p = Head(q) /\ p \in Slots /\ p \in Members(q)
  BY <1>1 DEF SlotList, IsChain, Members
<1>3. /\ r \in Seq(Slots) /\ Len(r) = n - 1 /\ DOMAIN r = 1..(n - 1)
      /\ \A i \in 1..(n - 1) : r[i] = q[i + 1]
  BY <1>1
<1>4. \A i, j \in 1..n : q[i] = q[j] => i = j
  BY <1>1 DEF SlotList, Distinct
<1>5. \A i \in 1..n : nx[q[i]] = IF i = n THEN None ELSE q[i + 1]
  BY <1>1, Zenon DEF SlotList, IsChain
<1> HIDE DEF n, r
<1>6. r = <<>> <=> n = 1
  <2>1. r = <<>> <=> Len(r) = 0
    BY <1>3, NoSlots, Zenon
  <2> QED BY <1>1, <1>3, <2>1
<1>7. Distinct(r)
  <2> SUFFICES ASSUME NEW i \in 1..(n - 1), NEW j \in 1..(n - 1), r[i] = r[j] PROVE i = j
    BY <1>3 DEF Distinct
  <2>1. i + 1 \in 1..n /\ j + 1 \in 1..n /\ q[i + 1] = q[j + 1]
    BY <1>1, <1>3
  <2> QED BY <1>4, <2>1
<1>8. IsChain(nx, r, nx[p])
  <2>1. nx[p] = IF r = <<>> THEN None ELSE r[1]
    BY <1>1, <1>2, <1>3, <1>5, <1>6
  <2>2. ASSUME NEW i \in 1..(n - 1) PROVE nx[r[i]] = IF i = n - 1 THEN None ELSE r[i + 1]
    <3>1. i + 1 \in 1..n /\ (i = n - 1 <=> i + 1 = n) /\ (i # n - 1 => i + 1 \in 1..(n - 1))
      BY <1>1
    <3> QED BY <1>3, <1>5, <3>1
  <2> QED BY <1>3, <2>1, <2>2 DEF IsChain
<1>9. Members(r) = Members(q) \ {p}
  <2>1. ASSUME NEW s \in Members(r) PROVE s \in Members(q) \ {p}
    <3>1. PICK i \in 1..(n - 1) : s = r[i]
      BY <1>3 DEF Members
    <3>2. i + 1 \in 1..n /\ 1 \in 1..n /\ i + 1 # 1 /\ s = q[i + 1]
      BY <1>1, <1>3, <3>1
    <3> QED BY <1>1, <1>2, <1>4, <3>2 DEF Members
  <2>2. ASSUME NEW s \in Members(q), s # p PROVE s \in Members(r)
    <3>1. PICK i \in 1..n : s = q[i]
      BY <1>1 DEF Members
    <3>2. i - 1 \in 1..(n - 1) /\ (i - 1) + 1 = i
      BY <1>1, <1>2, <2>2, <3>1
    <3>3. r[i - 1] = s
      BY <1>3, <3>1, <3>2
    <3> QED BY <1>3, <3>2, <3>3 DEF Members
  <2> QED BY <2>1, <2>2
<1>10. LastOf(r) = IF LastOf(q) = p THEN None ELSE LastOf(q)
  <2>1. LastOf(q) = q[n] /\ (LastOf(q) = p <=> n = 1)
    BY <1>1, <1>2, <1>4 DEF LastOf, n
  <2>2. n # 1 => r[n - 1] = q[n]
    <3>1. n # 1 => n - 1 \in 1..(n - 1) /\ (n - 1) + 1 = n
      BY <1>1
    <3> QED BY <1>3, <3>1
  <2> QED BY <1>3, <1>6, <2>1, <2>2 DEF LastOf
<1> QED BY <1>2, <1>3, <1>7, <1>8, <1>9, <1>10 DEF SlotList, n, r

\* A list starts at a slot or at RT_NULL.
LEMMA ListStart ==
    ASSUME NEW nx, NEW q, NEW p, SlotList(nx, q, p)
    PROVE  p \in Slots \cup {None}
<1>1. CASE q = <<>>
  BY <1>1 DEF SlotList, IsChain
<1>2. CASE q # <<>>
  BY <1>2, PopList, Zenon
<1> QED BY <1>1, <1>2

\* The slot s is put in front of a list.
Pushes(nx, ny, q, p, s) ==
    /\ s \in Slots /\ SlotList(nx, q, p) /\ s \notin Members(q)
    /\ ny[s] = p /\ \A u \in Members(q) : ny[u] = nx[u]

LEMMA PushList ==
    ASSUME NEW nx, NEW ny, NEW q, NEW p, NEW s, Pushes(nx, ny, q, p, s)
    PROVE  /\ SlotList(ny, <<s>> \o q, s)
           /\ Members(<<s>> \o q) = Members(q) \cup {s}
           /\ Len(<<s>> \o q) = Len(q) + 1
           /\ LastOf(<<s>> \o q) = IF q = <<>> THEN s ELSE LastOf(q)
<1> DEFINE n == Len(q)
           r == <<s>> \o q
<1> USE DEF Pushes
<1>1. /\ q \in Seq(Slots) /\ n \in Nat /\ DOMAIN q = 1..n
      /\ \A i \in 1..n : q[i] \in Slots /\ q[i] # s /\ ny[q[i]] = nx[q[i]]
  BY DEF SlotList, Members
<1>2. /\ r \in Seq(Slots) /\ Len(r) = n + 1 /\ DOMAIN r = 1..(n + 1) /\ r[1] = s
      /\ \A i \in 2..(n + 1) : r[i] = q[i - 1]
  <2>1. <<s>> \in Seq(Slots) /\ Len(<<s>>) = 1 /\ <<s>>[1] = s
    OBVIOUS
  <2>2. r \in Seq(Slots) /\ Len(r) = 1 + n
    BY <1>1, <2>1
  <2>3. \A i \in 1..(1 + n) : r[i] = IF i <= 1 THEN <<s>>[i] ELSE q[i - 1]
    BY <1>1, <2>1
  <2> HIDE DEF r, n
  <2> QED BY <1>1, <2>1, <2>2, <2>3
<1>3. \A i, j \in 1..n : q[i] = q[j] => i = j
  BY <1>1 DEF SlotList, Distinct
<1>4. \A i \in 1..n : nx[q[i]] = IF i = n THEN None ELSE q[i + 1]
  BY <1>1, Zenon DEF SlotList, IsChain
<1>5. (q = <<>> <=> n = 0) /\ r # <<>>
  BY <1>1, <1>2, NoSlots
<1>6. p = IF n = 0 THEN None ELSE q[1]
  BY <1>5 DEF SlotList, IsChain
<1> HIDE DEF n, r
<1>7. Distinct(r)
  <2> SUFFICES ASSUME NEW i \in 1..(n + 1), NEW j \in 1..(n + 1), r[i] = r[j] PROVE i = j
    BY <1>2 DEF Distinct
  <2>1. CASE i = 1 \/ j = 1
    BY <1>1, <1>2, <2>1
  <2>2. CASE i # 1 /\ j # 1
    <3>1. i - 1 \in 1..n /\ j - 1 \in 1..n /\ q[i - 1] = q[j - 1]
      BY <1>1, <1>2, <2>2
    <3> QED BY <1>3, <3>1
  <2> QED BY <2>1, <2>2
<1>8. IsChain(ny, r, s)
  <2>1. s = IF r = <<>> THEN None ELSE r[1]
    BY <1>2, <1>5
  <2>2. ASSUME NEW i \in 1..(n + 1) PROVE ny[r[i]] = IF i = n + 1 THEN None ELSE r[i + 1]
    <3>1. CASE i = 1
      BY <1>1, <1>2, <1>6, <3>1
    <3>2. CASE i # 1
      <4>1. i - 1 \in 1..n /\ i \in 2..(n + 1) /\ (i - 1 = n <=> i = n + 1) /\ (i - 1) + 1 = i
        BY <1>1, <3>2
      <4>2. i # n + 1 => i + 1 \in 2..(n + 1) /\ (i + 1) - 1 = i
        BY <1>1
      <4>3. r[i] = q[i - 1] /\ ny[r[i]] = nx[q[i - 1]]
        BY <1>1, <1>2, <4>1
      <4>4. nx[q[i - 1]] = IF i = n + 1 THEN None ELSE q[i]
        BY <1>4, <4>1
      <4> QED BY <1>2, <4>2, <4>3, <4>4
    <3> QED BY <3>1, <3>2
  <2> QED BY <1>2, <2>1, <2>2 DEF IsChain
<1>9. Members(r) = Members(q) \cup {s}
  <2>1. ASSUME NEW u \in Members(r) PROVE u \in Members(q) \cup {s}
    <3>1. PICK i \in 1..(n + 1) : u = r[i]
      BY <1>2 DEF Members
    <3>2. i = 1 \/ (i \in 2..(n + 1) /\ i - 1 \in 1..n)
      BY <1>1
    <3>3. CASE i = 1
      BY <1>2, <3>1, <3>3
    <3>4. CASE i \in 2..(n + 1) /\ i - 1 \in 1..n
      <4>1. u = q[i - 1]
        BY <1>2, <3>1, <3>4, Zenon
      <4> QED BY <1>1, <3>4, <4>1, Zenon DEF Members
    <3> QED BY <3>2, <3>3, <3>4, Zenon
  <2>2. ASSUME NEW u \in Members(q) PROVE u \in Members(r)
    <3>1. PICK i \in 1..n : u = q[i]
      BY <1>1 DEF Members
    <3>2. i + 1 \in 2..(n + 1) /\ i + 1 \in 1..(n + 1) /\ (i + 1) - 1 = i
      BY <1>1
    <3> QED BY <1>2, <3>1, <3>2 DEF Members
  <2>3. s \in Members(r)
    <3>1. 1 \in 1..(n + 1)
      BY <1>1
    <3> QED BY <1>2, <3>1 DEF Members
  <2> QED BY <2>1, <2>2, <2>3
<1>10. LastOf(r) = IF q = <<>> THEN s ELSE LastOf(q)
  <2>1. n # 0 => n + 1 \in 2..(n + 1) /\ (n + 1) - 1 = n
    BY <1>1
  <2>2. LastOf(r) = r[n + 1] /\ (q # <<>> => LastOf(q) = q[n])
    BY <1>2, <1>5 DEF LastOf, n
  <2> QED BY <1>2, <1>5, <2>1, <2>2
<1> QED BY <1>2, <1>7, <1>8, <1>9, <1>10 DEF SlotList, n, r

\* The slot s is linked behind the last one of a list.
Appends(nx, ny, q, p, s) ==
    /\ s \in Slots /\ SlotList(nx, q, p) /\ s \notin Members(q)
    /\ ny[s] = None /\ (q # <<>> => ny[LastOf(q)] = s)
    /\ \A u \in Members(q) \ {LastOf(q)} : ny[u] = nx[u]

LEMMA AppendList ==
    ASSUME NEW nx, NEW ny, NEW q, NEW p, NEW s, Appends(nx, ny, q, p, s)
    PROVE  /\ SlotList(ny, Append(q, s), IF q = <<>> THEN s ELSE p)
           /\ Members(Append(q, s)) = Members(q) \cup {s}
           /\ Len(Append(q, s)) = Len(q) + 1
           /\ LastOf(Append(q, s)) = s
<1> DEFINE n == Len(q)
           r == Append(q, s)
<1> USE DEF Appends
<1>1. /\ q \in Seq(Slots) /\ n \in Nat /\ DOMAIN q = 1..n
      /\ \A i \in 1..n : q[i] \in Slots /\ q[i] # s
  BY DEF SlotList, Members
<1>2. /\ r \in Seq(Slots) /\ Len(r) = n + 1 /\ DOMAIN r = 1..(n + 1) /\ r[n + 1] = s
      /\ \A i \in 1..n : r[i] = q[i]
  BY <1>1
<1>3. \A i, j \in 1..n : q[i] = q[j] => i = j
  BY <1>1 DEF SlotList, Distinct
<1>4. \A i \in 1..n : nx[q[i]] = IF i = n THEN None ELSE q[i + 1]
  BY <1>1, Zenon DEF SlotList, IsChain
<1>5. (q = <<>> <=> n = 0) /\ r # <<>>
  BY <1>1, <1>2, NoSlots
<1>6. q # <<>> => p = q[1] /\ LastOf(q) = q[n]
  BY DEF SlotList, IsChain, LastOf
<1> HIDE DEF n, r
<1>7. Distinct(r)
  <2> SUFFICES ASSUME NEW i \in 1..(n + 1), NEW j \in 1..(n + 1), r[i] = r[j] PROVE i = j
    BY <1>2 DEF Distinct
  <2>1. CASE i = n + 1 \/ j = n + 1
    <3>1. \A k \in 1..(n + 1) : k # n + 1 => k \in 1..n
      BY <1>1
    <3> QED BY <1>1, <1>2, <2>1, <3>1
  <2>2. CASE i # n + 1 /\ j # n + 1
    <3>1. i \in 1..n /\ j \in 1..n /\ q[i] = q[j]
      BY <1>1, <1>2, <2>2
    <3> QED BY <1>3, <3>1
  <2> QED BY <2>1, <2>2
<1>8. IsChain(ny, r, IF q = <<>> THEN s ELSE p)
  <2>1. (IF q = <<>> THEN s ELSE p) = IF r = <<>> THEN None ELSE r[1]
    <3>1. CASE q = <<>>
      BY <1>2, <1>5, <3>1
    <3>2. CASE q # <<>>
      <4>1. 1 \in 1..n
        BY <1>1, <1>5, <3>2
      <4> QED BY <1>2, <1>5, <1>6, <3>2, <4>1
    <3> QED BY <3>1, <3>2
  <2>2. ASSUME NEW i \in 1..(n + 1) PROVE ny[r[i]] = IF i = n + 1 THEN None ELSE r[i + 1]
    <3>1. CASE i = n + 1
      BY <1>2, <3>1
    <3>2. CASE i = n
      BY <1>1, <1>2, <1>5, <1>6, <3>2
    <3>3. CASE i # n + 1 /\ i # n
      <4>1. i \in 1..n /\ n \in 1..n /\ i + 1 \in 1..n /\ i # n
        BY <1>1, <3>3
      <4>2. q # <<>>
        BY <1>5, <4>1
      <4>3. q[i] \in Members(q) \ {LastOf(q)}
        BY <1>1, <1>3, <1>6, <4>1, <4>2 DEF Members
      <4>4. nx[q[i]] = q[i + 1] /\ ny[q[i]] = nx[q[i]] /\ r[i] = q[i] /\ r[i + 1] = q[i + 1]
        BY <1>2, <1>4, <4>1, <4>3
      <4> QED BY <3>3, <4>4
    <3> QED BY <3>1, <3>2, <3>3
  <2> QED BY <1>2, <2>1, <2>2 DEF IsChain
<1>9. Members(r) = Members(q) \cup {s}
  <2>1. ASSUME NEW u \in Members(r) PROVE u \in Members(q) \cup {s}
    <3>1. PICK i \in 1..(n + 1) : u = r[i]
      BY <1>2 DEF Members
    <3>2. i = n + 1 \/ i \in 1..n
      BY <1>1
    <3> QED BY <1>1, <1>2, <3>1, <3>2 DEF Members
  <2>2. ASSUME NEW u \in Members(q) PROVE u \in Members(r)
    <3>1. PICK i \in 1..n : u = q[i]
      BY <1>1 DEF Members
    <3>2. i \in 1..(n + 1)
      BY <1>1
    <3> QED BY <1>2, <3>1, <3>2 DEF Members
  <2>3. s \in Members(r)
    <3>1. n + 1 \in 1..(n + 1)
      BY <1>1
    <3> QED BY <1>2, <3>1 DEF Members
  <2> QED BY <2>1, <2>2, <2>3
<1>10. LastOf(r) = s
  BY <1>2, <1>5 DEF LastOf
<1> QED BY <1>2, <1>7, <1>8, <1>9, <1>10 DEF SlotList, n, r

\* The queue q, moved slot by slot from its head in front of the free list f.
Moved(q, f) ==
    [i \in 1..(Len(q) + Len(f)) |-> IF i <= Len(q) THEN q[Len(q) + 1 - i] ELSE f[i - Len(q)]]

\* Moving a list in front of another reverses it.
LEMMA MoveList ==
    ASSUME NEW nx, NEW ny, NEW q, NEW h, NEW f, NEW p,
           SlotList(nx, q, h), SlotList(nx, f, p), Members(q) \cap Members(f) = {},
           \A i \in DOMAIN q : ny[q[i]] = IF i = 1 THEN p ELSE q[i - 1],
           \A u \in Members(f) : ny[u] = nx[u]
    PROVE  /\ SlotList(ny, Moved(q, f), IF q = <<>> THEN p ELSE LastOf(q))
           /\ Members(Moved(q, f)) = Members(q) \cup Members(f)
<1> DEFINE n == Len(q)
           m == Len(f)
           r == Moved(q, f)
<1>1. /\ q \in Seq(Slots) /\ n \in Nat /\ DOMAIN q = 1..n
      /\ \A i \in 1..n : q[i] \in Slots /\ ny[q[i]] = IF i = 1 THEN p ELSE q[i - 1]
  BY DEF SlotList, Members
<1>2. /\ f \in Seq(Slots) /\ m \in Nat /\ DOMAIN f = 1..m
      /\ \A i \in 1..m : f[i] \in Slots /\ ny[f[i]] = nx[f[i]]
  BY DEF SlotList, Members
<1>3. \A i, j \in 1..n : q[i] = q[j] => i = j
  BY <1>1 DEF SlotList, Distinct
<1>4. \A i, j \in 1..m : f[i] = f[j] => i = j
  BY <1>2 DEF SlotList, Distinct
<1>5. ASSUME NEW i \in 1..n, NEW j \in 1..m PROVE q[i] # f[j]
  <2>1. q[i] \in Members(q) /\ f[j] \in Members(f)
    BY <1>1, <1>2, Zenon DEF Members
  <2> QED BY <2>1
<1>6. \A i \in 1..m : nx[f[i]] = IF i = m THEN None ELSE f[i + 1]
  BY <1>2, Zenon DEF SlotList, IsChain
<1>7. /\ q = <<>> <=> n = 0
      /\ f = <<>> <=> m = 0
  BY <1>1, <1>2, NoSlots
<1>8. p = (IF m = 0 THEN None ELSE f[1]) /\ (n # 0 => LastOf(q) = q[n])
  BY <1>7 DEF SlotList, IsChain, LastOf
<1>9. /\ r = [i \in 1..(n + m) |-> IF i <= n THEN q[n + 1 - i] ELSE f[i - n]]
      /\ \A i \in 1..(n + m) : r[i] = IF i <= n THEN q[n + 1 - i] ELSE f[i - n]
  BY DEF Moved
<1> HIDE DEF n, m, r
<1>10. \A i \in 1..(n + m) : IF i <= n THEN n + 1 - i \in 1..n ELSE i - n \in 1..m
  BY <1>1, <1>2
<1>11. r \in Seq(Slots) /\ Len(r) = n + m /\ DOMAIN r = 1..(n + m)
  <2>1. \A i \in 1..(n + m) : (IF i <= n THEN q[n + 1 - i] ELSE f[i - n]) \in Slots
    BY <1>1, <1>2, <1>10
  <2>2. n + m \in Nat
    BY <1>1, <1>2
  <2>3. r \in [1..(n + m) -> Slots]
    BY <1>9, <2>1
  <2> QED BY <2>2, <2>3
<1>12. r = <<>> <=> n + m = 0
  BY <1>11, NoSlots, Zenon
<1>13. Distinct(r)
  <2> SUFFICES ASSUME NEW i \in 1..(n + m), NEW j \in 1..(n + m), r[i] = r[j] PROVE i = j
    BY <1>11 DEF Distinct
  <2>1. CASE i <= n /\ j <= n
    <3>1. n + 1 - i = n + 1 - j
      BY <1>3, <1>9, <1>10, <2>1
    <3> QED BY <1>1, <3>1
  <2>2. CASE ~ (i <= n) /\ ~ (j <= n)
    <3>1. i - n = j - n
      BY <1>4, <1>9, <1>10, <2>2
    <3> QED BY <1>1, <3>1
  <2>3. CASE i <= n /\ ~ (j <= n)
    BY <1>5, <1>9, <1>10, <2>3
  <2>4. CASE ~ (i <= n) /\ j <= n
    BY <1>5, <1>9, <1>10, <2>4
  <2> QED BY <2>1, <2>2, <2>3, <2>4
<1>14. (IF q = <<>> THEN p ELSE LastOf(q)) = IF r = <<>> THEN None ELSE r[1]
  <2>1. CASE n = 0
    <3>1. n + m = m /\ (m # 0 => 1 \in 1..(n + m) /\ ~ (1 <= n) /\ 1 - n = 1)
      BY <1>1, <1>2, <2>1
    <3> QED BY <1>7, <1>8, <1>9, <1>12, <2>1, <3>1
  <2>2. CASE n # 0
    <3>1. n + m # 0 /\ 1 \in 1..(n + m) /\ 1 <= n /\ n + 1 - 1 = n
      BY <1>1, <1>2, <2>2
    <3> QED BY <1>7, <1>8, <1>9, <1>12, <2>2, <3>1
  <2> QED BY <2>1, <2>2
<1>15. ASSUME NEW i \in 1..(n + m) PROVE ny[r[i]] = IF i = n + m THEN None ELSE r[i + 1]
  <2>1. CASE i < n
    <3>1. /\ i <= n /\ n + 1 - i \in 1..n /\ n + 1 - i # 1 /\ (n + 1 - i) - 1 = n + 1 - (i + 1)
          /\ i + 1 \in 1..(n + m) /\ i + 1 <= n /\ i # n + m
      BY <1>1, <1>2, <2>1
    <3>2. r[i] = q[n + 1 - i] /\ r[i + 1] = q[n + 1 - (i + 1)]
      BY <1>9, <3>1
    <3> QED BY <1>1, <3>1, <3>2
  <2>2. CASE i = n
    <3>1. i <= n /\ n + 1 - i = 1 /\ 1 \in 1..n /\ (i = n + m <=> m = 0)
      BY <1>1, <1>2, <2>2
    <3>2. r[i] = q[1] /\ ny[q[1]] = p
      BY <1>1, <1>9, <3>1
    <3>3. CASE m = 0
      BY <1>8, <3>1, <3>2, <3>3
    <3>4. CASE m # 0
      <4>1. i + 1 \in 1..(n + m) /\ ~ (i + 1 <= n) /\ (i + 1) - n = 1
        BY <1>1, <1>2, <2>2, <3>4
      <4>2. r[i + 1] = f[1]
        BY <1>9, <4>1
      <4> QED BY <1>8, <3>1, <3>2, <3>4, <4>2
    <3> QED BY <3>3, <3>4
  <2>3. CASE i > n
    <3>1. ~ (i <= n) /\ i - n \in 1..m /\ (i - n = m <=> i = n + m) /\ (i - n) + 1 = (i + 1) - n
      BY <1>1, <1>2, <2>3
    <3>2. i # n + m => i + 1 \in 1..(n + m) /\ ~ (i + 1 <= n)
      BY <1>1, <1>2, <2>3
    <3>3. r[i] = f[i - n] /\ (i # n + m => r[i + 1] = f[(i - n) + 1])
      BY <1>9, <3>1, <3>2
    <3> QED BY <1>2, <1>6, <3>1, <3>3
  <2> QED BY <1>1, <2>1, <2>2, <2>3
<1>16. IsChain(ny, r, IF q = <<>> THEN p ELSE LastOf(q))
  BY <1>11, <1>14, <1>15 DEF IsChain
<1>17. Members(r) = Members(q) \cup Members(f)
  <2>1. ASSUME NEW u \in Members(r) PROVE u \in Members(q) \cup Members(f)
    <3>1. PICK i \in 1..(n + m) : u = r[i]
      BY <1>11 DEF Members
    <3> QED BY <1>1, <1>2, <1>9, <1>10, <3>1 DEF Members
  <2>2. ASSUME NEW u \in Members(q) PROVE u \in Members(r)
    <3>1. PICK i \in 1..n : u = q[i]
      BY <1>1 DEF Members
    <3>2. n + 1 - i \in 1..(n + m) /\ n + 1 - i <= n /\ n + 1 - (n + 1 - i) = i
      BY <1>1, <1>2
    <3>3. r[n + 1 - i] = u
      BY <1>9, <3>1, <3>2
    <3> QED BY <1>11, <3>2, <3>3 DEF Members
  <2>3. ASSUME NEW u \in Members(f) PROVE u \in Members(r)
    <3>1. PICK i \in 1..m : u = f[i]
      BY <1>2 DEF Members
    <3>2. n + i \in 1..(n + m) /\ ~ (n + i <= n) /\ (n + i) - n = i
      BY <1>1, <1>2
    <3>3. r[n + i] = u
      BY <1>9, <3>1, <3>2
    <3> QED BY <1>11, <3>2, <3>3 DEF Members
  <2> QED BY <2>1, <2>2, <2>3
<1> QED BY <1>11, <1>13, <1>16, <1>17 DEF SlotList, r

-----------------------------------------------------------------------------
(* The inductive invariant.                                                *)

Calls == [op : {"idle", "send", "urgent", "recv"}, at : {"-", "wait", "copy", "link"},
          left : Waits, msg : Msgs \cup {None}, slot : Slots \cup {None}]

\* A call waits in rt_mq_send_wait or rt_mq_recv without a slot, or holds one while it
\* copies and until it has linked it; one that sends has its message.
CallOK(c) ==
    /\ c \in Calls
    /\ c.op = "idle" => c = Idle
    /\ c.op # "idle" => c.at # "-"
    /\ c.at = "wait" => c.op \in {"send", "recv"}
    /\ c.slot # None <=> c.at \in {"copy", "link"}
    /\ c.op \in {"send", "urgent"} => c.msg \in Msgs

\* A thread that is not in a list runs and holds no error; a suspended one has not been
\* woken with an error, and only a suspended one has a timer.
CallInv ==
    \A t \in Threads :
        /\ CallOK(call[t])
        /\ call[t].at # "wait" => stat[t] = "ready" /\ error[t] = "EOK"
        /\ stat[t] = "suspend" => error[t] = "EOK"
        /\ timer[t] => stat[t] = "suspend"

\* The threads suspended in a call of one kind.
Suspended(op) == {t \in Threads : stat[t] = "suspend" /\ call[t].op = op}

\* The two lists are the suspended receivers and the suspended senders, each once.
ListInv ==
    /\ Distinct(receivers) /\ Members(receivers) = Suspended("recv")
    /\ Distinct(senders) /\ Members(senders) = Suspended("send")

\* The state of the threads and the lists they wait in.
ThreadInv ==
    /\ ThreadTypeOK
    /\ receivers \in Seq(Threads) /\ senders \in Seq(Threads)
    /\ call \in [Threads -> Calls]
    /\ CallInv /\ ListInv

\* Whose slot is whose: the calls share none, hold none of the free list f and the queue q,
\* and hold all that are in neither.
HeldInv(f, q) ==
    /\ Members(f) \cup Members(q) \subseteq Slots /\ Members(f) \cap Members(q) = {}
    /\ \A t \in Threads : call[t].slot \notin Members(f) \cup Members(q)
    /\ \A s \in Slots : s \in Members(f) \cup Members(q) \/ \E t \in Threads : call[t].slot = s
    /\ \A t, u \in Threads : call[t].slot = call[u].slot /\ call[t].slot # None => t = u

\* A message about to be linked at the tail ends with RT_NULL.
EndsInv ==
    \A t \in Threads : call[t].op = "send" /\ call[t].at = "link" => next[call[t].slot] = None

\* The free list is f and the queue q.
LinkInv(f, q) ==
    /\ next \in [Slots -> Slots \cup {None}]
    /\ SlotList(next, f, free) /\ SlotList(next, q, head)
    /\ entry = Len(q) /\ tail = LastOf(q)
    /\ HeldInv(f, q) /\ EndsInv

\* The bytes of the slots.
DataInv == data \in [Slots -> Msgs] /\ got \in Msgs /\ CopyUndisturbed

-----------------------------------------------------------------------------
(* The threads and their lists.                                            *)

\* A thread that is running is in no list and has no timer.
LEMMA RunningInNoList ==
    ASSUME ThreadInv, NEW t \in Threads, stat[t] = "ready"
    PROVE  ~ timer[t] /\ t \notin Members(receivers) /\ t \notin Members(senders)
<1>1. ~ timer[t]
  BY DEF ThreadInv, CallInv
<1>2. t \notin Suspended("recv") /\ t \notin Suspended("send")
  BY DEF Suspended
<1> QED BY <1>1, <1>2 DEF ThreadInv, ListInv

\* The calls a thread can be put in: none, ...
LEMMA IdleOK == CallOK(Idle) /\ Idle.op = "idle" /\ Idle.at = "-" /\ Idle.slot = None
<1>1. Idle.op = "idle" /\ Idle.at = "-" /\ Idle.slot = None
  BY DEF Idle
<1>2. Idle \in Calls
  BY DEF Idle, Calls, Waits
<1> QED BY <1>1, <1>2 DEF CallOK

\* ... one that waits, ...
LEMMA WaitOK ==
    ASSUME NEW op \in {"send", "recv"}, NEW w \in Waits, NEW m \in Msgs \cup {None},
           op = "send" => m \in Msgs
    PROVE  CallOK([op |-> op, at |-> "wait", left |-> w, msg |-> m, slot |-> None])
BY DEF CallOK, Calls

\* ... or one that copies a message between its slot and the caller.
LEMMA CopyOK ==
    ASSUME NEW op \in {"send", "urgent", "recv"}, NEW a \in {"copy", "link"}, NEW m \in Msgs,
           NEW s \in Slots
    PROVE  CallOK([op |-> op, at |-> a, left |-> "no", msg |-> m, slot |-> s])
<1>1. s # None
  BY QueueAssumption DEF Slots
<1> QED BY <1>1 DEF CallOK, Calls, Waits

\* A running thread goes on to c, which does not wait, without waking anybody.
LEMMA MoveKeeps ==
    ASSUME ThreadInv, NEW t \in Threads, NEW c, CallOK(c), c.at # "wait", stat[t] = "ready",
           error' = [error EXCEPT ![t] = "EOK"], call' = [call EXCEPT ![t] = c],
           UNCHANGED <<stat, timer, receivers, senders>>
    PROVE  ThreadInv'
<1>1. call' \in [Threads -> Calls] /\ call'[t] = c /\ \A u \in Threads \ {t} : call'[u] = call[u]
  BY DEF ThreadInv, CallOK
<1>2. error'[t] = "EOK" /\ \A u \in Threads \ {t} : error'[u] = error[u]
  BY DEF ThreadInv, ThreadTypeOK
<1>3. ThreadTypeOK'
  BY DEF ThreadInv, ThreadTypeOK, Errors
<1>4. CallInv'
  <2> SUFFICES ASSUME NEW u \in Threads
               PROVE  /\ CallOK(call'[u])
                      /\ call'[u].at # "wait" => stat[u] = "ready" /\ error'[u] = "EOK"
                      /\ stat[u] = "suspend" => error'[u] = "EOK"
                      /\ timer[u] => stat[u] = "suspend"
    BY DEF CallInv, CallOK
  <2>1. CASE u = t
    BY <1>1, <1>2, <2>1 DEF ThreadInv, CallInv
  <2>2. CASE u # t
    BY <1>1, <1>2, <2>2, Zenon DEF ThreadInv, CallInv
  <2> QED BY <2>1, <2>2
<1>5. ASSUME NEW op PROVE Suspended(op)' = Suspended(op)
  BY <1>1 DEF Suspended
<1>6. ListInv'
  BY <1>5, Zenon DEF ThreadInv, ListInv
<1> QED BY <1>1, <1>3, <1>4, <1>6 DEF ThreadInv

\* The same for a section that leaves the threads alone.
LEMMA StayKeeps ==
    ASSUME ThreadInv, NEW t \in Threads, NEW c, CallOK(c), c.at # "wait", stat[t] = "ready",
           error[t] = "EOK", call' = [call EXCEPT ![t] = c],
           UNCHANGED <<threadVars, receivers, senders>>
    PROVE  ThreadInv'
<1>1. error' = [error EXCEPT ![t] = "EOK"]
  BY DEF threadVars, ThreadInv, ThreadTypeOK
<1> QED BY <1>1, MoveKeeps, Zenon DEF threadVars

\* A section that suspends the caller in one of the lists.
LEMMA WaitKeeps ==
    ASSUME ThreadInv, NEW t \in Threads, NEW op \in {"send", "recv"}, stat[t] = "ready",
           NEW w \in Waits, NEW m \in Msgs \cup {None}, op = "send" => m \in Msgs,
           Suspend(t, w = "timed"), At(t, op, "wait", w, m, None),
           IF op = "recv" THEN receivers' = ListSuspend(receivers, t, Prio) /\ UNCHANGED senders
           ELSE senders' = ListSuspend(senders, t, Prio) /\ UNCHANGED receivers
    PROVE  ThreadInv'
<1> DEFINE c == [op |-> op, at |-> "wait", left |-> w, msg |-> m, slot |-> None]
<1>1. t \notin Members(receivers) /\ t \notin Members(senders)
  BY RunningInNoList
<1>2. CallOK(c) /\ c.op = op /\ c.at = "wait" /\ call' = [call EXCEPT ![t] = c]
  BY WaitOK DEF At
<1> HIDE DEF c
<1>3. call' \in [Threads -> Calls] /\ call'[t] = c /\ \A u \in Threads \ {t} : call'[u] = call[u]
  BY <1>2 DEF ThreadInv, CallOK
<1>4. /\ stat'[t] = "suspend" /\ error'[t] = "EOK" /\ timer'[t] = (w = "timed")
      /\ \A u \in Threads \ {t} : stat'[u] = stat[u] /\ error'[u] = error[u] /\ timer'[u] = timer[u]
  BY DEF ThreadInv, ThreadTypeOK, Suspend
<1>5. ThreadTypeOK'
  BY DEF ThreadInv, ThreadTypeOK, Errors, Suspend
<1>6. CallInv'
  <2> SUFFICES ASSUME NEW u \in Threads
               PROVE  /\ CallOK(call'[u])
                      /\ call'[u].at # "wait" => stat'[u] = "ready" /\ error'[u] = "EOK"
                      /\ stat'[u] = "suspend" => error'[u] = "EOK"
                      /\ timer'[u] => stat'[u] = "suspend"
    BY DEF CallInv, CallOK
  <2>1. CASE u = t
    BY <1>2, <1>3, <1>4, <2>1, Zenon
  <2>2. CASE u # t
    BY <1>3, <1>4, <2>2, Zenon DEF ThreadInv, CallInv
  <2> QED BY <2>1, <2>2
<1>7. /\ Suspended(op)' = Suspended(op) \cup {t}
      /\ \A o : o # op => Suspended(o)' = Suspended(o)
  BY <1>2, <1>3, <1>4 DEF Suspended
<1>8. CASE op = "recv"
  <2>1. /\ receivers' \in Seq(Threads) /\ Distinct(receivers')
        /\ Members(receivers') = Members(receivers) \cup {t}
    BY <1>1, <1>8, ListSuspendProperties, QueueAssumption DEF ThreadInv, ListInv
  <2> QED BY <1>3, <1>5, <1>6, <1>7, <1>8, <2>1 DEF ThreadInv, ListInv
<1>9. CASE op = "send"
  <2>1. /\ senders' \in Seq(Threads) /\ Distinct(senders')
        /\ Members(senders') = Members(senders) \cup {t}
    <3>1. senders \in Seq(Threads) /\ Distinct(senders) /\ t \notin Members(senders)
      BY <1>1 DEF ThreadInv, ListInv
    <3> QED BY <1>1, <1>9, <3>1, ListSuspendProperties, QueueAssumption
  <2> QED BY <1>3, <1>5, <1>6, <1>7, <1>9, <2>1 DEF ThreadInv, ListInv
<1> QED BY <1>8, <1>9

\* Resuming the first thread of a list, if there is one, while the caller leaves.
LEMMA WakeKeeps ==
    ASSUME ThreadInv, NEW t \in Threads, stat[t] = "ready", error[t] = "EOK",
           call' = [call EXCEPT ![t] = Idle],
           \/ WakeReceiver /\ UNCHANGED senders
           \/ WakeSender /\ UNCHANGED receivers
    PROVE  ThreadInv'
<1>1. call' \in [Threads -> Calls] /\ call'[t] = Idle /\ \A u \in Threads \ {t} : call'[u] = call[u]
  BY IdleOK DEF ThreadInv, CallOK
<1>2. CASE UNCHANGED <<threadVars, receivers, senders>>
  BY <1>2, IdleOK, StayKeeps, Zenon
<1>3. ASSUME NEW u \in Threads, Resume(u), NEW o, u \in Suspended(o)
      PROVE  /\ ThreadTypeOK' /\ CallInv'
             /\ Suspended(o)' = Suspended(o) \ {u}
             /\ \A p : p # o => Suspended(p)' = Suspended(p)
  <2>1. u # t /\ stat[u] = "suspend" /\ call[u].op = o
    BY <1>3 DEF Suspended
  <2>2. /\ stat'[u] = "ready" /\ ~ timer'[u] /\ error' = error
        /\ \A v \in Threads \ {u} : stat'[v] = stat[v] /\ timer'[v] = timer[v]
    BY <1>3 DEF ThreadInv, ThreadTypeOK, Resume
  <2>3. ThreadTypeOK'
    BY <1>3 DEF ThreadInv, ThreadTypeOK, Resume
  <2>4. CallInv'
    <3> SUFFICES ASSUME NEW v \in Threads
                 PROVE  /\ CallOK(call'[v])
                        /\ call'[v].at # "wait" => stat'[v] = "ready" /\ error'[v] = "EOK"
                        /\ stat'[v] = "suspend" => error'[v] = "EOK"
                        /\ timer'[v] => stat'[v] = "suspend"
      BY DEF CallInv, CallOK
    <3>1. CASE v = t
      BY <1>1, <2>1, <2>2, <3>1, IdleOK, Zenon DEF ThreadInv, CallInv
    <3>2. CASE v = u
      BY <1>1, <2>1, <2>2, <3>2 DEF ThreadInv, CallInv
    <3>3. CASE v # t /\ v # u
      BY <1>1, <2>2, <3>3, Zenon DEF ThreadInv, CallInv
    <3> QED BY <3>1, <3>2, <3>3
  <2>5. /\ Suspended(o)' = Suspended(o) \ {u}
        /\ \A p : p # o => Suspended(p)' = Suspended(p)
    BY <1>1, <2>1, <2>2 DEF Suspended
  <2> QED BY <2>3, <2>4, <2>5
<1>4. CASE /\ receivers # <<>> /\ Resume(Head(receivers))
           /\ receivers' = Tail(receivers) /\ UNCHANGED senders
  <2> DEFINE u == Head(receivers)
  <2>1. /\ u \in Threads /\ u \in Suspended("recv")
        /\ receivers' \in Seq(Threads) /\ Distinct(receivers')
        /\ Members(receivers') = Members(receivers) \ {u}
    BY <1>4, ListTailProperties DEF ThreadInv, ListInv
  <2>2. Resume(u)
    BY <1>4
  <2> HIDE DEF u
  <2>3. /\ ThreadTypeOK' /\ CallInv'
        /\ Suspended("recv")' = Suspended("recv") \ {u} /\ Suspended("send")' = Suspended("send")
    BY <1>3, <2>1, <2>2
  <2> QED BY <1>1, <1>4, <2>1, <2>3, Zenon DEF ThreadInv, ListInv
<1>5. CASE /\ senders # <<>> /\ Resume(Head(senders))
           /\ senders' = Tail(senders) /\ UNCHANGED receivers
  <2> DEFINE u == Head(senders)
  <2>1. /\ u \in Threads /\ u \in Suspended("send")
        /\ senders' \in Seq(Threads) /\ Distinct(senders')
        /\ Members(senders') = Members(senders) \ {u}
    BY <1>5, ListTailProperties DEF ThreadInv, ListInv
  <2>2. Resume(u)
    BY <1>5
  <2> HIDE DEF u
  <2>3. /\ ThreadTypeOK' /\ CallInv'
        /\ Suspended("send")' = Suspended("send") \ {u} /\ Suspended("recv")' = Suspended("recv")
    BY <1>3, <2>1, <2>2
  <2> QED BY <1>1, <1>5, <2>1, <2>3, Zenon DEF ThreadInv, ListInv
<1> QED BY <1>2, <1>4, <1>5 DEF WakeReceiver, WakeSender, ResumeFirst, Rest

\* A suspended thread waits in one of the two calls that have a timeout.
LEMMA SuspendedWaits ==
    ASSUME ThreadInv, NEW t \in Threads, stat[t] = "suspend"
    PROVE  call[t].at = "wait" /\ call[t].op \in {"send", "recv"} /\ error[t] = "EOK"
BY DEF ThreadInv, CallInv, CallOK

\* A thread leaves the suspended ones with an error, its call untouched.
LEMMA ErrorKeeps ==
    ASSUME ThreadInv, NEW S, \A u \in S : u \in Threads /\ stat[u] = "suspend", UNCHANGED call,
           NEW e \in Errors,
           \A u \in Threads : IF u \in S THEN stat'[u] = "ready" /\ error'[u] = e /\ ~ timer'[u]
                              ELSE stat'[u] = stat[u] /\ error'[u] = error[u] /\ timer'[u] = timer[u]
    PROVE  CallInv' /\ \A o : Suspended(o)' = Suspended(o) \ S
<1>1. CallInv'
  <2> SUFFICES ASSUME NEW v \in Threads
               PROVE  /\ CallOK(call[v])
                      /\ call[v].at # "wait" => stat'[v] = "ready" /\ error'[v] = "EOK"
                      /\ stat'[v] = "suspend" => error'[v] = "EOK"
                      /\ timer'[v] => stat'[v] = "suspend"
    BY DEF CallInv, CallOK
  <2>1. CASE v \in S
    <3>1. stat'[v] = "ready" /\ ~ timer'[v] /\ call[v].at = "wait"
      BY <2>1, SuspendedWaits
    <3> QED BY <3>1 DEF ThreadInv, CallInv
  <2>2. CASE v \notin S
    BY <2>2, Zenon DEF ThreadInv, CallInv
  <2> QED BY <2>1, <2>2
<1>2. ASSUME NEW o PROVE Suspended(o)' = Suspended(o) \ S
  <2>1. \A u \in Threads : stat'[u] = "suspend" <=> stat[u] = "suspend" /\ u \notin S
    OBVIOUS
  <2> QED BY <2>1, Zenon DEF Suspended
<1> QED BY <1>1, <1>2

\* rt_thread_timeout takes a suspended thread out of the list it is in.
LEMMA TimeoutKeeps ==
    ASSUME ThreadInv, NEW t \in Threads, Timeout(t)
    PROVE  ThreadInv'
<1>1. stat[t] = "suspend"
  BY DEF Timeout, ThreadTimeout, ThreadInv, CallInv
<1>2. call[t].op \in {"send", "recv"} /\ UNCHANGED call
  BY <1>1, SuspendedWaits DEF Timeout
<1>3. /\ stat'[t] = "ready" /\ error'[t] = "ETIMEOUT" /\ ~ timer'[t]
      /\ \A u \in Threads \ {t} : stat'[u] = stat[u] /\ error'[u] = error[u] /\ timer'[u] = timer[u]
  BY DEF Timeout, ThreadTimeout, ThreadInv, ThreadTypeOK
<1>4. ThreadTypeOK'
  BY DEF Timeout, ThreadTimeout, ThreadInv, ThreadTypeOK, Errors
<1>5. CallInv' /\ \A o : Suspended(o)' = Suspended(o) \ {t}
  <2>1. "ETIMEOUT" \in Errors /\ \A u \in {t} : u \in Threads /\ stat[u] = "suspend"
    BY <1>1 DEF Errors
  <2>2. \A u \in Threads : IF u \in {t} THEN stat'[u] = "ready" /\ error'[u] = "ETIMEOUT" /\ ~ timer'[u]
                           ELSE stat'[u] = stat[u] /\ error'[u] = error[u] /\ timer'[u] = timer[u]
    BY <1>3, Zenon
  <2> QED BY <1>2, <2>1, <2>2, ErrorKeeps, Zenon
<1>6. \A o : o # call[t].op => t \notin Suspended(o)
  BY DEF Suspended
<1>7. CASE call[t].op = "recv"
  <2>1. /\ receivers' \in Seq(Threads) /\ Distinct(receivers')
        /\ Members(receivers') = Members(receivers) \ {t}
    <3>1. t \in Members(receivers)
      BY <1>1, <1>7 DEF ThreadInv, ListInv, Suspended
    <3> QED BY <1>7, <3>1, ListRemoveProperties DEF Timeout, ThreadInv, ListInv
  <2>2. t \notin Suspended("send") /\ senders' = senders
    BY <1>6, <1>7 DEF Timeout
  <2> QED BY <1>2, <1>4, <1>5, <2>1, <2>2, Zenon DEF ThreadInv, ListInv
<1>8. CASE call[t].op = "send"
  <2>1. /\ senders' \in Seq(Threads) /\ Distinct(senders')
        /\ Members(senders') = Members(senders) \ {t}
    <3>1. t \in Members(senders)
      BY <1>1, <1>8 DEF ThreadInv, ListInv, Suspended
    <3> QED BY <1>8, <3>1, ListRemoveProperties DEF Timeout, ThreadInv, ListInv
  <2>2. t \notin Suspended("recv") /\ receivers' = receivers
    BY <1>6, <1>8 DEF Timeout
  <2> QED BY <1>2, <1>4, <1>5, <2>1, <2>2, Zenon DEF ThreadInv, ListInv
<1> QED BY <1>2, <1>7, <1>8

\* rt_ipc_list_resume_all, or one turn of it.
LEMMA ResumeErrorKeeps ==
    ASSUME ThreadInv, NEW S, \A u \in S : u \in Threads /\ stat[u] = "suspend", UNCHANGED call,
           ResumeError(S)
    PROVE  ThreadTypeOK' /\ CallInv' /\ \A o : Suspended(o)' = Suspended(o) \ S
<1>1. ThreadTypeOK'
  BY ResumeErrorType DEF ThreadInv
<1>2. \A u \in Threads : IF u \in S THEN stat'[u] = "ready" /\ error'[u] = "ERROR" /\ ~ timer'[u]
                         ELSE stat'[u] = stat[u] /\ error'[u] = error[u] /\ timer'[u] = timer[u]
  BY Zenon DEF ResumeError
<1>3. "ERROR" \in Errors
  BY DEF Errors
<1> QED BY <1>1, <1>2, <1>3, ErrorKeeps, Zenon

\* A reset wakes everybody with an error and leaves both lists empty.
LEMMA ResetKeeps ==
    ASSUME ThreadInv, Reset
    PROVE  ThreadInv'
<1> DEFINE S == Members(receivers) \cup Members(senders)
<1>1. ResumeError(S) /\ call' = call /\ receivers' = <<>> /\ senders' = <<>>
  BY DEF Reset
<1>2. S = Suspended("recv") \cup Suspended("send")
  BY DEF ThreadInv, ListInv
<1> HIDE DEF S
<1>3. \A u \in S : u \in Threads /\ stat[u] = "suspend"
  BY <1>2 DEF Suspended
<1>4. ThreadTypeOK' /\ CallInv' /\ \A o : Suspended(o)' = Suspended(o) \ S
  BY <1>1, <1>3, ResumeErrorKeeps, Zenon
<1>5. Suspended("recv")' = {} /\ Suspended("send")' = {}
  BY <1>2, <1>4
<1> QED BY <1>1, <1>4, <1>5, EmptyListProperties, Zenon DEF ThreadInv, ListInv

\* A deletion wakes the first thread of a list with an error.
LEMMA DeleteKeeps ==
    ASSUME ThreadInv, DeleteResume
    PROVE  ThreadInv'
<1>1. CASE /\ receivers # <<>> /\ ResumeError({Head(receivers)})
           /\ receivers' = Tail(receivers) /\ UNCHANGED senders
  <2> DEFINE u == Head(receivers)
  <2>1. /\ u \in Threads /\ u \in Suspended("recv")
        /\ receivers' \in Seq(Threads) /\ Distinct(receivers')
        /\ Members(receivers') = Members(receivers) \ {u}
    BY <1>1, ListTailProperties DEF ThreadInv, ListInv
  <2>2. ResumeError({u}) /\ call' = call
    BY <1>1 DEF DeleteResume
  <2> HIDE DEF u
  <2>3. /\ \A v \in {u} : v \in Threads /\ stat[v] = "suspend"
        /\ u \notin Suspended("send")
    BY <2>1 DEF Suspended
  <2>4. ThreadTypeOK' /\ CallInv' /\ \A o : Suspended(o)' = Suspended(o) \ {u}
    BY <2>2, <2>3, ResumeErrorKeeps, Zenon
  <2> QED BY <1>1, <2>1, <2>2, <2>3, <2>4, Zenon DEF ThreadInv, ListInv
<1>2. CASE /\ senders # <<>> /\ ResumeError({Head(senders)})
           /\ senders' = Tail(senders) /\ UNCHANGED receivers
  <2> DEFINE u == Head(senders)
  <2>1. /\ u \in Threads /\ u \in Suspended("send")
        /\ senders' \in Seq(Threads) /\ Distinct(senders')
        /\ Members(senders') = Members(senders) \ {u}
    BY <1>2, ListTailProperties DEF ThreadInv, ListInv
  <2>2. ResumeError({u}) /\ call' = call
    BY <1>2 DEF DeleteResume
  <2> HIDE DEF u
  <2>3. /\ \A v \in {u} : v \in Threads /\ stat[v] = "suspend"
        /\ u \notin Suspended("recv")
    BY <2>1 DEF Suspended
  <2>4. ThreadTypeOK' /\ CallInv' /\ \A o : Suspended(o)' = Suspended(o) \ {u}
    BY <2>2, <2>3, ResumeErrorKeeps, Zenon
  <2> QED BY <1>2, <2>1, <2>2, <2>3, <2>4, Zenon DEF ThreadInv, ListInv
<1>3. CASE UNCHANGED <<threadVars, receivers, senders>>
  BY <1>3 DEF DeleteResume, threadVars, ThreadInv, ThreadTypeOK, CallInv, CallOK, ListInv, Suspended
<1> QED BY <1>1, <1>2, <1>3 DEF DeleteResume

-----------------------------------------------------------------------------
(* The slots.                                                              *)

\* Only the call of t changes, to c.
Becomes(t, c) == call \in [Threads -> Calls] /\ call' = [call EXCEPT ![t] = c]

LEMMA BecomesElsewhere ==
    ASSUME NEW t \in Threads, NEW c, Becomes(t, c)
    PROVE  call'[t] = c /\ \A u \in Threads \ {t} : call'[u] = call[u]
BY DEF Becomes

\* The call keeps the slot it holds, or goes on holding none.
LEMMA HeldSame ==
    ASSUME NEW f, NEW q, HeldInv(f, q), NEW t \in Threads, NEW c, Becomes(t, c),
           c.slot = call[t].slot
    PROVE  HeldInv(f, q)'
<1>1. \A u \in Threads : call'[u].slot = call[u].slot
  BY BecomesElsewhere
<1>2. \A s \in Slots : s \in Members(f) \cup Members(q) \/ \E u \in Threads : call'[u].slot = s
  <2> SUFFICES ASSUME NEW s \in Slots, s \notin Members(f) \cup Members(q)
               PROVE  \E u \in Threads : call'[u].slot = s
    OBVIOUS
  <2>1. PICK u \in Threads : call[u].slot = s
    BY DEF HeldInv
  <2> QED BY <1>1, <2>1
<1>3. \A u \in Threads : call'[u].slot \notin Members(f) \cup Members(q)
  BY <1>1 DEF HeldInv
<1>4. \A u, v \in Threads : call'[u].slot = call'[v].slot /\ call'[u].slot # None => u = v
  BY <1>1 DEF HeldInv
<1> QED BY <1>2, <1>3, <1>4, Zenon DEF HeldInv

\* The call takes the slot s out of a list.
LEMMA HeldTaken ==
    ASSUME NEW f, NEW q, HeldInv(f, q), NEW g, NEW r, NEW s \in Slots,
           s \in Members(f) \cup Members(q), Members(g) \cap Members(r) = {},
           Members(g) \cup Members(r) = (Members(f) \cup Members(q)) \ {s},
           NEW t \in Threads, NEW c, Becomes(t, c), call[t].slot = None, c.slot = s
    PROVE  HeldInv(g, r)'
<1>1. call'[t].slot = s /\ \A u \in Threads \ {t} : call'[u].slot = call[u].slot
  BY BecomesElsewhere
<1>2. None \notin Slots
  BY QueueAssumption DEF Slots
<1>3. \A u \in Threads : call[u].slot # s
  BY DEF HeldInv
<1>4. \A u \in Threads : call'[u].slot \notin Members(g) \cup Members(r)
  BY <1>1 DEF HeldInv
<1>5. ASSUME NEW x \in Slots
      PROVE  x \in Members(g) \cup Members(r) \/ \E u \in Threads : call'[u].slot = x
  <2>1. CASE x = s
    BY <1>1, <2>1
  <2>2. CASE x # s
    <3>1. x \in Members(f) \cup Members(q) \/ \E u \in Threads : call[u].slot = x
      BY DEF HeldInv
    <3>2. ASSUME NEW u \in Threads, call[u].slot = x PROVE call'[u].slot = x
      BY <1>1, <1>2, <3>2
    <3> QED BY <2>2, <3>1, <3>2
  <2> QED BY <2>1, <2>2
<1>6. ASSUME NEW u \in Threads, NEW v \in Threads, call'[u].slot = call'[v].slot,
             call'[u].slot # None
      PROVE  u = v
  <2>1. CASE u = t \/ v = t
    BY <1>1, <1>3, <1>6, <2>1
  <2>2. CASE u # t /\ v # t
    BY <1>1, <1>6, <2>2 DEF HeldInv
  <2> QED BY <2>1, <2>2
<1> QED BY <1>4, <1>5, <1>6 DEF HeldInv

\* The call links its slot s into a list.
LEMMA HeldLinked ==
    ASSUME NEW f, NEW q, HeldInv(f, q), NEW g, NEW r, NEW s \in Slots,
           Members(g) \cap Members(r) = {},
           Members(g) \cup Members(r) = (Members(f) \cup Members(q)) \cup {s},
           NEW t \in Threads, Becomes(t, Idle), call[t].slot = s
    PROVE  HeldInv(g, r)'
<1>1. call'[t].slot = None /\ \A u \in Threads \ {t} : call'[u].slot = call[u].slot
  BY BecomesElsewhere, IdleOK
<1>2. None \notin Slots
  BY QueueAssumption DEF Slots
<1>3. \A u \in Threads \ {t} : call[u].slot # s
  BY <1>2 DEF HeldInv
<1>4. ASSUME NEW u \in Threads PROVE call'[u].slot \notin Members(g) \cup Members(r)
  <2>1. CASE u = t
    <3>1. None \notin Members(f) \cup Members(q)
      <4>1. Members(f) \cup Members(q) \subseteq Slots
        BY DEF HeldInv
      <4> QED BY <1>2, <4>1
    <3> QED BY <1>1, <1>2, <2>1, <3>1
  <2>2. CASE u # t
    BY <1>1, <1>3, <2>2 DEF HeldInv
  <2> QED BY <2>1, <2>2
<1>5. ASSUME NEW x \in Slots
      PROVE  x \in Members(g) \cup Members(r) \/ \E u \in Threads : call'[u].slot = x
  <2>1. CASE x = s
    BY <2>1
  <2>2. CASE x # s
    <3>1. x \in Members(f) \cup Members(q) \/ \E u \in Threads : call[u].slot = x
      BY DEF HeldInv
    <3>2. ASSUME NEW u \in Threads, call[u].slot = x PROVE call'[u].slot = x
      BY <1>1, <2>2, <3>2
    <3> QED BY <3>1, <3>2
  <2> QED BY <2>1, <2>2
<1>6. ASSUME NEW u \in Threads, NEW v \in Threads, call'[u].slot = call'[v].slot,
             call'[u].slot # None
      PROVE  u = v
  <2>1. u # t /\ v # t
    BY <1>1, <1>6
  <2> QED BY <1>1, <1>6, <2>1 DEF HeldInv
<1> QED BY <1>4, <1>5, <1>6 DEF HeldInv

\* The senders about to link are the same ones and the next fields do not change.
LEMMA EndsSame ==
    ASSUME EndsInv, NEW t \in Threads, NEW c, Becomes(t, c), c.op = "send" => c.at # "link",
           UNCHANGED next
    PROVE  EndsInv'
<1> SUFFICES ASSUME NEW u \in Threads, call'[u].op = "send", call'[u].at = "link"
             PROVE  next'[call'[u].slot] = None
  BY DEF EndsInv
<1>1. u # t
  BY BecomesElsewhere
<1>2. call'[u] = call[u]
  BY <1>1, BecomesElsewhere
<1> QED BY <1>2 DEF EndsInv

\* Steps that touch neither the links nor the slots the calls hold.
LEMMA SameLinks ==
    ASSUME NEW f, NEW q, LinkInv(f, q), NEW t \in Threads, NEW c, Becomes(t, c),
           c.slot = call[t].slot, c.op = "send" => c.at # "link", UNCHANGED links
    PROVE  LinkInv(f, q)'
<1>1. HeldInv(f, q)'
  BY HeldSame DEF LinkInv
<1>2. UNCHANGED <<next, head, tail, free, entry>>
  BY DEF links
<1>3. EndsInv'
  BY <1>2, EndsSame DEF LinkInv
<1> QED BY <1>1, <1>2, <1>3 DEF LinkInv

LEMMA IdleLinks ==
    ASSUME NEW f, NEW q, LinkInv(f, q), UNCHANGED <<links, call>>
    PROVE  LinkInv(f, q)'
BY Zenon DEF LinkInv, links, HeldInv, EndsInv

\* A sender takes the first slot of the free list.
LEMMA ClaimLinks ==
    ASSUME NEW f, NEW q, LinkInv(f, q), free # None,
           NEW t \in Threads, NEW c, Becomes(t, c), call[t].slot = None, c.slot = free, c.at = "copy",
           free' = next[free], UNCHANGED <<next, head, tail, entry>>
    PROVE  f # <<>> /\ free \in Slots /\ LinkInv(Tail(f), q)'
<1>1. f # <<>>
  BY EmptyStart, Zenon DEF LinkInv
<1>2. /\ free \in Slots /\ free \in Members(f)
      /\ SlotList(next, Tail(f), next[free]) /\ Members(Tail(f)) = Members(f) \ {free}
  BY <1>1, PopList, Zenon DEF LinkInv
<1>3. HeldInv(Tail(f), q)'
  <2>1. HeldInv(f, q) /\ Members(f) \cap Members(q) = {}
    BY DEF LinkInv, HeldInv
  <2>2. free \in Members(f) \cup Members(q)
    BY <1>2
  <2>3. /\ Members(Tail(f)) \cap Members(q) = {}
        /\ Members(Tail(f)) \cup Members(q) = (Members(f) \cup Members(q)) \ {free}
    BY <1>2, <2>1
  <2> QED BY <1>2, <2>1, <2>2, <2>3, HeldTaken, Zenon
<1>4. EndsInv'
  BY EndsSame DEF LinkInv
<1> QED BY <1>1, <1>2, <1>3, <1>4, Zenon DEF LinkInv

\* msg->next = RT_NULL is written to a slot no list contains.
LEMMA CopyInLinks ==
    ASSUME NEW f, NEW q, LinkInv(f, q), NEW t \in Threads, NEW c, Becomes(t, c), NEW s \in Slots,
           call[t].slot = s, c.slot = s,
           next' = IF c.op = "send" THEN [next EXCEPT ![s] = None] ELSE next,
           UNCHANGED <<head, tail, free, entry>>
    PROVE  LinkInv(f, q)'
<1>1. HeldInv(f, q)'
  BY HeldSame, Zenon DEF LinkInv
<1>2. /\ next' \in [Slots -> Slots \cup {None}]
      /\ \A u \in Slots \ {s} : next'[u] = next[u]
      /\ c.op = "send" => next'[s] = None
  BY Zenon DEF LinkInv
<1>3. Members(f) \subseteq Slots \ {s} /\ Members(q) \subseteq Slots \ {s}
  BY DEF LinkInv, HeldInv
<1>4. SlotList(next', f, free) /\ SlotList(next', q, head)
  BY <1>2, <1>3, SameList, Zenon DEF LinkInv
<1>5. EndsInv'
  <2> SUFFICES ASSUME NEW u \in Threads, call'[u].op = "send", call'[u].at = "link"
               PROVE  next'[call'[u].slot] = None
    BY DEF EndsInv
  <2>1. CASE u = t
    BY <1>2, <2>1, BecomesElsewhere
  <2>2. CASE u # t
    <3>1. call'[u] = call[u]
      BY <2>2, BecomesElsewhere
    <3>2. next[call[u].slot] = None
      BY <3>1 DEF LinkInv, EndsInv
    <3> QED BY <3>1, <3>2 DEF LinkInv
  <2> QED BY <2>1, <2>2
<1> QED BY <1>1, <1>2, <1>4, <1>5, Zenon DEF LinkInv

\* Every sender about to link has a slot.
SendersHold ==
    \A u \in Threads : call[u].op = "send" /\ call[u].at = "link" => call[u].slot \in Slots

\* The next fields of the slots in no list are kept, but for that of s.
OthersKept(f, q, s) ==
    \A u \in Slots : u \notin Members(f) \cup Members(q) \cup {s} => next'[u] = next[u]

\* The other senders are not disturbed by a change of the next fields of s and of slots in lists.
LEMMA EndsKept ==
    ASSUME NEW f, NEW q, LinkInv(f, q), NEW t \in Threads, Becomes(t, Idle), NEW s \in Slots,
           call[t].slot = s, OthersKept(f, q, s), SendersHold
    PROVE  EndsInv'
<1> SUFFICES ASSUME NEW u \in Threads, call'[u].op = "send", call'[u].at = "link"
             PROVE  next'[call'[u].slot] = None
  BY DEF EndsInv
<1>1. u # t
  BY BecomesElsewhere, IdleOK
<1>2. call'[u] = call[u]
  BY <1>1, BecomesElsewhere
<1>3. call[u].slot \in Slots /\ next[call[u].slot] = None
  BY <1>2 DEF LinkInv, EndsInv, SendersHold
<1>4. call[u].slot # s
  <2>1. s # None
    BY QueueAssumption DEF Slots
  <2> QED BY <1>1, <2>1 DEF LinkInv, HeldInv
<1>5. call[u].slot \notin Members(f) \cup Members(q)
  BY DEF LinkInv, HeldInv
<1> QED BY <1>2, <1>3, <1>4, <1>5 DEF OthersKept

\* rt_mq_send_wait links the slot behind the last message.
LEMMA AppendLinks ==
    ASSUME NEW f, NEW q, LinkInv(f, q), SendersHold, NEW t \in Threads, Becomes(t, Idle),
           NEW s \in Slots, call[t].slot = s, call[t].op = "send", call[t].at = "link",
           AppendTail(s), entry' = entry + 1, UNCHANGED free
    PROVE  LinkInv(f, Append(q, s))'
<1> DEFINE r == Append(q, s)
<1>1. /\ HeldInv(f, q) /\ s \notin Members(f) /\ s \notin Members(q) /\ next[s] = None
      /\ Members(f) \cap Members(q) = {} /\ Members(f) \cup Members(q) \subseteq Slots
  BY Zenon DEF LinkInv, HeldInv, EndsInv
<1>2. (tail = None <=> q = <<>>) /\ (q # <<>> => tail \in Members(q)) /\ tail = LastOf(q)
  <2>1. q \in Seq(Slots) /\ tail = LastOf(q)
    BY DEF LinkInv, SlotList
  <2>2. q # <<>> => q[Len(q)] \in Members(q)
    BY <2>1 DEF Members
  <2>3. None \notin Slots
    BY QueueAssumption DEF Slots
  <2> QED BY <1>1, <2>1, <2>2, <2>3, Zenon DEF LastOf
<1>3. tail # s /\ tail \notin Members(f) /\ SlotList(next, f, free) /\ SlotList(next, q, head)
  <2>1. None \notin Slots
    BY QueueAssumption DEF Slots
  <2> QED BY <1>1, <1>2, <2>1 DEF LinkInv
<1>4. /\ next' \in [Slots -> Slots \cup {None}]
      /\ \A u \in Slots \ {tail} : next'[u] = next[u]
      /\ q # <<>> => next'[tail] = s
  BY <1>1, <1>2, Zenon DEF LinkInv, AppendTail
<1>5. head = None <=> q = <<>>
  <2>1. SlotList(next, q, head)
    BY <1>3
  <2>2. q = <<>> => head = None
    BY <2>1, EmptyStart
  <2>3. q # <<>> => head # None
    BY <2>1, EmptyStart
  <2> QED BY <2>2, <2>3
<1>6. SlotList(next', f, free)
  <2>1. \A u \in Members(f) : next'[u] = next[u]
    BY <1>1, <1>3, <1>4, Zenon
  <2> QED BY <1>3, <2>1, SameList, Zenon
<1>7. /\ SlotList(next', r, IF q = <<>> THEN s ELSE head)
      /\ Members(r) = Members(q) \cup {s} /\ Len(r) = Len(q) + 1 /\ LastOf(r) = s
  <2>1. next'[s] = None
    BY <1>1, <1>3, <1>4
  <2>2. q # <<>> => next'[LastOf(q)] = s
    BY <1>2, <1>4
  <2>3. \A u \in Members(q) \ {LastOf(q)} : next'[u] = next[u]
    BY <1>1, <1>2, <1>4
  <2>4. Appends(next, next', q, head, s)
    BY <1>1, <1>3, <2>1, <2>2, <2>3 DEF Appends
  <2> QED BY <2>4, AppendList
<1> HIDE DEF r
<1>8. HeldInv(f, r)'
  <2>1. /\ Members(f) \cap Members(r) = {}
        /\ Members(f) \cup Members(r) = (Members(f) \cup Members(q)) \cup {s}
    BY <1>1, <1>7
  <2> QED BY <1>1, <2>1, HeldLinked, Zenon
<1>9. EndsInv'
  <2>1. OthersKept(f, q, s)
    BY <1>2, <1>4 DEF LinkInv, AppendTail, OthersKept
  <2> QED BY <2>1, EndsKept, Zenon
<1>10. head' = (IF q = <<>> THEN s ELSE head) /\ tail' = s /\ entry' = Len(r)
  BY <1>5, <1>7 DEF AppendTail, LinkInv
<1> QED BY <1>4, <1>6, <1>7, <1>8, <1>9, <1>10, Zenon DEF LinkInv, r

\* rt_mq_urgent links the slot in front of the first message.
LEMMA InsertLinks ==
    ASSUME NEW f, NEW q, LinkInv(f, q), SendersHold, NEW t \in Threads, Becomes(t, Idle),
           NEW s \in Slots, call[t].slot = s,
           InsertHead(s), entry' = entry + 1, UNCHANGED free
    PROVE  LinkInv(f, <<s>> \o q)'
<1> DEFINE r == <<s>> \o q
<1>1. /\ HeldInv(f, q) /\ s \notin Members(f) /\ s \notin Members(q)
      /\ Members(f) \cap Members(q) = {} /\ Members(f) \cup Members(q) \subseteq Slots
  BY Zenon DEF LinkInv, HeldInv
<1>2. tail = None <=> q = <<>>
  <2>1. q \in Seq(Slots) /\ tail = LastOf(q)
    BY DEF LinkInv, SlotList
  <2>2. q # <<>> => q[Len(q)] \in Slots
    BY <2>1
  <2>3. None \notin Slots
    BY QueueAssumption DEF Slots
  <2> QED BY <2>1, <2>2, <2>3 DEF LastOf
<1>3. /\ next' \in [Slots -> Slots \cup {None}]
      /\ \A u \in Slots \ {s} : next'[u] = next[u]
      /\ next'[s] = head
  <2>1. head \in Slots \cup {None}
    BY ListStart, Zenon DEF LinkInv
  <2> QED BY <2>1 DEF LinkInv, InsertHead
<1>4. SlotList(next', f, free)
  <2>1. \A u \in Members(f) : next'[u] = next[u]
    BY <1>1, <1>3
  <2> QED BY <2>1, SameList DEF LinkInv
<1>5. /\ SlotList(next', r, s) /\ Members(r) = Members(q) \cup {s} /\ Len(r) = Len(q) + 1
      /\ LastOf(r) = IF q = <<>> THEN s ELSE LastOf(q)
  <2>1. \A u \in Members(q) : next'[u] = next[u]
    BY <1>1, <1>3
  <2>2. SlotList(next, q, head)
    BY DEF LinkInv
  <2>3. Pushes(next, next', q, head, s)
    BY <1>1, <1>3, <2>1, <2>2 DEF Pushes
  <2> QED BY <2>3, PushList
<1> HIDE DEF r
<1>6. HeldInv(f, r)'
  <2>1. /\ Members(f) \cap Members(r) = {}
        /\ Members(f) \cup Members(r) = (Members(f) \cup Members(q)) \cup {s}
    BY <1>1, <1>5
  <2> QED BY <1>1, <2>1, HeldLinked, Zenon
<1>7. EndsInv'
  <2>1. OthersKept(f, q, s)
    BY <1>3 DEF OthersKept
  <2> QED BY <2>1, EndsKept, Zenon
<1>8. head' = s /\ tail' = LastOf(r) /\ entry' = Len(r)
  BY <1>2, <1>5 DEF InsertHead, LinkInv
<1> QED BY <1>3, <1>4, <1>5, <1>6, <1>7, <1>8 DEF LinkInv, r

\* rt_mq_recv takes the first slot of the queue.
LEMMA UnlinkLinks ==
    ASSUME NEW f, NEW q, LinkInv(f, q), entry # 0,
           NEW t \in Threads, NEW c, Becomes(t, c), call[t].slot = None, c.slot = head,
           c.at = "copy", Unlink(head), entry' = entry - 1, UNCHANGED <<next, free>>
    PROVE  q # <<>> /\ head = Head(q) /\ head \in Slots /\ LinkInv(f, Tail(q))'
<1>1. q # <<>>
  BY NoSlots, Zenon DEF LinkInv, SlotList
<1>2. /\ head = Head(q) /\ head \in Slots /\ head \in Members(q)
      /\ SlotList(next, Tail(q), next[head]) /\ Members(Tail(q)) = Members(q) \ {head}
      /\ Len(Tail(q)) = Len(q) - 1
      /\ LastOf(Tail(q)) = IF LastOf(q) = head THEN None ELSE LastOf(q)
  BY <1>1, PopList DEF LinkInv
<1>3. HeldInv(f, Tail(q))'
  <2>1. HeldInv(f, q) /\ Members(f) \cap Members(q) = {}
    BY Zenon DEF LinkInv, HeldInv
  <2>2. head \in Members(f) \cup Members(q)
    BY <1>2
  <2>3. /\ Members(f) \cap Members(Tail(q)) = {}
        /\ Members(f) \cup Members(Tail(q)) = (Members(f) \cup Members(q)) \ {head}
    BY <1>2, <2>1
  <2> QED BY <1>2, <2>1, <2>2, <2>3, HeldTaken, Zenon
<1>4. EndsInv'
  BY EndsSame DEF LinkInv
<1>5. entry' = Len(Tail(q)) /\ tail' = LastOf(Tail(q)) /\ head' = next[head]
  BY <1>2, Zenon DEF LinkInv, Unlink
<1> QED BY <1>1, <1>2, <1>3, <1>4, <1>5, Zenon DEF LinkInv

\* rt_mq_recv puts the slot in front of the free list.
LEMMA PutBackLinks ==
    ASSUME NEW f, NEW q, LinkInv(f, q), SendersHold, NEW t \in Threads, Becomes(t, Idle),
           NEW s \in Slots, call[t].slot = s,
           PutBack(s), UNCHANGED <<head, tail, entry>>
    PROVE  LinkInv(<<s>> \o f, q)' /\ Len(<<s>> \o f) = Len(f) + 1
<1> DEFINE r == <<s>> \o f
<1>1. /\ HeldInv(f, q) /\ s \notin Members(f) /\ s \notin Members(q)
      /\ Members(f) \cap Members(q) = {} /\ Members(f) \cup Members(q) \subseteq Slots
  BY Zenon DEF LinkInv, HeldInv
<1>2. /\ next' \in [Slots -> Slots \cup {None}]
      /\ \A u \in Slots \ {s} : next'[u] = next[u]
      /\ next'[s] = free /\ free' = s
  <2>1. free \in Slots \cup {None}
    BY ListStart, Zenon DEF LinkInv
  <2> QED BY <2>1 DEF LinkInv, PutBack
<1>3. SlotList(next', q, head)
  <2>1. \A u \in Members(q) : next'[u] = next[u]
    BY <1>1, <1>2, Zenon
  <2> QED BY <2>1, SameList DEF LinkInv
<1>4. SlotList(next', r, s) /\ Members(r) = Members(f) \cup {s} /\ Len(r) = Len(f) + 1
  <2>1. \A u \in Members(f) : next'[u] = next[u]
    BY <1>1, <1>2
  <2>2. SlotList(next, f, free)
    BY DEF LinkInv
  <2>3. Pushes(next, next', f, free, s)
    BY <1>1, <1>2, <2>1, <2>2, Zenon DEF Pushes
  <2> QED BY <2>3, PushList
<1> HIDE DEF r
<1>5. HeldInv(r, q)'
  <2>1. /\ Members(r) \cap Members(q) = {}
        /\ Members(r) \cup Members(q) = (Members(f) \cup Members(q)) \cup {s}
    BY <1>1, <1>4
  <2> QED BY <1>1, <2>1, HeldLinked, Zenon
<1>6. EndsInv'
  <2>1. OthersKept(f, q, s)
    BY <1>2, Zenon DEF OthersKept
  <2> QED BY <2>1, EndsKept, Zenon
<1> QED BY <1>2, <1>3, <1>4, <1>5, <1>6 DEF LinkInv, r

\* A reset moves the whole queue to the free list; the slots held by calls stay theirs.
LEMMA ResetLinks ==
    ASSUME NEW f, NEW q, LinkInv(f, q), SendersHold, Chain(head) = q, Reset
    PROVE  LinkInv(Moved(q, f), <<>>)'
<1> DEFINE r == Moved(q, f)
           At1(s) == CHOOSE j \in DOMAIN q : q[j] = s
<1>1. /\ HeldInv(f, q) /\ SlotList(next, f, free) /\ SlotList(next, q, head)
      /\ Members(f) \cap Members(q) = {} /\ Members(f) \cup Members(q) \subseteq Slots
      /\ next \in [Slots -> Slots \cup {None}] /\ tail = LastOf(q)
  BY Zenon DEF LinkInv, HeldInv
<1>2. /\ next' = [s \in Slots |-> IF \E i \in DOMAIN q : q[i] = s
                                  THEN IF At1(s) = 1 THEN free ELSE q[At1(s) - 1]
                                  ELSE next[s]]
      /\ free' = IF q = <<>> THEN free ELSE q[Len(q)]
      /\ head' = None /\ tail' = (IF tail \in Members(q) THEN None ELSE tail)
      /\ entry' = 0 /\ call' = call
  BY Zenon DEF Reset
<1>3. q \in Seq(Slots) /\ DOMAIN q = 1..Len(q) /\ Len(q) \in Nat /\ Distinct(q)
  BY <1>1 DEF SlotList
<1>4. ASSUME NEW i \in DOMAIN q
      PROVE  q[i] \in Slots /\ next'[q[i]] = IF i = 1 THEN free ELSE q[i - 1]
  <2>1. q[i] \in Slots
    BY <1>3
  <2>2. At1(q[i]) \in DOMAIN q /\ q[At1(q[i])] = q[i]
    OBVIOUS
  <2>3. At1(q[i]) = i
    BY <1>3, <2>2, Zenon DEF Distinct
  <2> HIDE DEF At1
  <2>4. next'[q[i]] = IF At1(q[i]) = 1 THEN free ELSE q[At1(q[i]) - 1]
    BY <1>2, <2>1
  <2> QED BY <2>1, <2>3, <2>4
<1>5. \A s \in Slots \ Members(q) : next'[s] = next[s]
  <2> HIDE DEF At1
  <2> QED BY <1>2 DEF Members
<1>6. next' \in [Slots -> Slots \cup {None}]
  <2>1. \A s \in Slots : next'[s] \in Slots \cup {None}
    <3> SUFFICES ASSUME NEW s \in Slots PROVE next'[s] \in Slots \cup {None}
      OBVIOUS
    <3>1. CASE s \in Members(q)
      <4>1. PICK i \in DOMAIN q : s = q[i]
        BY <3>1 DEF Members
      <4>2. i # 1 => q[i - 1] \in Slots
        BY <1>3
      <4>3. free \in Slots \cup {None}
        BY <1>1, ListStart, Zenon
      <4> QED BY <1>4, <4>1, <4>2, <4>3
    <3>2. CASE s \notin Members(q)
      BY <1>1, <1>5, <3>2
    <3> QED BY <3>1, <3>2
  <2>2. next' = [s \in Slots |-> next'[s]]
    <3> HIDE DEF At1
    <3> QED BY <1>2
  <2> QED BY <2>1, <2>2
<1>7. SlotList(next', r, free') /\ Members(r) = Members(q) \cup Members(f)
  <2>1. free' = IF q = <<>> THEN free ELSE LastOf(q)
    BY <1>2 DEF LastOf
  <2>2. \A u \in Members(f) : next'[u] = next[u]
    BY <1>1, <1>5
  <2>3. \A i \in DOMAIN q : next'[q[i]] = IF i = 1 THEN free ELSE q[i - 1]
    BY <1>4
  <2> HIDE DEF At1
  <2> QED BY <1>1, <2>1, <2>2, <2>3, MoveList
<1> HIDE DEF r, At1
<1>8. HeldInv(r, <<>>)'
  <2>1. /\ Members(r) \cup Members(<<>>) = Members(f) \cup Members(q)
        /\ Members(r) \cap Members(<<>>) = {}
    BY <1>7, EmptyList
  <2> QED BY <1>1, <1>2, <2>1, Zenon DEF HeldInv
<1>9. EndsInv'
  <2> SUFFICES ASSUME NEW u \in Threads, call[u].op = "send", call[u].at = "link"
               PROVE  next'[call[u].slot] = None
    BY <1>2 DEF EndsInv
  <2>1. call[u].slot \in Slots \ Members(q) /\ next[call[u].slot] = None
    BY <1>1, Zenon DEF SendersHold, HeldInv, LinkInv, EndsInv
  <2> QED BY <1>5, <2>1
<1>10. tail' = None
  <2>1. q # <<>> => q[Len(q)] \in Members(q)
    BY <1>3 DEF Members
  <2> QED BY <1>1, <1>2, <2>1 DEF LastOf
<1>11. SlotList(next', <<>>, None) /\ LastOf(<<>>) = None /\ Len(<<>>) = 0
  BY EmptyList DEF LastOf
<1> QED BY <1>2, <1>6, <1>7, <1>8, <1>9, <1>10, <1>11 DEF LinkInv, r

-----------------------------------------------------------------------------
(* The bytes.                                                              *)

\* A step that writes no slot, and puts the call of t where it need not rest on its bytes or
\* where it has just read them.
LEMMA SameData ==
    ASSUME DataInv, NEW t \in Threads, NEW c, Becomes(t, c), data' = data, got' \in Msgs,
           \/ c.op \in {"send", "urgent"} /\ c.at = "link"
           \/ c.op = "recv" /\ c.at = "copy"
           => data[c.slot] = c.msg
    PROVE  DataInv'
<1>1. call'[t] = c /\ \A u \in Threads \ {t} : call'[u] = call[u]
  BY BecomesElsewhere
<1>2. CopyUndisturbed'
  BY <1>1 DEF DataInv, CopyUndisturbed
<1> QED BY <1>2 DEF DataInv

\* A sender writes its own slot, which no other call holds.
LEMMA CopyInData ==
    ASSUME DataInv, NEW f, NEW q, HeldInv(f, q), NEW t \in Threads, NEW c, Becomes(t, c),
           NEW s \in Slots, NEW m \in Msgs, call[t].slot = s, c.slot = s, c.msg = m,
           data' = [data EXCEPT ![s] = m], got' = got,
           \A u \in Threads : call[u].at \in {"copy", "link"} => call[u].slot \in Slots
    PROVE  DataInv'
<1>1. call'[t] = c /\ \A u \in Threads \ {t} : call'[u] = call[u]
  BY BecomesElsewhere
<1>2. data' \in [Slots -> Msgs] /\ data'[s] = m /\ \A u \in Slots \ {s} : data'[u] = data[u]
  BY DEF DataInv
<1>3. s # None
  BY QueueAssumption DEF Slots
<1>4. CopyUndisturbed'
  <2> SUFFICES ASSUME NEW u \in Threads,
                      \/ call'[u].op \in {"send", "urgent"} /\ call'[u].at = "link"
                      \/ call'[u].op = "recv" /\ call'[u].at = "copy"
               PROVE  data'[call'[u].slot] = call'[u].msg
    BY DEF CopyUndisturbed
  <2>1. CASE u = t
    BY <1>1, <1>2, <2>1
  <2>2. CASE u # t
    <3>1. call'[u] = call[u] /\ call[u].slot \in Slots /\ data[call[u].slot] = call[u].msg
      BY <1>1, <2>2 DEF DataInv, CopyUndisturbed
    <3>2. call[u].slot # s
      BY <1>3, <2>2 DEF HeldInv
    <3> QED BY <1>2, <3>1, <3>2
  <2> QED BY <2>1, <2>2
<1> QED BY <1>2, <1>4 DEF DataInv

-----------------------------------------------------------------------------
(* The sections.                                                           *)

\* The state with free list f and queue q.
State(f, q) == ThreadInv /\ LinkInv(f, q) /\ DataInv

\* A thread outside the unprotected part of a call.
Enters(t, op) ==
    \/ call[t] = Idle
    \/ call[t].op = op /\ call[t].at = "wait" /\ stat[t] = "ready" /\ error[t] = "EOK"

LEMMA EntersRunning ==
    ASSUME ThreadInv, NEW t \in Threads, NEW op, Enters(t, op)
    PROVE  stat[t] = "ready" /\ error[t] = "EOK" /\ call[t].slot = None
<1>1. CASE call[t] = Idle
  BY <1>1, IdleOK DEF ThreadInv, CallInv
<1>2. CASE call[t].at = "wait" /\ stat[t] = "ready" /\ error[t] = "EOK"
  BY <1>2 DEF ThreadInv, CallInv, CallOK
<1> QED BY <1>1, <1>2 DEF Enters

\* A call that copies or links runs, and holds a slot.
LEMMA HolderRunning ==
    ASSUME ThreadInv, NEW t \in Threads, call[t].at \in {"copy", "link"}
    PROVE  /\ stat[t] = "ready" /\ error[t] = "EOK" /\ call[t].slot \in Slots
           /\ call[t].op \in {"send", "urgent", "recv"}
           /\ call[t].op \in {"send", "urgent"} => call[t].msg \in Msgs
<1>1. CallOK(call[t]) /\ stat[t] = "ready" /\ error[t] = "EOK"
  BY DEF ThreadInv, CallInv
<1>2. call[t].slot \in Slots /\ (call[t].op \in {"send", "urgent"} => call[t].msg \in Msgs)
  BY <1>1 DEF CallOK, Calls
<1>3. call[t].op # "idle"
  BY <1>1, IdleOK DEF CallOK
<1> QED BY <1>1, <1>2, <1>3 DEF CallOK, Calls

LEMMA HoldersHold == ThreadInv => SendersHold
<1> SUFFICES ASSUME ThreadInv, NEW u \in Threads, call[u].at = "link" PROVE call[u].slot \in Slots
  BY DEF SendersHold
<1> QED BY HolderRunning

\* A call that did not get what it wanted returns.
LEMMA LeaveState ==
    ASSUME NEW f, NEW q, State(f, q), NEW t \in Threads, call[t].slot = None,
           stat[t] = "ready", error' = [error EXCEPT ![t] = "EOK"], call' = [call EXCEPT ![t] = Idle],
           UNCHANGED <<stat, timer, links, data, receivers, senders, got>>
    PROVE  State(f, q)'
<1>1. Becomes(t, Idle)
  BY DEF Becomes, State, ThreadInv
<1>2. ThreadInv'
  BY MoveKeeps, IdleOK, Zenon DEF State
<1>3. LinkInv(f, q)'
  BY <1>1, SameLinks, IdleOK DEF State
<1>4. DataInv'
  BY <1>1, SameData, IdleOK DEF State, DataInv
<1> QED BY <1>2, <1>3, <1>4 DEF State

\* A call suspends.
LEMMA SuspendState ==
    ASSUME NEW f, NEW q, State(f, q), NEW t \in Threads, NEW op \in {"send", "recv"}, Enters(t, op),
           NEW w \in Waits, NEW m \in Msgs \cup {None}, op = "send" => m \in Msgs,
           Suspend(t, w = "timed"), At(t, op, "wait", w, m, None),
           IF op = "recv" THEN receivers' = ListSuspend(receivers, t, Prio) /\ UNCHANGED senders
           ELSE senders' = ListSuspend(senders, t, Prio) /\ UNCHANGED receivers,
           UNCHANGED <<links, data, got>>
    PROVE  State(f, q)'
<1> DEFINE c == [op |-> op, at |-> "wait", left |-> w, msg |-> m, slot |-> None]
<1>1. Becomes(t, c) /\ c.slot = None /\ c.at = "wait"
  BY DEF Becomes, State, ThreadInv, At
<1>2. stat[t] = "ready" /\ call[t].slot = None
  BY EntersRunning, Zenon DEF State
<1>3. ThreadInv'
  BY <1>2, WaitKeeps, Zenon DEF State
<1> HIDE DEF c
<1>4. LinkInv(f, q)'
  BY <1>1, <1>2, SameLinks, Zenon DEF State
<1>5. DataInv'
  BY <1>1, SameData, Zenon DEF State, DataInv
<1> QED BY <1>3, <1>4, <1>5 DEF State

\* A sender takes a slot of the free list.
LEMMA ClaimState ==
    ASSUME NEW f, NEW q, State(f, q), NEW t \in Threads, NEW op \in {"send", "urgent"},
           Enters(t, op), NEW v \in Msgs, Claim(t, op, v)
    PROVE  f # <<>> /\ State(Tail(f), q)'
<1> DEFINE c == [op |-> op, at |-> "copy", left |-> "no", msg |-> v, slot |-> free]
<1>1. Becomes(t, c) /\ c.slot = free /\ c.at = "copy" /\ c.op = op
  BY DEF Becomes, State, ThreadInv, Claim, At
<1>2. stat[t] = "ready" /\ error[t] = "EOK" /\ call[t].slot = None
  BY EntersRunning DEF State
<1> HIDE DEF c
<1>3. f # <<>> /\ free \in Slots /\ LinkInv(Tail(f), q)'
  BY <1>1, <1>2, ClaimLinks, Zenon DEF State, Claim
<1>4. CallOK(c)
  BY <1>3, CopyOK DEF c
<1>5. ThreadInv'
  BY <1>1, <1>2, <1>4, StayKeeps, Zenon DEF State, Claim, Becomes
<1>6. DataInv'
  BY <1>1, SameData, Zenon DEF State, Claim, DataInv
<1> QED BY <1>3, <1>5, <1>6 DEF State

\* The first section of rt_mq_send_wait.
LEMMA SendSectionState ==
    ASSUME NEW f, NEW q, State(f, q), NEW t \in Threads, NEW v \in Msgs, NEW w \in Waits,
           Enters(t, "send"), SendSection(t, v, w)
    PROVE  State(f, q)' \/ (f # <<>> /\ State(Tail(f), q)')
<1>1. CASE Claim(t, "send", v)
  BY <1>1, ClaimState
<1>2. CASE /\ call' = [call EXCEPT ![t] = Idle]
           /\ UNCHANGED <<threadVars, links, data, receivers, senders, got>>
  <2>1. stat[t] = "ready" /\ error[t] = "EOK" /\ call[t].slot = None
    BY EntersRunning, Zenon DEF State
  <2>2. error' = [error EXCEPT ![t] = "EOK"]
    BY <1>2, <2>1 DEF threadVars, State, ThreadInv, ThreadTypeOK
  <2> QED BY <1>2, <2>1, <2>2, LeaveState, Zenon DEF threadVars
<1>3. CASE /\ senders' = ListSuspend(senders, t, Prio) /\ Suspend(t, w = "timed")
           /\ At(t, "send", "wait", w, v, None) /\ UNCHANGED <<links, data, receivers, got>>
  BY <1>3, SuspendState
<1> QED BY <1>1, <1>2, <1>3 DEF SendSection

\* The first section of rt_mq_recv.
LEMMA RecvSectionState ==
    ASSUME NEW f, NEW q, State(f, q), NEW t \in Threads, NEW w \in Waits,
           Enters(t, "recv"), RecvSection(t, w)
    PROVE  /\ data' = data
           /\ \/ State(f, q)' /\ got' = got
              \/ q # <<>> /\ got' = data[Head(q)] /\ State(f, Tail(q))'
<1>1. CASE /\ call' = [call EXCEPT ![t] = Idle]
           /\ UNCHANGED <<threadVars, links, data, receivers, senders, got>>
  <2>1. stat[t] = "ready" /\ error[t] = "EOK" /\ call[t].slot = None
    BY EntersRunning DEF State
  <2>2. error' = [error EXCEPT ![t] = "EOK"]
    BY <1>1, <2>1 DEF threadVars, State, ThreadInv, ThreadTypeOK
  <2> QED BY <1>1, <2>1, <2>2, LeaveState, Zenon DEF threadVars
<1>2. CASE /\ receivers' = ListSuspend(receivers, t, Prio) /\ Suspend(t, w = "timed")
           /\ At(t, "recv", "wait", w, None, None) /\ UNCHANGED <<links, data, senders, got>>
  BY <1>2, SuspendState
<1>3. CASE /\ entry # 0 /\ Unlink(head) /\ entry' = entry - 1 /\ got' = data[head]
           /\ At(t, "recv", "copy", "no", data[head], head)
           /\ UNCHANGED <<threadVars, next, data, free, receivers, senders>>
  <2> DEFINE c == [op |-> "recv", at |-> "copy", left |-> "no", msg |-> data[head], slot |-> head]
  <2>1. Becomes(t, c) /\ c.slot = head /\ c.at = "copy" /\ c.op = "recv" /\ c.msg = data[head]
    BY <1>3 DEF Becomes, State, ThreadInv, At
  <2>2. stat[t] = "ready" /\ error[t] = "EOK" /\ call[t].slot = None
    BY EntersRunning DEF State
  <2> HIDE DEF c
  <2>3. q # <<>> /\ head = Head(q) /\ head \in Slots /\ LinkInv(f, Tail(q))'
    BY <1>3, <2>1, <2>2, UnlinkLinks, Zenon DEF State
  <2>4. data[head] \in Msgs
    BY <2>3 DEF State, DataInv
  <2>5. CallOK(c)
    BY <2>3, <2>4, CopyOK DEF c
  <2>6. ThreadInv'
    BY <1>3, <2>1, <2>2, <2>5, StayKeeps, Zenon DEF State, Becomes
  <2>7. DataInv'
    BY <1>3, <2>1, <2>4, SameData, Zenon DEF State
  <2> QED BY <1>3, <2>3, <2>6, <2>7 DEF State
<1> QED BY <1>1, <1>2, <1>3, Zenon DEF RecvSection

\* The copy into the slot changes no byte of the queue.
LEMMA CopyInState ==
    ASSUME NEW f, NEW q, State(f, q), NEW t \in Threads, CopyIn(t)
    PROVE  State(f, q)' /\ got' = got /\ \A s \in Members(q) : data'[s] = data[s]
<1> DEFINE o == call[t].op
           s == call[t].slot
           m == call[t].msg
           c == [op |-> o, at |-> "link", left |-> "no", msg |-> m, slot |-> s]
<1>1. o \in {"send", "urgent"} /\ call[t].at = "copy"
  BY Zenon DEF CopyIn
<1>2. stat[t] = "ready" /\ error[t] = "EOK" /\ s \in Slots /\ m \in Msgs
  BY <1>1, HolderRunning DEF State
<1>3. /\ next' = IF o = "send" THEN [next EXCEPT ![s] = None] ELSE next
      /\ data' = [data EXCEPT ![s] = m]
      /\ UNCHANGED <<threadVars, head, tail, free, entry, receivers, senders, got>>
  BY Zenon DEF CopyIn
<1>4. Becomes(t, c) /\ c.slot = s /\ c.at = "link" /\ c.op = o /\ c.msg = m
  BY DEF Becomes, State, ThreadInv, CopyIn, At
<1>5. call[t].slot = s
  OBVIOUS
<1> HIDE DEF o, s, m
<1>6. CallOK(c)
  BY <1>1, <1>2, CopyOK, Zenon
<1> HIDE DEF c
<1>7. ThreadInv'
  BY <1>2, <1>3, <1>4, <1>6, StayKeeps, Zenon DEF State, Becomes
<1>8. LinkInv(f, q)'
  BY <1>2, <1>3, <1>4, <1>5, CopyInLinks, Zenon DEF State
<1>9. HeldInv(f, q)
  BY DEF State, LinkInv
<1>10. DataInv'
  <2>1. \A u \in Threads : call[u].at \in {"copy", "link"} => call[u].slot \in Slots
    BY HolderRunning DEF State
  <2> QED BY <1>2, <1>3, <1>4, <1>5, <1>9, <2>1, CopyInData, Zenon DEF State
<1>11. \A u \in Members(q) : data'[u] = data[u]
  <2>1. s \notin Members(q)
    BY <1>5, <1>9 DEF HeldInv
  <2> QED BY <1>3, <2>1 DEF State, DataInv
<1> QED BY <1>3, <1>7, <1>8, <1>10, <1>11 DEF State

\* A message enters the queue, at its end or, urgent, at its front.
LEMMA LinkState ==
    ASSUME NEW f, NEW q, State(f, q), NEW t \in Threads, Link(t)
    PROVE  /\ got' = got /\ data' = data
           /\ \E s \in Slots : State(f, Append(q, s))' \/ State(f, <<s>> \o q)'
<1>1. call[t].at = "link"
  BY DEF Link
<1>2. PICK s \in Slots : s = call[t].slot
  BY <1>1, HolderRunning DEF State
<1>3. stat[t] = "ready" /\ error[t] = "EOK"
  BY <1>1, HolderRunning DEF State
<1>4. /\ \/ call[t].op = "send" /\ AppendTail(s)
         \/ call[t].op = "urgent" /\ InsertHead(s)
      /\ entry' = entry + 1 /\ WakeReceiver /\ call' = [call EXCEPT ![t] = Idle]
      /\ UNCHANGED <<data, free, senders, got>>
  BY <1>2 DEF Link
<1>5. Becomes(t, Idle)
  BY <1>4 DEF Becomes, State, ThreadInv
<1>6. ThreadInv'
  BY <1>3, <1>4, WakeKeeps, Zenon DEF State
<1>7. DataInv'
  BY <1>4, <1>5, SameData, IdleOK DEF State, DataInv
<1>8. SendersHold /\ LinkInv(f, q)
  BY HoldersHold DEF State
<1>9. CASE call[t].op = "send" /\ AppendTail(s)
  <2>1. LinkInv(f, Append(q, s))'
    BY <1>1, <1>2, <1>4, <1>5, <1>8, <1>9, AppendLinks, Zenon
  <2> QED BY <1>4, <1>6, <1>7, <2>1 DEF State
<1>10. CASE call[t].op = "urgent" /\ InsertHead(s)
  <2>1. LinkInv(f, <<s>> \o q)'
    BY <1>1, <1>2, <1>4, <1>5, <1>8, <1>10, InsertLinks, Zenon
  <2> QED BY <1>4, <1>6, <1>7, <2>1 DEF State
<1> QED BY <1>4, <1>9, <1>10

\* The copy out of the slot.
LEMMA CopyOutState ==
    ASSUME NEW f, NEW q, State(f, q), NEW t \in Threads, CopyOut(t)
    PROVE  State(f, q)' /\ got' = got /\ data' = data
<1> DEFINE s == call[t].slot
           m == call[t].msg
           c == [op |-> "recv", at |-> "link", left |-> "no", msg |-> m, slot |-> s]
<1>1. call[t].op = "recv" /\ call[t].at = "copy"
  BY DEF CopyOut
<1>2. stat[t] = "ready" /\ error[t] = "EOK" /\ s \in Slots
  BY <1>1, HolderRunning DEF State
<1>3. m \in Msgs
  <2>1. data[s] = m
    BY <1>1 DEF State, DataInv, CopyUndisturbed
  <2> QED BY <1>2, <2>1 DEF State, DataInv
<1>4. UNCHANGED <<threadVars, links, data, receivers, senders, got>>
  BY DEF CopyOut
<1>5. Becomes(t, c) /\ c.slot = s /\ c.at = "link" /\ c.op = "recv" /\ call[t].slot = s
  BY DEF Becomes, State, ThreadInv, CopyOut, At
<1>6. CallOK(c)
  <2> HIDE DEF s, m
  <2> QED BY <1>2, <1>3, CopyOK, Zenon
<1> HIDE DEF c, s, m
<1>7. ThreadInv'
  BY <1>2, <1>4, <1>5, <1>6, StayKeeps, Zenon DEF State, Becomes
<1>8. LinkInv(f, q)'
  BY <1>4, <1>5, SameLinks, Zenon DEF State
<1>9. DataInv'
  BY <1>4, <1>5, SameData, Zenon DEF State, DataInv
<1> QED BY <1>4, <1>7, <1>8, <1>9 DEF State

\* A receiver puts its slot back.
LEMMA GiveBackState ==
    ASSUME NEW f, NEW q, State(f, q), NEW t \in Threads, GiveBack(t)
    PROVE  /\ got' = got /\ data' = data
           /\ \E s \in Slots : State(<<s>> \o f, q)' /\ Len(<<s>> \o f) = Len(f) + 1
<1>1. call[t].at = "link"
  BY DEF GiveBack
<1>2. PICK s \in Slots : s = call[t].slot
  BY <1>1, HolderRunning DEF State
<1>3. stat[t] = "ready" /\ error[t] = "EOK"
  BY <1>1, HolderRunning DEF State
<1>4. /\ PutBack(s) /\ WakeSender /\ call' = [call EXCEPT ![t] = Idle]
      /\ UNCHANGED <<data, head, tail, entry, receivers, got>>
  BY <1>2 DEF GiveBack
<1>5. Becomes(t, Idle)
  BY <1>4 DEF Becomes, State, ThreadInv
<1>6. ThreadInv'
  BY <1>3, <1>4, WakeKeeps, Zenon DEF State
<1>7. DataInv'
  BY <1>4, <1>5, SameData, IdleOK DEF State, DataInv
<1>8. SendersHold /\ LinkInv(f, q)
  BY HoldersHold DEF State
<1>9. LinkInv(<<s>> \o f, q)' /\ Len(<<s>> \o f) = Len(f) + 1
  BY <1>2, <1>4, <1>5, <1>8, PutBackLinks, Zenon
<1> QED BY <1>4, <1>6, <1>7, <1>9 DEF State

\* Steps that touch neither the slots nor the calls.
LEMMA AsideState ==
    ASSUME NEW f, NEW q, State(f, q), ThreadInv', UNCHANGED <<links, data, call, got>>
    PROVE  State(f, q)'
<1>1. LinkInv(f, q)'
  BY IdleLinks DEF State
<1>2. DataInv'
  BY DEF State, DataInv, CopyUndisturbed
<1> QED BY <1>1, <1>2 DEF State

-----------------------------------------------------------------------------
(* The invariant holds.                                                    *)

\* rt_mq_init chains all slots, from the last to the first, into the free list.
LEMMA InitState == Init => State([i \in 1..Max |-> Max + 1 - i], <<>>)
<1> SUFFICES ASSUME Init PROVE State([i \in 1..Max |-> Max + 1 - i], <<>>)
  OBVIOUS
<1> DEFINE f == [i \in 1..Max |-> Max + 1 - i]
<1>1. Max \in Nat /\ Max # 0 /\ None \notin Slots /\ Slots = 1..Max
  BY QueueAssumption DEF Slots
<1>2. call = [t \in Threads |-> Idle] /\ CallOK(Idle) /\ Idle.at = "-" /\ Idle.op = "idle" /\ Idle.slot = None
  BY IdleOK DEF Init
<1>3. ThreadInv
  <2>1. ThreadTypeOK
    BY DEF Init, ThreadInit, ThreadTypeOK, Errors
  <2>2. call \in [Threads -> Calls]
    BY <1>2 DEF CallOK
  <2>3. CallInv
    BY <1>2, Zenon DEF Init, ThreadInit, CallInv
  <2>4. Suspended("recv") = {} /\ Suspended("send") = {}
    BY DEF Init, ThreadInit, Suspended
  <2> QED BY <2>1, <2>2, <2>3, <2>4, EmptyListProperties, Zenon DEF Init, ThreadInv, ListInv
<1>4. next = [s \in 1..Max |-> IF s = 1 THEN None ELSE s - 1] /\ free = Max
  BY <1>1 DEF Init
<1>5. next \in [Slots -> Slots \cup {None}]
  BY <1>1, <1>4
<1>6. \A i \in 1..Max : f[i] = Max + 1 - i /\ f[i] \in Slots
  BY <1>1
<1>7. f \in Seq(Slots) /\ Len(f) = Max /\ DOMAIN f = 1..Max
  <2>1. f \in [1..Max -> Slots]
    BY <1>1
  <2> QED BY <1>1, <2>1
<1> HIDE DEF f
<1>8. SlotList(next, f, free)
  <2>1. Distinct(f)
    BY <1>1, <1>6, <1>7 DEF Distinct
  <2>2. f # <<>> /\ f[1] = free
    <3>1. f # <<>>
      BY <1>1, <1>7, NoSlots
    <3>2. 1 \in 1..Max /\ Max + 1 - 1 = Max
      BY <1>1
    <3> QED BY <1>4, <1>6, <3>1, <3>2
  <2>3. ASSUME NEW i \in 1..Max PROVE next[f[i]] = IF i = Max THEN None ELSE f[i + 1]
    <3>1. Max + 1 - i \in 1..Max /\ (Max + 1 - i = 1 <=> i = Max)
      BY <1>1
    <3>2. i # Max => i + 1 \in 1..Max /\ Max + 1 - (i + 1) = (Max + 1 - i) - 1
      BY <1>1
    <3>3. next[Max + 1 - i] = IF i = Max THEN None ELSE (Max + 1 - i) - 1
      BY <1>4, <3>1
    <3> QED BY <1>6, <3>2, <3>3
  <2> QED BY <1>7, <2>1, <2>2, <2>3 DEF SlotList, IsChain
<1>9. Members(f) = Slots
  <2>1. ASSUME NEW s \in 1..Max PROVE s \in Members(f)
    <3>1. Max + 1 - s \in 1..Max /\ Max + 1 - (Max + 1 - s) = s
      BY <1>1
    <3> QED BY <1>6, <1>7, <3>1 DEF Members
  <2> QED BY <1>1, <1>6, <1>7, <2>1, Zenon DEF Members
<1>10. HeldInv(f, <<>>) /\ EndsInv
  BY <1>1, <1>2, <1>9, EmptyList DEF HeldInv, EndsInv
<1>11. SlotList(next, <<>>, head) /\ entry = Len(<<>>) /\ tail = LastOf(<<>>)
  BY EmptyList DEF Init, LastOf
<1>12. DataInv
  <2>1. PICK v \in Msgs : data = [s \in Slots |-> v] /\ got = v
    BY DEF Init
  <2>2. CopyUndisturbed
    BY <1>2 DEF CopyUndisturbed
  <2> QED BY <2>1, <2>2 DEF DataInv
<1> QED BY <1>3, <1>5, <1>8, <1>10, <1>11, <1>12 DEF State, LinkInv, f

-----------------------------------------------------------------------------
(* The threads on their way to a message or a slot.                        *)

\* What the proofs need to know of counting threads; proved below, where the library of
\* finite sets is brought in.
Counted ==
    \A S \in SUBSET Threads, x \in Threads :
        /\ Cardinality(S) \in Nat
        /\ x \notin S => Cardinality(S \cup {x}) = Cardinality(S) + 1
        /\ Cardinality(S \ {x}) >= Cardinality(S) - 1

\* While a receiver is suspended every message, and while a sender is suspended every slot of
\* the free list f, has a woken thread on its way to it.
Remembered(f) ==
    /\ receivers # <<>> => entry <= Cardinality(Woken("recv"))
    /\ senders # <<>> => Len(f) <= Cardinality(Woken("send"))

LEMMA StateCounts ==
    ASSUME NEW f, NEW q, State(f, q)
    PROVE  f \in Seq(Slots) /\ Len(f) \in Nat /\ entry \in Nat
BY DEF State, LinkInv, SlotList

LEMMA WokenType == \A op : Woken(op) \in SUBSET Threads /\ Woken(op)' \in SUBSET Threads
BY Zenon DEF Woken

\* One thread t changes and is woken in no call before or after: the counts stay.
LEMMA SameWoken ==
    ASSUME NEW t \in Threads, NEW op,
           \A u \in Threads \ {t} : call'[u] = call[u] /\ stat'[u] = stat[u] /\ error'[u] = error[u],
           t \notin Woken(op), t \notin Woken(op)'
    PROVE  Woken(op)' = Woken(op)
BY DEF Woken

\* A running thread t goes on or returns: it is in no count any more.
LEMMA MovedWoken ==
    ASSUME NEW t \in Threads, NEW c, Becomes(t, c), c.at # "wait", UNCHANGED threadVars, NEW op
    PROVE  /\ Woken(op)' = Woken(op) \ {t}
           /\ call[t].op # op \/ call[t].at # "wait" => Woken(op)' = Woken(op)
<1>1. call'[t].at # "wait" /\ \A u \in Threads \ {t} : call'[u] = call[u]
  BY Zenon DEF Becomes
<1> QED BY <1>1, Zenon DEF Woken, threadVars

\* Waking the first of a list, if there is one, adds it to the woken threads of its kind;
\* the thread t that wakes it held a slot and is in no count.
LEMMA WakeCounts ==
    ASSUME ThreadInv, NEW t \in Threads, call[t].at = "link", NEW list \in Seq(Threads),
           NEW op \in {"send", "recv"}, NEW other \in {"send", "recv"}, op # other,
           Distinct(list), Members(list) = Suspended(op),
           ResumeFirst(list), call' = [call EXCEPT ![t] = Idle]
    PROVE  /\ Woken(other)' = Woken(other)
           /\ list # <<>> => /\ Woken(op)' = Woken(op) \cup {Head(list)}
                            /\ Head(list) \in Threads /\ Head(list) \notin Woken(op)
<1>1. stat[t] = "ready"
  BY HolderRunning
<1>2. Becomes(t, Idle) /\ Idle.at # "wait" /\ call[t].at # "wait"
  BY IdleOK DEF Becomes, ThreadInv
<1>3. CASE list = <<>>
  BY <1>2, <1>3, MovedWoken DEF ResumeFirst
<1>4. CASE list # <<>>
  <2> DEFINE h == Head(list)
  <2>1. h \in Suspended(op) /\ h \in Threads
    BY <1>4, ListTailProperties
  <2>2. h # t /\ call[h].op = op /\ error[h] = "EOK" /\ stat[h] = "suspend" /\ call[h].at = "wait"
    BY <1>1, <2>1 DEF Suspended, ThreadInv, CallInv
  <2>3. stat' = [stat EXCEPT ![h] = "ready"] /\ error' = error
    BY <1>4 DEF ResumeFirst, Resume
  <2> HIDE DEF h
  <2>4. stat'[h] = "ready" /\ \A u \in Threads \ {h} : stat'[u] = stat[u]
    BY <2>1, <2>3 DEF ThreadInv, ThreadTypeOK
  <2>5. call'[t].at # "wait" /\ \A u \in Threads \ {t} : call'[u] = call[u]
    BY <1>2, Zenon DEF Becomes
  <2>6. \A u \in Threads : u # h => (u \in Woken(op)' <=> u \in Woken(op))
                                    /\ (u \in Woken(other)' <=> u \in Woken(other))
    BY <1>2, <2>3, <2>4, <2>5, Zenon DEF Woken
  <2>7. h \notin Woken(other) /\ h \notin Woken(other)' /\ h \notin Woken(op) /\ h \in Woken(op)'
    BY <2>1, <2>2, <2>3, <2>4, <2>5, Zenon DEF Woken
  <2>8. Woken(other)' = Woken(other)
    <3>1. \A u \in Threads : u \in Woken(other)' <=> u \in Woken(other)
      BY <2>6, <2>7, Zenon
    <3>2. Woken(other)' \subseteq Threads /\ Woken(other) \subseteq Threads
      BY WokenType, Zenon
    <3> QED BY <3>1, <3>2, Zenon
  <2>9. Woken(op)' = Woken(op) \cup {h}
    BY <2>1, <2>6, <2>7, WokenType, Zenon
  <2> QED BY <2>1, <2>7, <2>8, <2>9 DEF h
<1> QED BY <1>3, <1>4

\* Neither the counts nor what they are compared with have changed, and the lists can only
\* have become empty.
LEMMA LeaveRemembers ==
    ASSUME NEW f, Remembered(f), entry' = entry,
           Woken("recv")' = Woken("recv"), Woken("send")' = Woken("send"),
           receivers = <<>> => receivers' = <<>>, senders = <<>> => senders' = <<>>
    PROVE  Remembered(f)'
BY DEF Remembered

\* A call claims a slot: there is one fewer, and at most one woken sender fewer.
LEMMA ClaimRemembers ==
    ASSUME NEW f, NEW q, State(f, q), Remembered(f), Counted, NEW t \in Threads,
           NEW op \in {"send", "urgent"}, NEW v \in Msgs, Enters(t, op), f # <<>>, Claim(t, op, v)
    PROVE  Remembered(Tail(f))'
<1> DEFINE c == Cardinality(Woken("send"))
           r == [op |-> op, at |-> "copy", left |-> "no", msg |-> v, slot |-> free]
<1>1. Len(f) \in Nat /\ Len(Tail(f)) = Len(f) - 1
  BY StateCounts
<1>2. Becomes(t, r) /\ r.at # "wait" /\ UNCHANGED <<threadVars, entry, receivers, senders>>
  BY DEF Claim, At, Becomes, State, ThreadInv
<1>3. call[t].op # "recv" \/ call[t].at # "wait"
  BY IdleOK DEF Enters
<1> HIDE DEF r
<1>4. Woken("recv")' = Woken("recv") /\ Woken("send")' = Woken("send") \ {t}
  BY <1>2, <1>3, MovedWoken, Zenon
<1>5. c \in Nat /\ c' \in Nat /\ c' >= c - 1
  BY <1>4, WokenType, Zenon DEF Counted
<1>6. senders # <<>> => Len(f) <= c
  BY DEF Remembered
<1> HIDE DEF c
<1>7. senders' # <<>> => Len(Tail(f)) <= c'
  BY <1>1, <1>2, <1>5, <1>6
<1> QED BY <1>2, <1>4, <1>7 DEF Remembered, c

\* A send that finds no slot returns or suspends.
LEMMA SendRemembers ==
    ASSUME Remembered(<<>>), Counted, ThreadInv, NEW t \in Threads, NEW v, NEW w,
           Enters(t, "send"), UNCHANGED <<links, receivers>>,
           \/ call' = [call EXCEPT ![t] = Idle] /\ UNCHANGED threadVars
           \/ At(t, "send", "wait", w, v, None) /\ Suspend(t, w = "timed")
    PROVE  Remembered(<<>>)'
<1> DEFINE r == [op |-> "send", at |-> "wait", left |-> w, msg |-> v, slot |-> None]
<1>1. call[t].op # "recv" /\ call'[t].op # "recv"
  <2>1. call[t].op # "recv"
    BY IdleOK DEF Enters
  <2>2. call'[t] = Idle \/ call'[t] = r
    BY Zenon DEF At, ThreadInv
  <2>3. r.op = "send"
    OBVIOUS
  <2> HIDE DEF r
  <2> QED BY <2>1, <2>2, <2>3, IdleOK
<1>2. \A u \in Threads \ {t} : call'[u] = call[u] /\ stat'[u] = stat[u] /\ error'[u] = error[u]
  BY Zenon DEF At, ThreadInv, ThreadTypeOK, Suspend, threadVars
<1>3. Woken("recv")' = Woken("recv")
  <2>1. t \notin Woken("recv") /\ t \notin Woken("recv")'
    BY <1>1, Zenon DEF Woken
  <2> QED BY <1>2, <2>1, SameWoken, Zenon
<1>4. Len(<<>>) <= Cardinality(Woken("send")')
  <2>1. Cardinality(Woken("send")') \in Nat
    BY WokenType, Zenon DEF Counted
  <2> QED BY <2>1
<1> QED BY <1>3, <1>4 DEF Remembered, links

\* A receive takes a message, and is at most one woken receiver, or finds no message.
LEMMA RecvRemembers ==
    ASSUME NEW f, NEW q, State(f, q), Remembered(f), Counted, NEW t \in Threads, NEW w \in Waits,
           Enters(t, "recv"), RecvSection(t, w)
    PROVE  Remembered(f)'
<1> DEFINE c == Cardinality(Woken("recv"))
<1>1. ThreadInv
  BY DEF State
<1>2. call[t].op # "send"
  BY IdleOK DEF Enters
<1>3. c \in Nat /\ c' \in Nat
  BY WokenType, Zenon DEF Counted
<1>4. ASSUME entry = 0, UNCHANGED <<links, senders>>,
             \/ call' = [call EXCEPT ![t] = Idle] /\ UNCHANGED threadVars
             \/ At(t, "recv", "wait", w, None, None) /\ Suspend(t, w = "timed")
      PROVE  Remembered(f)'
  <2> DEFINE r == [op |-> "recv", at |-> "wait", left |-> w, msg |-> None, slot |-> None]
  <2>1. call'[t].op # "send"
    <3>1. call'[t] = Idle \/ call'[t] = r
      BY <1>1, <1>4, Zenon DEF At, ThreadInv
    <3>2. r.op = "recv"
      OBVIOUS
    <3> HIDE DEF r
    <3> QED BY <3>1, <3>2, IdleOK, Zenon
  <2>2. \A u \in Threads \ {t} : call'[u] = call[u] /\ stat'[u] = stat[u] /\ error'[u] = error[u]
    BY <1>1, <1>4, Zenon DEF At, ThreadInv, ThreadTypeOK, Suspend, threadVars
  <2>3. Woken("send")' = Woken("send")
    <3>1. t \notin Woken("send") /\ t \notin Woken("send")'
      BY <1>2, <2>1, Zenon DEF Woken
    <3> QED BY <2>2, <3>1, SameWoken, Zenon
  <2> HIDE DEF c
  <2>4. entry' <= c'
    BY <1>3, <1>4 DEF links
  <2> QED BY <1>4, <2>3, <2>4 DEF Remembered, c
<1>5. CASE /\ entry # 0 /\ entry' = entry - 1 /\ At(t, "recv", "copy", "no", data[head], head)
           /\ UNCHANGED <<threadVars, receivers, senders>>
  <2> DEFINE r == [op |-> "recv", at |-> "copy", left |-> "no", msg |-> data[head], slot |-> head]
  <2>1. Becomes(t, r) /\ r.at # "wait"
    BY <1>1, <1>5 DEF At, Becomes, ThreadInv
  <2> HIDE DEF r
  <2>2. Woken("send")' = Woken("send") /\ Woken("recv")' = Woken("recv") \ {t}
    BY <1>2, <1>5, <2>1, MovedWoken, Zenon
  <2>3. c' >= c - 1
    BY <2>2, WokenType, Zenon DEF Counted
  <2>4. entry \in Nat /\ (receivers # <<>> => entry <= c)
    BY StateCounts DEF Remembered
  <2> HIDE DEF c
  <2>5. receivers' # <<>> => entry' <= c'
    BY <1>3, <1>5, <2>3, <2>4
  <2> QED BY <1>5, <2>2, <2>5 DEF Remembered, c
<1> QED BY <1>4, <1>5, Zenon DEF RecvSection

\* A linked message wakes a receiver, if one waits.
LEMMA LinkRemembers ==
    ASSUME NEW f, NEW q, State(f, q), Remembered(f), Counted, NEW t \in Threads, Link(t)
    PROVE  Remembered(f)'
<1> DEFINE c == Cardinality(Woken("recv"))
<1>1. /\ call[t].at = "link" /\ entry' = entry + 1 /\ call' = [call EXCEPT ![t] = Idle]
      /\ UNCHANGED senders /\ ResumeFirst(receivers) /\ receivers' = Rest(receivers)
  BY DEF Link, WakeReceiver
<1>2. /\ Woken("send")' = Woken("send")
      /\ receivers # <<>> => /\ Woken("recv")' = Woken("recv") \cup {Head(receivers)}
                            /\ Head(receivers) \in Threads /\ Head(receivers) \notin Woken("recv")
  BY <1>1, WakeCounts, Zenon DEF State, ThreadInv, ListInv
<1>3. CASE receivers = <<>>
  BY <1>1, <1>2, <1>3 DEF Rest, Remembered
<1>4. CASE receivers # <<>>
  <2>1. c \in Nat /\ c' = c + 1
    BY <1>2, <1>4, WokenType, Zenon DEF Counted
  <2>2. entry \in Nat /\ entry <= c
    BY <1>4, StateCounts DEF Remembered
  <2> HIDE DEF c
  <2>3. entry' <= c'
    BY <1>1, <2>1, <2>2
  <2> QED BY <1>1, <1>2, <2>3 DEF Remembered, c
<1> QED BY <1>3, <1>4

\* A slot given back wakes a sender, if one waits.
LEMMA GiveBackRemembers ==
    ASSUME NEW f, NEW q, State(f, q), Remembered(f), Counted, NEW t \in Threads, GiveBack(t),
           NEW g, Len(g) = Len(f) + 1
    PROVE  Remembered(g)'
<1> DEFINE c == Cardinality(Woken("send"))
<1>1. /\ call[t].at = "link" /\ entry' = entry /\ call' = [call EXCEPT ![t] = Idle]
      /\ UNCHANGED receivers /\ ResumeFirst(senders) /\ senders' = Rest(senders)
  BY DEF GiveBack, WakeSender
<1>2. /\ Woken("recv")' = Woken("recv")
      /\ senders # <<>> => /\ Woken("send")' = Woken("send") \cup {Head(senders)}
                          /\ Head(senders) \in Threads /\ Head(senders) \notin Woken("send")
  BY <1>1, WakeCounts, Zenon DEF State, ThreadInv, ListInv
<1>3. CASE senders = <<>>
  BY <1>1, <1>2, <1>3 DEF Rest, Remembered
<1>4. CASE senders # <<>>
  <2>1. c \in Nat /\ c' = c + 1
    BY <1>2, <1>4, WokenType, Zenon DEF Counted
  <2>2. Len(f) \in Nat /\ Len(f) <= c
    BY <1>4, StateCounts DEF Remembered
  <2> HIDE DEF c
  <2>3. Len(g) <= c'
    BY <2>1, <2>2
  <2> QED BY <1>1, <1>2, <2>3 DEF Remembered, c
<1> QED BY <1>3, <1>4

\* A copy, in or out, moves only its own call, which is in no count.
LEMMA CopyRemembers ==
    ASSUME NEW f, Remembered(f), ThreadInv, NEW t \in Threads, CopyIn(t) \/ CopyOut(t)
    PROVE  Remembered(f)'
<1> DEFINE o == call[t].op
           m == call[t].msg
           s == call[t].slot
           c == [op |-> o, at |-> "link", left |-> "no", msg |-> m, slot |-> s]
<1>1. Becomes(t, c)
  BY DEF CopyIn, CopyOut, At, Becomes, ThreadInv
<1>2. c.at # "wait"
  OBVIOUS
<1>3. call[t].at = "copy" /\ UNCHANGED <<threadVars, entry, receivers, senders>>
  BY Zenon DEF CopyIn, CopyOut, links
<1> HIDE DEF c
<1>4. Woken("recv")' = Woken("recv") /\ Woken("send")' = Woken("send")
  BY <1>1, <1>2, <1>3, MovedWoken, Zenon
<1> QED BY <1>3, <1>4, LeaveRemembers

\* A call that was woken with an error returns.
LEMMA FailRemembers ==
    ASSUME NEW f, Remembered(f), ThreadInv, NEW t \in Threads, Fail(t)
    PROVE  Remembered(f)'
<1>1. \A u \in Threads \ {t} : call'[u] = call[u] /\ stat'[u] = stat[u] /\ error'[u] = error[u]
  BY DEF Fail, Leave, ThreadInv, ThreadTypeOK
<1>2. error[t] # "EOK" /\ call'[t].at # "wait"
  <2>1. call'[t] = Idle
    BY DEF Fail, ThreadInv
  <2> QED BY <2>1, IdleOK DEF Fail
<1>3. ASSUME NEW op \in {"send", "recv"} PROVE t \notin Woken(op) /\ t \notin Woken(op)'
  BY <1>2 DEF Woken
<1>4. Woken("recv")' = Woken("recv") /\ Woken("send")' = Woken("send")
  BY <1>1, <1>3, SameWoken
<1> QED BY <1>4, LeaveRemembers DEF Fail, links

\* A timeout takes a suspended thread out of its list, and wakes it with an error.
LEMMA TimeoutRemembers ==
    ASSUME NEW f, Remembered(f), ThreadInv, NEW t \in Threads, Timeout(t)
    PROVE  Remembered(f)'
<1>1. \A u \in Threads \ {t} : call'[u] = call[u] /\ stat'[u] = stat[u] /\ error'[u] = error[u]
  BY DEF Timeout, ThreadTimeout, ThreadInv, ThreadTypeOK
<1>2. stat[t] = "suspend" /\ error'[t] = "ETIMEOUT"
  BY DEF Timeout, ThreadTimeout, ThreadInv, ThreadTypeOK, CallInv
<1>3. Woken("recv")' = Woken("recv") /\ Woken("send")' = Woken("send")
  <2>1. \A op \in {"recv", "send"} : t \notin Woken(op) /\ t \notin Woken(op)'
    BY <1>2, Zenon DEF Woken
  <2>2. \A op \in {"recv", "send"} : Woken(op)' = Woken(op)
    BY <1>1, <2>1, SameWoken, Zenon
  <2> QED BY <2>2, Zenon
<1>4. IF call[t].op = "recv" THEN receivers # <<>> ELSE senders # <<>>
  <2>1. call[t].op \in {"send", "recv"}
    BY <1>2, SuspendedWaits
  <2>2. IF call[t].op = "recv" THEN t \in Members(receivers) ELSE t \in Members(senders)
    BY <1>2, <2>1, Zenon DEF ThreadInv, ListInv, Suspended
  <2> QED BY <2>2, EmptyListProperties
<1> QED BY <1>3, <1>4, LeaveRemembers DEF Timeout, links

\* So does a step of the deletion.
LEMMA DeleteRemembers ==
    ASSUME NEW f, Remembered(f), ThreadInv, DeleteResume
    PROVE  Remembered(f)'
<1>1. ASSUME NEW h \in Threads, stat[h] = "suspend", ResumeError({h}), UNCHANGED call
      PROVE  Woken("recv")' = Woken("recv") /\ Woken("send")' = Woken("send")
  <2>1. \A u \in Threads \ {h} : call'[u] = call[u] /\ stat'[u] = stat[u] /\ error'[u] = error[u]
    BY <1>1 DEF ResumeError
  <2>2. error'[h] = "ERROR"
    BY <1>1 DEF ResumeError
  <2>3. \A op \in {"recv", "send"} : h \notin Woken(op) /\ h \notin Woken(op)'
    BY <1>1, <2>2, Zenon DEF Woken
  <2>4. \A op \in {"recv", "send"} : Woken(op)' = Woken(op)
    BY <2>1, <2>3, SameWoken, Zenon
  <2> QED BY <2>4, Zenon
<1>2. ASSUME NEW list \in {receivers, senders}, list # <<>>
      PROVE  Head(list) \in Threads /\ stat[Head(list)] = "suspend"
  BY <1>2, ListTailProperties DEF ThreadInv, ListInv, Suspended
<1>3. UNCHANGED <<entry, call>>
  BY DEF DeleteResume, links
<1>4. CASE receivers # <<>> /\ ResumeError({Head(receivers)}) /\ UNCHANGED senders
  BY <1>1, <1>2, <1>3, <1>4, LeaveRemembers, Zenon
<1>5. CASE senders # <<>> /\ ResumeError({Head(senders)}) /\ UNCHANGED receivers
  BY <1>1, <1>2, <1>3, <1>5, LeaveRemembers, Zenon
<1>6. CASE UNCHANGED <<threadVars, receivers, senders>>
  BY <1>3, <1>6, LeaveRemembers DEF Woken, threadVars
<1> QED BY <1>4, <1>5, <1>6 DEF DeleteResume

-----------------------------------------------------------------------------
(* Every step.                                                             *)

\* What a step does to the queue q, that it leaves as r: nothing, or a message enters at one
\* of its ends, or its first message leaves, or it is emptied.
QueueStep(q, r) ==
    \/ r = q /\ got' = got /\ \A s \in Members(q) : data'[s] = data[s]
    \/ \E s \in Slots : (r = Append(q, s) \/ r = <<s>> \o q) /\ data' = data /\ got' = got
    \/ q # <<>> /\ r = Tail(q) /\ data' = data /\ got' = data[Head(q)]
    \/ r = <<>> /\ data' = data /\ got' = got

\* A step from the queue q keeps what the proofs rest on.
GoesOn(q) == \E g, r : State(g, r)' /\ Remembered(g)' /\ QueueStep(q, r)

LEMMA EveryStep ==
    ASSUME NEW f, NEW q, State(f, q), Remembered(f), Counted, Chain(head) = q, [Next]_vars
    PROVE  GoesOn(q)
<1>1. ASSUME State(f, q)', Remembered(f)', UNCHANGED <<data, got>> PROVE GoesOn(q)
  BY <1>1 DEF GoesOn, QueueStep
<1>2. ThreadInv
  BY DEF State
<1>3. ASSUME NEW t \in Threads, NEW op \in {"send", "urgent"}, NEW v \in Msgs, Enters(t, op),
             Claim(t, op, v)
      PROVE  GoesOn(q)
  <2>1. f # <<>> /\ State(Tail(f), q)'
    BY <1>3, ClaimState
  <2>2. Remembered(Tail(f))'
    BY <1>3, <2>1, ClaimRemembers
  <2>3. QueueStep(q, q)
    BY <1>3 DEF Claim, QueueStep
  <2> QED BY <2>1, <2>2, <2>3 DEF GoesOn
<1>4. ASSUME NEW t \in Threads, NEW v \in Msgs, NEW w \in Waits, Enters(t, "send"), SendSection(t, v, w)
      PROVE  GoesOn(q)
  <2>1. CASE Claim(t, "send", v)
    BY <1>3, <1>4, <2>1
  <2>2. CASE ~ Claim(t, "send", v)
    <3>1. /\ free = None /\ UNCHANGED <<links, receivers, data, got>>
          /\ \/ call' = [call EXCEPT ![t] = Idle] /\ UNCHANGED threadVars
             \/ At(t, "send", "wait", w, v, None) /\ Suspend(t, w = "timed")
      BY <1>4, <2>2 DEF SendSection
    <3>2. f = <<>>
      BY <3>1, EmptyStart DEF State, LinkInv
    <3>3. State(f, q)'
      BY <1>4, <3>2, SendSectionState
    <3>4. Remembered(f)'
      BY <1>2, <1>4, <3>1, <3>2, SendRemembers
    <3> QED BY <1>1, <3>1, <3>3, <3>4
  <2> QED BY <2>1, <2>2
<1>5. ASSUME NEW t \in Threads, NEW w \in Waits, Enters(t, "recv"), RecvSection(t, w)
      PROVE  GoesOn(q)
  <2>1. /\ data' = data
        /\ \/ State(f, q)' /\ got' = got
           \/ q # <<>> /\ got' = data[Head(q)] /\ State(f, Tail(q))'
    BY <1>5, RecvSectionState
  <2>2. Remembered(f)'
    BY <1>5, RecvRemembers
  <2> QED BY <1>1, <2>1, <2>2, Zenon DEF GoesOn, QueueStep
<1>6. ASSUME NEW t \in Threads, NEW v \in Msgs, NEW w \in Waits, Send(t, v, w) PROVE GoesOn(q)
  BY <1>4, <1>6 DEF Send, Enters
<1>7. ASSUME NEW t \in Threads, NEW w \in Waits, Recv(t, w) PROVE GoesOn(q)
  BY <1>5, <1>7 DEF Recv, Enters
<1>8. ASSUME UNCHANGED <<threadVars, links, data, receivers, senders, call, got>> PROVE GoesOn(q)
  <2>1. ThreadInv'
    BY <1>2, <1>8, Zenon DEF threadVars, ThreadInv, ThreadTypeOK, CallInv, CallOK, ListInv, Suspended
  <2>2. State(f, q)'
    BY <1>8, <2>1, AsideState
  <2>3. Remembered(f)'
    BY <1>8, LeaveRemembers, Zenon DEF Woken, threadVars, links
  <2> QED BY <1>1, <1>8, <2>2, <2>3
<1>9. CASE UNCHANGED vars
  BY <1>8, <1>9 DEF vars, threadVars, links
<1>10. ASSUME NEW t \in Threads, NEW v \in Msgs, Urgent(t, v) PROVE GoesOn(q)
  <2>1. CASE Claim(t, "urgent", v) /\ call[t] = Idle
    BY <1>3, <2>1 DEF Enters
  <2> QED BY <1>9, <1>10, <2>1 DEF Urgent
<1>11. ASSUME NEW t \in Threads, Fail(t) PROVE GoesOn(q)
  <2>1. call[t].slot = None
    BY <1>2, <1>11, Zenon DEF Fail, ThreadInv, CallInv, CallOK
  <2>2. State(f, q)'
    BY <1>11, <2>1, LeaveState, Zenon DEF Fail, Leave
  <2>3. Remembered(f)'
    BY <1>2, <1>11, FailRemembers
  <2> QED BY <1>1, <1>11, <2>2, <2>3 DEF Fail
<1>12. ASSUME NEW t \in Threads, Retry(t) PROVE GoesOn(q)
  <2>1. PICK w \in Remaining(call[t].left) :
           \/ call[t].op = "send" /\ SendSection(t, call[t].msg, w)
           \/ call[t].op = "recv" /\ RecvSection(t, w)
    BY <1>12, Zenon DEF Retry
  <2>2. w \in Waits /\ (call[t].op = "send" => call[t].msg \in Msgs)
    <3>1. CallOK(call[t])
      BY <1>2, Zenon DEF ThreadInv, CallInv
    <3> QED BY <3>1 DEF Remaining, CallOK, Calls, Waits
  <2>3. Enters(t, call[t].op)
    BY <1>12 DEF Retry, Enters
  <2> QED BY <1>4, <1>5, <2>1, <2>2, <2>3, Zenon
<1>13. ASSUME NEW t \in Threads, CopyIn(t) PROVE GoesOn(q)
  <2>1. State(f, q)' /\ QueueStep(q, q)
    BY <1>13, CopyInState DEF QueueStep
  <2>2. Remembered(f)'
    BY <1>2, <1>13, CopyRemembers
  <2> QED BY <2>1, <2>2 DEF GoesOn
<1>14. ASSUME NEW t \in Threads, Link(t) PROVE GoesOn(q)
  <2>1. got' = got /\ data' = data
    BY <1>14, LinkState
  <2>2. PICK s \in Slots : State(f, Append(q, s))' \/ State(f, <<s>> \o q)'
    BY <1>14, LinkState
  <2>3. Remembered(f)'
    BY <1>14, LinkRemembers
  <2> QED BY <2>1, <2>2, <2>3, Zenon DEF GoesOn, QueueStep
<1>15. ASSUME NEW t \in Threads, CopyOut(t) PROVE GoesOn(q)
  BY <1>1, <1>2, <1>15, CopyOutState, CopyRemembers
<1>16. ASSUME NEW t \in Threads, GiveBack(t) PROVE GoesOn(q)
  <2>1. QueueStep(q, q)
    BY <1>16, GiveBackState DEF QueueStep
  <2>2. PICK s \in Slots : State(<<s>> \o f, q)' /\ Len(<<s>> \o f) = Len(f) + 1
    BY <1>16, GiveBackState, Zenon
  <2>3. Remembered(<<s>> \o f)'
    BY <1>16, <2>2, GiveBackRemembers, Zenon
  <2> QED BY <2>1, <2>2, <2>3 DEF GoesOn
<1>17. ASSUME NEW t \in Threads, Continue(t) PROVE GoesOn(q)
  BY <1>8, <1>12, <1>13, <1>14, <1>15, <1>16, <1>17, Zenon DEF Continue
<1>18. ASSUME NEW t \in Threads, Timeout(t) PROVE GoesOn(q)
  <2>1. State(f, q)'
    BY <1>2, <1>18, TimeoutKeeps, AsideState DEF Timeout
  <2>2. Remembered(f)'
    BY <1>2, <1>18, TimeoutRemembers
  <2> QED BY <1>1, <1>18, <2>1, <2>2, Zenon DEF Timeout
<1>19. CASE Reset
  <2>1. ThreadInv'
    BY <1>2, <1>19, ResetKeeps
  <2>2. LinkInv(Moved(q, f), <<>>)'
    BY <1>2, <1>19, ResetLinks, HoldersHold DEF State
  <2>3. DataInv' /\ UNCHANGED <<data, got>>
    BY <1>19, Zenon DEF Reset, State, DataInv, CopyUndisturbed
  <2>4. State(Moved(q, f), <<>>)' /\ QueueStep(q, <<>>)
    BY <2>1, <2>2, <2>3 DEF State, QueueStep
  <2>5. Remembered(Moved(q, f))'
    BY <1>19 DEF Reset, Remembered
  <2> QED BY <2>4, <2>5 DEF GoesOn
<1>20. CASE DeleteCheck \/ DeleteFree
  BY <1>8, <1>20, Zenon DEF DeleteCheck, DeleteFree
<1>21. CASE DeleteResume
  <2>1. ThreadInv'
    BY <1>2, <1>21, DeleteKeeps
  <2>2. State(f, q)'
    BY <1>21, <2>1, AsideState DEF DeleteResume
  <2>3. Remembered(f)'
    BY <1>2, <1>21, DeleteRemembers
  <2> QED BY <1>1, <1>21, <2>2, <2>3 DEF DeleteResume
<1> QED BY <1>6, <1>7, <1>9, <1>10, <1>11, <1>17, <1>18, <1>19, <1>20, <1>21, Zenon DEF Next

Places == {"none", "recvCheck", "recvResume", "sendCheck", "sendResume",
           "free", "gone", "fault", "stale"}

LEMMA DelStep == del \in Places /\ [Next]_vars => del' \in Places
<1> SUFFICES ASSUME del \in Places, [Next]_vars PROVE del' \in Places
  OBVIOUS
<1>1. ASSUME NEW t \in Threads,
             \/ \E v \in Msgs : Urgent(t, v) \/ \E w \in Waits : Send(t, v, w)
             \/ \E w \in Waits : Recv(t, w)
             \/ Fail(t) \/ Continue(t) \/ Timeout(t)
      PROVE  del' = del \/ del' = "stale"
  BY <1>1, Zenon DEF Urgent, Send, Recv, Fail, Continue, Timeout, vars
<1>2. CASE Reset \/ UNCHANGED vars
  BY <1>2 DEF Reset, vars
<1>3. CASE DeleteCheck \/ DeleteResume \/ DeleteFree
  BY <1>3 DEF DeleteCheck, DeleteResume, DeleteFree, Places
<1> QED BY <1>1, <1>2, <1>3 DEF Next, Places

-----------------------------------------------------------------------------
(* The chained slots implement the bounded queue.                          *)

\* The bytes of the slots of q.
Bytes(d, q) == [i \in DOMAIN q |-> d[q[i]]]

LEMMA BytesType ==
    ASSUME NEW d \in [Slots -> Msgs], NEW q \in Seq(Slots)
    PROVE  /\ Bytes(d, q) \in Seq(Msgs) /\ Len(Bytes(d, q)) = Len(q)
           /\ \A i \in 1..Len(q) : Bytes(d, q)[i] = d[q[i]]
<1>1. Len(q) \in Nat /\ DOMAIN q = 1..Len(q) /\ \A i \in 1..Len(q) : q[i] \in Slots
  OBVIOUS
<1> QED BY <1>1 DEF Bytes

LEMMA BytesAppend ==
    ASSUME NEW d \in [Slots -> Msgs], NEW q \in Seq(Slots), NEW s \in Slots
    PROVE  Bytes(d, Append(q, s)) = Append(Bytes(d, q), d[s])
<1> DEFINE n == Len(q)
           b == Bytes(d, q)
           r == Append(q, s)
           x == Bytes(d, r)
           y == Append(b, d[s])
<1>1. n \in Nat /\ d[s] \in Msgs
  OBVIOUS
<1>2. r \in Seq(Slots) /\ Len(r) = n + 1 /\ r[n + 1] = s /\ \A i \in 1..n : r[i] = q[i]
  OBVIOUS
<1>3. b \in Seq(Msgs) /\ Len(b) = n /\ \A i \in 1..n : b[i] = d[q[i]]
  BY BytesType
<1> HIDE DEF b, r
<1>4. x \in Seq(Msgs) /\ Len(x) = n + 1 /\ \A i \in 1..(n + 1) : x[i] = d[r[i]]
  BY <1>2, BytesType, Zenon
<1> HIDE DEF x
<1>5. y \in Seq(Msgs) /\ Len(y) = n + 1 /\ y[n + 1] = d[s] /\ \A i \in 1..n : y[i] = b[i]
  BY <1>1, <1>3
<1> HIDE DEF y
<1>6. ASSUME NEW i \in 1..(n + 1) PROVE x[i] = y[i]
  <2>1. i = n + 1 \/ i \in 1..n
    BY <1>1
  <2>2. x[i] = d[r[i]]
    BY <1>4
  <2> QED BY <1>2, <1>3, <1>5, <2>1, <2>2, Zenon
<1>7. x = y
  BY <1>4, <1>5, <1>6
<1> QED BY <1>7 DEF x, y, b, r

LEMMA BytesPush ==
    ASSUME NEW d \in [Slots -> Msgs], NEW q \in Seq(Slots), NEW s \in Slots
    PROVE  Bytes(d, <<s>> \o q) = <<d[s]>> \o Bytes(d, q)
<1> DEFINE n == Len(q)
           b == Bytes(d, q)
           r == <<s>> \o q
           x == Bytes(d, r)
           y == <<d[s]>> \o b
<1>1. n \in Nat /\ d[s] \in Msgs
  OBVIOUS
<1>2. r \in Seq(Slots) /\ Len(r) = n + 1 /\ r[1] = s /\ \A i \in 2..(n + 1) : r[i] = q[i - 1]
  <2>1. <<s>> \in Seq(Slots) /\ Len(<<s>>) = 1 /\ <<s>>[1] = s
    OBVIOUS
  <2>2. r \in Seq(Slots) /\ Len(r) = 1 + n /\ \A i \in 1..(1 + n) : r[i] = IF i <= 1 THEN <<s>>[i] ELSE q[i - 1]
    BY <1>1, <2>1
  <2> HIDE DEF r
  <2> QED BY <1>1, <2>1, <2>2
<1>3. b \in Seq(Msgs) /\ Len(b) = n /\ \A i \in 1..n : b[i] = d[q[i]]
  BY BytesType
<1> HIDE DEF b, r
<1>4. /\ x \in Seq(Msgs) /\ Len(x) = n + 1
      /\ \A i \in 1..(n + 1) : x[i] = d[r[i]]
  BY <1>2, BytesType
<1> HIDE DEF x
<1>5. y \in Seq(Msgs) /\ Len(y) = n + 1 /\ y[1] = d[s] /\ \A i \in 2..(n + 1) : y[i] = b[i - 1]
  <2>1. <<d[s]>> \in Seq(Msgs) /\ Len(<<d[s]>>) = 1 /\ <<d[s]>>[1] = d[s]
    BY <1>1
  <2>2. /\ y \in Seq(Msgs) /\ Len(y) = 1 + n
        /\ \A i \in 1..(1 + n) : y[i] = IF i <= 1 THEN <<d[s]>>[i] ELSE b[i - 1]
    BY <1>1, <1>3, <2>1
  <2> HIDE DEF y, n
  <2> QED BY <1>1, <2>1, <2>2
<1> HIDE DEF y
<1>6. ASSUME NEW i \in 1..(n + 1) PROVE x[i] = y[i]
  <2>1. i = 1 \/ (i \in 2..(n + 1) /\ i - 1 \in 1..n)
    BY <1>1
  <2> QED BY <1>2, <1>3, <1>4, <1>5, <2>1
<1>7. x = y
  BY <1>4, <1>5, <1>6
<1> QED BY <1>7 DEF x, y, b, r

LEMMA BytesTail ==
    ASSUME NEW d \in [Slots -> Msgs], NEW q \in Seq(Slots), q # <<>>
    PROVE  /\ Bytes(d, q) # <<>> /\ Head(Bytes(d, q)) = d[Head(q)]
           /\ Bytes(d, Tail(q)) = Tail(Bytes(d, q))
<1> DEFINE n == Len(q)
           b == Bytes(d, q)
           r == Tail(q)
           x == Bytes(d, r)
           y == Tail(b)
<1>1. n \in Nat /\ n > 0 /\ Head(q) = q[1]
  OBVIOUS
<1>2. r \in Seq(Slots) /\ Len(r) = n - 1 /\ \A i \in 1..(n - 1) : r[i] = q[i + 1]
  BY <1>1
<1>3. b \in Seq(Msgs) /\ Len(b) = n /\ \A i \in 1..n : b[i] = d[q[i]]
  BY BytesType
<1> HIDE DEF b, r
<1>4. x \in Seq(Msgs) /\ Len(x) = n - 1 /\ \A i \in 1..(n - 1) : x[i] = d[r[i]]
  BY <1>2, BytesType
<1> HIDE DEF x
<1>5. b # <<>> /\ Head(b) = d[Head(q)]
  BY <1>1, <1>3
<1>6. y \in Seq(Msgs) /\ Len(y) = n - 1 /\ \A i \in 1..(n - 1) : y[i] = b[i + 1]
  BY <1>1, <1>3, <1>5
<1> HIDE DEF y
<1>7. ASSUME NEW i \in 1..(n - 1) PROVE x[i] = y[i]
  <2>1. i + 1 \in 1..n
    BY <1>1
  <2>2. x[i] = d[q[i + 1]] /\ y[i] = b[i + 1]
    BY <1>2, <1>4, <1>6
  <2> QED BY <1>3, <2>1, <2>2, Zenon
<1>8. x = y
  <2> DEFINE m == n - 1
  <2>1. /\ x \in Seq(Msgs) /\ y \in Seq(Msgs) /\ Len(x) = m /\ Len(y) = m
        /\ \A i \in 1..m : x[i] = y[i]
    BY <1>4, <1>6, <1>7
  <2> HIDE DEF m
  <2> QED BY <2>1
<1> QED BY <1>5, <1>8 DEF x, y, b, r

\* The messages in the queue are the bytes of the slots q.
Holds(q) == Content = Bytes(data, q) /\ q \in Seq(Slots) /\ Len(q) \in 0..Max

\* A step is an operation of the abstract queue, or leaves it alone.
LEMMA StepRefines ==
    ASSUME NEW q, NEW r, Holds(q), Holds(r)', data \in [Slots -> Msgs], QueueStep(q, r)
    PROVE  [Queue!Next]_<<Content, got>>
<1>1. /\ Content = Bytes(data, q) /\ q \in Seq(Slots) /\ Len(q) \in 0..Max
      /\ Content' = Bytes(data', r) /\ r \in Seq(Slots) /\ Len(r) \in 0..Max
  BY DEF Holds
<1>2. Content \in Seq(Msgs) /\ Len(Content) = Len(q)
  BY <1>1, BytesType
<1>3. CASE r = q /\ got' = got /\ \A s \in Members(q) : data'[s] = data[s]
  <2>1. Bytes(data', q) = Bytes(data, q)
    BY <1>3 DEF Bytes, Members
  <2> QED BY <1>1, <1>3, <2>1
<1>4. ASSUME NEW s \in Slots, r = Append(q, s), data' = data, got' = got
      PROVE  Queue!Put(data[s]) /\ data[s] \in Msgs
  <2>1. Content' = Append(Content, data[s]) /\ data[s] \in Msgs
    BY <1>1, <1>4, BytesAppend
  <2>2. Len(Content) < Max
    <3>1. Len(r) = Len(q) + 1
      BY <1>1, <1>4
    <3> QED BY <1>1, <1>2, <3>1, QueueAssumption
  <2> QED BY <1>4, <2>1, <2>2 DEF Queue!Put
<1>5. ASSUME NEW s \in Slots, r = <<s>> \o q, data' = data, got' = got
      PROVE  Queue!PutFirst(data[s]) /\ data[s] \in Msgs
  <2>1. Content' = <<data[s]>> \o Content /\ data[s] \in Msgs
    BY <1>1, <1>5, BytesPush, Zenon
  <2>2. Len(Content) < Max
    <3>1. Len(r) = Len(q) + 1
      BY <1>1, <1>5
    <3> QED BY <1>1, <1>2, <3>1, QueueAssumption
  <2> QED BY <1>5, <2>1, <2>2 DEF Queue!PutFirst
<1>6. CASE q # <<>> /\ r = Tail(q) /\ data' = data /\ got' = data[Head(q)]
  <2>1. Content # <<>> /\ Head(Content) = data[Head(q)] /\ Content' = Tail(Content)
    BY <1>1, <1>6, BytesTail
  <2> QED BY <1>6, <2>1 DEF Queue!Next, Queue!Get
<1>7. CASE r = <<>> /\ data' = data /\ got' = got
  <2>1. Content' = <<>>
    BY <1>1, <1>7 DEF Bytes
  <2> QED BY <1>7, <2>1 DEF Queue!Next, Queue!Clear
<1> QED BY <1>3, <1>4, <1>5, <1>6, <1>7, Zenon DEF QueueStep, Queue!Next

-----------------------------------------------------------------------------
(* What the invariant says of the lists the pointers start.                *)

LEMMA Partitioned ==
    ASSUME NEW f, NEW q, State(f, q), Chain(free) = f, Chain(head) = q, Len(q) \in 0..Max,
           del \in Places
    PROVE  SlotsPartitioned
<1>1. LinkInv(f, q) /\ HeldInv(f, q) /\ Distinct(f) /\ Distinct(q)
  BY DEF State, LinkInv, SlotList
<1>2. TypeOK
  <2>1. head \in Slots \cup {None} /\ free \in Slots \cup {None}
    BY <1>1, ListStart DEF LinkInv
  <2>2. tail \in Slots \cup {None}
    <3>1. q \in Seq(Slots) /\ tail = LastOf(q)
      BY <1>1 DEF LinkInv, SlotList
    <3>2. q # <<>> => q[Len(q)] \in Slots
      BY <3>1
    <3> QED BY <3>1, <3>2 DEF LastOf
  <2>3. entry \in 0..Max /\ next \in [Slots -> Slots \cup {None}]
    BY <1>1 DEF LinkInv
  <2>4. del \in {"none", "recvCheck", "recvResume", "sendCheck", "sendResume",
                 "free", "gone", "fault", "stale"}
    BY DEF Places
  <2> QED BY <2>1, <2>2, <2>3, <2>4 DEF TypeOK, State, ThreadInv, DataInv, Calls
<1>3. TailAndEntryAgree
  BY <1>1 DEF TailAndEntryAgree, LinkInv, LastOf
<1>4. InFlight \cap (Members(f) \cup Members(q)) = {}
  BY <1>1 DEF InFlight, HeldInv
<1>5. Members(f) \cup Members(q) \cup InFlight = Slots
  <2>1. InFlight \subseteq Slots
    BY DEF InFlight, State, ThreadInv, Calls
  <2>2. \A s \in Slots : s \in Members(f) \cup Members(q) \cup InFlight
    <3>1. None \notin Slots
      BY QueueAssumption DEF Slots
    <3> QED BY <1>1, <3>1, Zenon DEF InFlight, HeldInv
  <2> QED BY <1>1, <2>1, <2>2, Zenon DEF HeldInv
<1>6. Members(f) \cap Members(q) = {}
  BY <1>1, Zenon DEF HeldInv
<1>7. \A t, u \in Threads : call[t].slot = call[u].slot /\ call[t].slot # None => t = u
  BY <1>1 DEF HeldInv
<1>8. (Members(f) \cup Members(q)) \cap InFlight = {}
  BY <1>4
<1> QED BY <1>1, <1>2, <1>3, <1>5, <1>6, <1>7, <1>8, Zenon DEF SlotsPartitioned

\* A pointer starts at most one list.
LEMMA ChainUnique ==
    ASSUME WellOrdered, NEW nx, NEW p, NEW q \in Seq(Slots), NEW r \in Seq(Slots),
           IsChain(nx, q, p), IsChain(nx, r, p), Len(q) <= Len(r)
    PROVE  q = r
<1> DEFINE n == Len(q)
           m == Len(r)
           S == {i \in 1..n : q[i] # r[i]}
<1>1. /\ n \in Nat /\ DOMAIN q = 1..n /\ \A i \in 1..n : q[i] \in Slots
      /\ m \in Nat /\ DOMAIN r = 1..m /\ \A i \in 1..m : r[i] \in Slots
      /\ n <= m
  OBVIOUS
<1>2. None \notin Slots
  BY QueueAssumption DEF Slots
<1>3. /\ p = IF n = 0 THEN None ELSE q[1]
      /\ p = IF m = 0 THEN None ELSE r[1]
  BY <1>1 DEF IsChain
<1>4. /\ \A i \in 1..n : nx[q[i]] = IF i = n THEN None ELSE q[i + 1]
      /\ \A i \in 1..m : nx[r[i]] = IF i = m THEN None ELSE r[i + 1]
  BY <1>1, Zenon DEF IsChain
<1> HIDE DEF n, m
<1>5. S = {}
  <2> SUFFICES ASSUME S # {} PROVE FALSE
    OBVIOUS
  <2>1. S \subseteq Nat
    BY <1>1
  <2>2. PICK i \in S : \A j \in S : i <= j
    BY <2>1, Zenon DEF WellOrdered
  <2>3. i \in 1..n /\ i \in 1..m /\ q[i] # r[i]
    BY <1>1, <2>2
  <2>4. i # 1
    BY <1>1, <1>3, <2>3
  <2>5. i - 1 \in 1..n /\ i - 1 \in 1..m /\ i - 1 # n /\ i - 1 # m /\ (i - 1) + 1 = i
    BY <1>1, <2>3, <2>4
  <2>6. q[i - 1] = r[i - 1]
    BY <2>2, <2>3, <2>5
  <2>7. nx[q[i - 1]] = q[i] /\ nx[r[i - 1]] = r[i]
    BY <1>4, <2>5
  <2> QED BY <2>3, <2>6, <2>7
<1>6. ~ (n < m)
  <2> SUFFICES ASSUME n < m PROVE FALSE
    OBVIOUS
  <2>1. CASE n = 0
    BY <1>1, <1>2, <1>3, <2>1
  <2>2. CASE n # 0
    <3>1. n \in 1..n /\ n \in 1..m /\ n + 1 \in 1..m /\ n # m
      BY <1>1, <2>2
    <3>2. q[n] = r[n]
      BY <1>5, <3>1
    <3>3. nx[q[n]] = None /\ nx[r[n]] = r[n + 1]
      BY <1>4, <3>1
    <3> QED BY <1>1, <1>2, <3>1, <3>2, <3>3
  <2> QED BY <2>1, <2>2
<1>7. n = m
  BY <1>1, <1>6
<1> QED BY <1>1, <1>5, <1>7 DEF n, m

\* A list that fits the pool is the one Chain finds.
LEMMA ChainIs ==
    ASSUME WellOrdered, NEW p, NEW q \in Seq(Slots), Len(q) <= Max, IsChain(next, q, p)
    PROVE  Chain(p) = q
<1> DEFINE U == UNION {[1..n -> Slots] : n \in 0..Max}
           r == Chain(p)
<1>1. q \in U
  <2>1. Len(q) \in 0..Max /\ q \in [1..Len(q) -> Slots]
    BY QueueAssumption
  <2> QED BY <2>1
<1>2. r \in U /\ IsChain(next, r, p)
  BY <1>1, Zenon DEF Chain
<1>3. r \in Seq(Slots)
  BY <1>2, QueueAssumption
<1> HIDE DEF r
<1>4. Len(q) \in Nat /\ Len(r) \in Nat
  BY <1>3
<1> QED BY <1>2, <1>3, <1>4, ChainUnique DEF r

-----------------------------------------------------------------------------
(* Lists and numbers of threads, from the library.                         *)

LOCAL INSTANCE WellFoundedInduction

\* The least of a set of numbers.
LEMMA LeastNumber == WellOrdered
<1> SUFFICES ASSUME NEW S \in SUBSET Nat, S # {} PROVE \E x \in S : \A y \in S : x <= y
  BY DEF WellOrdered
<1>1. PICK x \in S : \A y \in S : ~(<<y, x>> \in OpToRel(<, Nat))
  BY WFMin, NatLessThanWellFounded, Zenon
<1>2. ASSUME NEW y \in S PROVE x <= y
  <2>1. ~(y < x)
    BY <1>1, Zenon DEF OpToRel
  <2> QED BY <2>1
<1> QED BY <1>2

INSTANCE FiniteSetTheorems

LEMMA WokenCount == Counted
<1> SUFFICES ASSUME NEW S \in SUBSET Threads, NEW x \in Threads
             PROVE  /\ Cardinality(S) \in Nat
                    /\ x \notin S => Cardinality(S \cup {x}) = Cardinality(S) + 1
                    /\ Cardinality(S \ {x}) >= Cardinality(S) - 1
  BY Zenon DEF Counted
<1>1. IsFiniteSet(S)
  BY FS_Subset, QueueAssumption
<1>2. Cardinality(S) \in Nat
  BY <1>1, FS_CardinalityType
<1>3. x \notin S => Cardinality(S \cup {x}) = Cardinality(S) + 1
  BY <1>1, FS_AddElement
<1>4. Cardinality(S \ {x}) = IF x \in S THEN Cardinality(S) - 1 ELSE Cardinality(S)
  BY <1>1, FS_RemoveElement
<1> QED BY <1>2, <1>3, <1>4

\* A list that contains no slot twice fits the pool.
LEMMA DistinctFits ==
    ASSUME NEW q \in Seq(Slots), Distinct(q)
    PROVE  Len(q) \in 0..Max
<1>1. Max \in Nat /\ Len(q) \in Nat /\ q \in [1..Len(q) -> Slots] /\ DOMAIN q = 1..Len(q)
  BY QueueAssumption
<1>2. IsFiniteSet(Slots) /\ Cardinality(Slots) = Max
  BY <1>1, FS_Interval DEF Slots
<1>3. IsFiniteSet(1..Len(q)) /\ Cardinality(1..Len(q)) = Len(q)
  BY <1>1, FS_Interval
<1>4. ASSUME Len(q) > Max PROVE FALSE
  <2>1. \E i, j \in 1..Len(q) : i # j /\ q[i] = q[j]
    BY <1>1, <1>2, <1>3, <1>4, FS_PigeonHole
  <2> QED BY <1>1, <2>1 DEF Distinct
<1> QED BY <1>1, <1>4

\* The lists of the invariant are the ones the pointers start.
LEMMA StateLists ==
    \A f, q : State(f, q) => /\ Chain(free) = f /\ Len(f) \in 0..Max
                             /\ Chain(head) = q /\ Len(q) \in 0..Max
<1> SUFFICES ASSUME NEW f, NEW q, State(f, q)
             PROVE  /\ Chain(free) = f /\ Len(f) \in 0..Max
                    /\ Chain(head) = q /\ Len(q) \in 0..Max
  OBVIOUS
<1>1. /\ f \in Seq(Slots) /\ Distinct(f) /\ IsChain(next, f, free)
      /\ q \in Seq(Slots) /\ Distinct(q) /\ IsChain(next, q, head)
  BY DEF State, LinkInv, SlotList
<1>2. Len(f) \in 0..Max /\ Len(q) \in 0..Max
  BY <1>1, DistinctFits
<1>3. Len(f) <= Max /\ Len(q) <= Max
  BY <1>2, QueueAssumption
<1> QED BY <1>1, <1>2, <1>3, ChainIs, LeastNumber

LEMMA ContentIs == \A f, q : State(f, q) => Holds(q)
<1> SUFFICES ASSUME NEW f, NEW q, State(f, q) PROVE Holds(q)
  OBVIOUS
<1>1. Chain(head) = q /\ Len(q) \in 0..Max
  BY StateLists
<1> QED BY <1>1, Zenon DEF State, LinkInv, SlotList, Content, Bytes, Holds

-----------------------------------------------------------------------------
(* The theorems.                                                           *)

\* What the promises below rest on: the slots form a free list and a queue, each slot in one
\* of them or held by one call, and no suspended thread is forgotten.
BaseInv == (\E f, q : State(f, q) /\ Remembered(f)) /\ del \in Places

\* BaseInv is an invariant of the message queue.
THEOREM Base == Spec => []BaseInv
<1>1. Init => BaseInv
  BY InitState, Zenon DEF Init, Remembered, Places, BaseInv
<1>2. BaseInv /\ [Next]_vars => BaseInv'
  <2> SUFFICES ASSUME BaseInv, [Next]_vars PROVE BaseInv'
    OBVIOUS
  <2>1. PICK f, q : State(f, q) /\ Remembered(f)
    BY DEF BaseInv
  <2>2. Chain(head) = q
    BY <2>1, StateLists
  <2>3. GoesOn(q)
    BY <2>1, <2>2, EveryStep, WokenCount
  <2>4. del' \in Places
    BY DelStep DEF BaseInv
  <2> QED BY <2>3, <2>4 DEF BaseInv, GoesOn
<1> QED BY <1>1, <1>2, PTL DEF Spec

\* No step of rt_mq_send_wait, rt_mq_urgent, rt_mq_recv or rt_mq_control, in any interleaving
\* with the unprotected copies, loses a slot of the pool or links it twice, and tail and entry
\* stay true of the queue, for any number of slots and threads.
THEOREM SlotsNeverLost == Spec => []SlotsPartitioned
<1>1. BaseInv => SlotsPartitioned
  BY Partitioned, StateLists DEF BaseInv
<1> QED BY <1>1, Base, PTL

\* Nobody writes to a slot while a thread copies into or out of it with interrupts enabled:
\* what rt_mq_send_wait and rt_mq_urgent link is what their caller gave, and what rt_mq_recv
\* copies out is what it unlinked.
THEOREM CopiesUndisturbed == Spec => []CopyUndisturbed
<1>1. BaseInv => CopyUndisturbed
  BY DEF BaseInv, State, DataInv
<1> QED BY <1>1, Base, PTL

\* rt_mq_send_wait, rt_mq_urgent, rt_mq_recv and rt_mq_control implement a bounded queue with
\* atomic operations, although their copies run with interrupts enabled: for any pool, any
\* threads and any priorities no message is lost but by a reset, none is repeated, and none
\* is overtaken but by an urgent one.
THEOREM MessageQueueIsQueue == Spec => IsQueue
<1>1. Init => Queue!Init
  <2> SUFFICES ASSUME Init PROVE Queue!Init
    OBVIOUS
  <2>1. Content = Bytes(data, <<>>) /\ got \in Msgs
    BY InitState, ContentIs DEF State, DataInv, Holds
  <2>2. Content = <<>>
    BY <2>1 DEF Bytes
  <2> QED BY <2>1, <2>2 DEF Queue!Init
<1>2. (\A f, q : State(f, q) => Holds(q))'
  BY ContentIs, PTL
<1>3. BaseInv /\ [Next]_vars => [Queue!Next]_<<Content, got>>
  <2> SUFFICES ASSUME BaseInv, [Next]_vars PROVE [Queue!Next]_<<Content, got>>
    OBVIOUS
  <2>1. PICK f, q : State(f, q) /\ Remembered(f)
    BY DEF BaseInv
  <2>2. Chain(head) = q
    BY <2>1, StateLists
  <2>3. PICK g, r : State(g, r)' /\ QueueStep(q, r)
    BY <2>1, <2>2, EveryStep, WokenCount DEF GoesOn
  <2>4. Holds(q) /\ Holds(r)' /\ data \in [Slots -> Msgs]
    BY <1>2, <2>1, <2>3, ContentIs DEF State, DataInv
  <2> QED BY <2>3, <2>4, StepRefines
<1> QED BY <1>1, <1>3, Base, PTL DEF Spec, IsQueue, Queue!Spec

\* No lost wakeup in rt_mq_send_wait, rt_mq_urgent and rt_mq_recv: for any pool and any number
\* of threads, with timeouts, resets and a deletion at any moment, a thread stays suspended only
\* while every message (or free slot) it could have has a woken thread on its way to it.
THEOREM NobodyForgotten == Spec => []NoneForgotten
<1>1. BaseInv => NoneForgotten
  BY StateLists DEF BaseInv, Remembered, NoneForgotten, NoReceiverForgotten, NoSenderForgotten
<1> QED BY <1>1, Base, PTL

=============================================================================
