---------------------------- MODULE ConsoleProofs ----------------------------
(***************************************************************************)
(* Proofs about the console, for any bytes, any size of the ring and any   *)
(* width of the semaphore's counter: no byte waits while the shell sleeps, *)
(* and the ring implements LossyQueue.                                     *)
(***************************************************************************)
EXTENDS Console, TLAPS

\* The two indices are equal only in an empty ring: a full one keeps a slot free.
RingInv == full => get # put

\* The callback is installed once the shell reads, and no interrupt comes before the
\* device is open.
OpenInv == /\ ind <=> sh \notin {"open", "set"}
           /\ sh = "open" => isr = "out"

\* A shell between the read that found nothing and the take that follows it will find
\* a token if bytes have come since; during the interrupt the token is still to be
\* counted, and counting it does not wrap.
TakeInv == sh = "take" => IF isr = "out" THEN Empty \/ value > 0 ELSE value < ValueMax

\* NoByteWaits alone is not inductive: whether a take may put the shell to sleep
\* depends on the token TakeInv speaks of.
IInv == NoByteWaits /\ RingInv /\ OpenInv /\ TakeInv

-----------------------------------------------------------------------------
(* The indices of the ring.                                                *)

\* Advancing an index, as serial.c does, stays inside the ring and moves the index.
LEMMA AdvanceInRing ==
    ASSUME NEW i \in Indices
    PROVE  Advance(i) \in Indices /\ Advance(i) # i
BY ConsoleAssumption DEF Indices, Advance

\* rx_length, computed from the indices, is at most bufsz - 1, and 0 only if they are
\* equal.
LEMMA LengthRange ==
    ASSUME put \in Indices, get \in Indices
    PROVE  Length \in 0..(BufSz - 1) /\ (Length > 0 <=> get # put)
BY ConsoleAssumption DEF Indices, Length

-----------------------------------------------------------------------------
(* The invariant.                                                          *)

\* The boot state satisfies IInv.
LEMMA InitInductive == Init => IInv
<1> SUFFICES ASSUME Init PROVE IInv
  OBVIOUS
<1>1. PICK b \in Bytes : buffer = [i \in Indices |-> b]
  BY DEF Init
<1>2. 0 \in Indices
  BY ConsoleAssumption DEF Indices
<1>3. buffer \in [Indices -> Bytes] /\ ch \in Bytes
  BY <1>1, <1>2 DEF Init
<1>4. \E c \in Bytes : line \in {{}, {c}}
  BY <1>1 DEF Init
<1>5. value \in 0..ValueMax
  BY ConsoleAssumption DEF Init
<1>6. TypeOK
  BY <1>2, <1>3, <1>4, <1>5, Zenon DEF Init, TypeOK
<1> QED BY <1>6 DEF Init, IInv, NoByteWaits, RingInv, OpenInv, TakeInv, Empty

\* Every step of the line, the interrupt and the shell keeps IInv.
LEMMA InductiveStep == IInv /\ [Next]_vars => IInv'
<1> SUFFICES ASSUME IInv, [Next]_vars PROVE IInv'
  OBVIOUS
<1> USE ConsoleAssumption DEF IInv, RingInv, OpenInv, TakeInv, NoByteWaits, TypeOK, Empty, fifo
<1>1. ASSUME NEW b \in Bytes, Arrive(b) PROVE IInv'
  BY <1>1 DEF Arrive
<1>2. CASE Enter
  BY <1>2 DEF Enter, NoWrapBeforeTake
<1>3. CASE Store
  <2>1. PICK b \in line : buffer' = [buffer EXCEPT ![put] = b]
    BY <1>3, Zenon DEF Store
  <2>2. b \in Bytes /\ buffer' \in [Indices -> Bytes]
    BY <2>1
  <2>3. /\ put' \in Indices /\ get' \in Indices
        /\ full' \in BOOLEAN /\ (full' => get' # put')
    BY <1>3, AdvanceInRing, Zenon DEF Store
  <2> QED BY <1>3, <2>2, <2>3 DEF Store
<1>4. CASE Indicate
  <2>1. Length \in Nat /\ (Length > 0 <=> get # put)
    BY LengthRange DEF Indices
  <2>2. CASE ind /\ Length > 0 /\ Release
    <3>1. CASE sh = "asleep" /\ sh' = "read" /\ UNCHANGED value
      BY <1>4, <2>2, <3>1 DEF Indicate
    <3>2. CASE sh # "asleep" /\ value' = (value + 1) % (ValueMax + 1) /\ UNCHANGED sh
      <4>1. value' \in 0..ValueMax
        BY <3>2
      <4>2. value < ValueMax => value' > 0
        BY <3>2
      <4> QED BY <1>4, <2>2, <3>2, <4>1, <4>2 DEF Indicate
    <3> QED BY <2>2, <3>1, <3>2 DEF Release
  <2>3. CASE ~(ind /\ Length > 0) /\ UNCHANGED <<value, sh>>
    BY <1>4, <2>1, <2>3 DEF Indicate
  <2> QED BY <1>4, <2>2, <2>3 DEF Indicate
<1>5. CASE Open
  BY <1>5 DEF Open
<1>6. CASE SetRxIndicate
  BY <1>6 DEF SetRxIndicate
<1>7. CASE ReadByte
  BY <1>7, AdvanceInRing, Zenon DEF ReadByte
<1>8. CASE ReadNone
  BY <1>8 DEF ReadNone
<1>9. CASE Take
  BY <1>9 DEF Take
<1>10. CASE Handle
  BY <1>10 DEF Handle
<1>11. CASE UNCHANGED vars
  BY <1>11 DEF vars
<1> QED
  BY <1>1, <1>2, <1>3, <1>4, <1>5, <1>6, <1>7, <1>8, <1>9, <1>10, <1>11
  DEF Next, Interrupt, Shell

\* IInv is an invariant of the console.
THEOREM Inductive == Spec => []IInv
BY InitInductive, InductiveStep, PTL DEF Spec

\* No byte waits in the ring while the shell sleeps on rx_sem and the interrupt is out,
\* for any size of the ring, although finsh_getchar tests the ring and takes the
\* semaphore in two steps.
THEOREM NoByteEverWaits == Spec => []NoByteWaits
<1>1. IInv => NoByteWaits
  BY DEF IInv
<1> QED BY <1>1, Inductive, PTL

-----------------------------------------------------------------------------
(* The ring implements LossyQueue.                                         *)

\* The slots from get on, Length of them, are slots of the ring, none is the one that
\* put points at, and that one is the next.
LEMMA ContentSlots ==
    ASSUME put \in Indices, get \in Indices
    PROVE  /\ \A i \in 1..Length : (get + i - 1) % BufSz \in Indices \ {put}
           /\ (get + Length) % BufSz = put
<1> USE ConsoleAssumption DEF Indices, Length
<1>1. ASSUME NEW i \in 1..Length PROVE (get + i - 1) % BufSz \in Indices \ {put}
  <2>1. PICK a \in Nat : a = get + i - 1 /\ a < BufSz + BufSz
    OBVIOUS
  <2>2. (a < BufSz => a % BufSz = a) /\ (a >= BufSz => a % BufSz = a - BufSz)
    BY <2>1
  <2> QED BY <2>1, <2>2
<1>2. PICK a \in Nat : a = get + Length /\ a < BufSz + BufSz
  OBVIOUS
<1>3. (a < BufSz => a % BufSz = a) /\ (a >= BufSz => a % BufSz = a - BufSz)
  BY <1>2
<1> QED BY <1>1, <1>2, <1>3

\* Moving get on by one makes the second slot of the content the first.
LEMMA ContentShift ==
    ASSUME get \in Indices, NEW i \in 1..(BufSz - 1)
    PROVE  (Advance(get) + i - 1) % BufSz = (get + i) % BufSz
<1> USE ConsoleAssumption DEF Indices, Advance
<1>1. PICK a \in Nat : a = get + i /\ a < BufSz + BufSz
  OBVIOUS
<1>2. PICK c \in Nat : c = Advance(get) + i - 1 /\ c < BufSz + BufSz
  OBVIOUS
<1>3. (a < BufSz => a % BufSz = a) /\ (a >= BufSz => a % BufSz = a - BufSz)
  BY <1>1
<1>4. (c < BufSz => c % BufSz = c) /\ (c >= BufSz => c % BufSz = c - BufSz)
  BY <1>2
<1> QED BY <1>1, <1>2, <1>3, <1>4

\* The content is a sequence of bytes, as long as rx_length says.
LEMMA ContentType ==
    TypeOK => Content \in Seq(Bytes) /\ Len(Content) = Length
<1> SUFFICES ASSUME TypeOK PROVE Content \in Seq(Bytes) /\ Len(Content) = Length
  OBVIOUS
<1>1. Length \in Nat /\ \A i \in 1..Length : (get + i - 1) % BufSz \in Indices
  BY LengthRange, ContentSlots DEF TypeOK
<1>2. \A i \in 1..Length : buffer[(get + i - 1) % BufSz] \in Bytes
  BY <1>1 DEF TypeOK
<1> QED BY <1>1, <1>2 DEF Content

\* Storing a byte appends it to the content, or to the content without its oldest byte
\* when the ring is full.
LEMMA StoreRefines == IInv /\ Store => \E b \in Bytes : Queue!Put(b)
<1> SUFFICES ASSUME IInv, Store PROVE \E b \in Bytes : Queue!Put(b)
  OBVIOUS
<1> DEFINE n == Length
<1>1. PICK b \in line : buffer' = [buffer EXCEPT ![put] = b]
  BY Zenon DEF Store
<1>2. TypeOK /\ b \in Bytes
  BY DEF IInv, NoByteWaits, TypeOK
<1>3. TypeOK'
  BY InductiveStep DEF Next, Interrupt, IInv, NoByteWaits
<1>4. Content \in Seq(Bytes) /\ Len(Content) = n /\ n \in 0..(BufSz - 1)
  BY <1>2, ContentType, LengthRange DEF TypeOK
<1>5. (Content \in Seq(Bytes) /\ Len(Content) = Length)'
  BY <1>3, ContentType, PTL
<1>6. DOMAIN Content = 1..n /\ \A i \in 1..n : Content[i] = buffer[(get + i - 1) % BufSz]
  BY DEF Content
<1>7. DOMAIN Content' = 1..n' /\ \A i \in 1..n' : Content'[i] = buffer'[(get' + i - 1) % BufSz]
  BY DEF Content
<1>8. /\ \A i \in 1..n : (get + i - 1) % BufSz \in Indices \ {put}
      /\ (get + n) % BufSz = put /\ put \in Indices /\ get \in Indices
  BY <1>2, ContentSlots DEF TypeOK
<1>9. \A i \in Indices \ {put} : buffer'[i] = buffer[i]
  BY <1>1, <1>2 DEF TypeOK
<1>10. buffer'[put] = b
  BY <1>1, <1>2 DEF TypeOK
<1>11. CASE Advance(put) = get /\ get' = Advance(get)
  <2> DEFINE q == Append(Tail(Content), b)
  <2>1. n = BufSz - 1 /\ n' = BufSz - 1 /\ n \in Nat /\ n > 0
    BY <1>8, <1>11, ConsoleAssumption DEF Store, Length, Advance, Indices
  <2> HIDE DEF n
  <2>2. /\ q \in Seq(Bytes) /\ Len(q) = n /\ q[n] = b
        /\ \A i \in 1..(n - 1) : q[i] = Content[i + 1]
    BY <1>2, <1>4, <2>1
  <2> HIDE DEF q
  <2>3. ASSUME NEW i \in 1..n PROVE Content'[i] = q[i]
    <3>1. (get' + i - 1) % BufSz = (get + i) % BufSz
      BY <1>8, <1>11, <2>1, ContentShift
    <3>2. CASE i = n
      BY <1>7, <1>8, <1>10, <2>1, <2>2, <3>1, <3>2
    <3>3. CASE i # n
      <4>1. i + 1 \in 1..n /\ i \in 1..(n - 1) /\ get + (i + 1) - 1 = get + i
        BY <2>1, <3>3, <1>8 DEF Indices
      <4>2. Content[i + 1] = buffer[(get + i) % BufSz] /\ (get + i) % BufSz \in Indices \ {put}
        BY <1>6, <1>8, <4>1
      <4>3. Content'[i] = buffer'[(get + i) % BufSz]
        BY <1>7, <2>1, <3>1
      <4> QED BY <1>9, <2>2, <4>1, <4>2, <4>3
    <3> QED BY <3>2, <3>3
  <2>4. Content' = q
    BY <1>5, <2>1, <2>2, <2>3 DEF n
  <2> QED BY <1>2, <1>4, <2>1, <2>4 DEF Queue!Put, Store, q
<1>12. CASE Advance(put) # get /\ UNCHANGED get
  <2> DEFINE q == Append(Content, b)
  <2>1. n # BufSz - 1 /\ n' = n + 1 /\ n \in Nat
    BY <1>8, <1>12, ConsoleAssumption DEF Store, Length, Advance, Indices
  <2> HIDE DEF n
  <2>2. /\ q \in Seq(Bytes) /\ Len(q) = n + 1 /\ q[n + 1] = b
        /\ \A i \in 1..n : q[i] = Content[i]
    BY <1>2, <1>4, <2>1
  <2> HIDE DEF q
  <2>3. ASSUME NEW i \in 1..(n + 1) PROVE Content'[i] = q[i]
    <3>1. CASE i = n + 1
      <4>1. (get' + i - 1) % BufSz = put
        BY <1>8, <1>12, <2>1, <3>1 DEF Indices
      <4> QED BY <1>7, <1>10, <2>1, <2>2, <3>1, <4>1
    <3>2. CASE i # n + 1
      <4>1. i \in 1..n
        BY <2>1, <3>2
      <4> QED BY <1>6, <1>7, <1>8, <1>9, <1>12, <2>1, <2>2, <4>1
    <3> QED BY <3>1, <3>2
  <2>4. Content' = q
    BY <1>5, <2>1, <2>2, <2>3 DEF n
  <2> QED BY <1>2, <1>4, <2>1, <2>4 DEF Queue!Put, Store, q
<1> QED BY <1>11, <1>12 DEF Store

\* A read takes the oldest byte of the content.
LEMMA ReadRefines == IInv /\ ReadByte => Queue!Get
<1> SUFFICES ASSUME IInv, ReadByte PROVE Queue!Get
  OBVIOUS
<1> DEFINE n == Length
<1>1. TypeOK /\ get # put
  BY DEF IInv, NoByteWaits, RingInv, ReadByte, Empty
<1>2. TypeOK'
  BY InductiveStep DEF Next, Shell, IInv, NoByteWaits
<1>3. Content \in Seq(Bytes) /\ Len(Content) = n /\ n \in 1..(BufSz - 1)
  BY <1>1, ContentType, LengthRange, ConsoleAssumption DEF TypeOK
<1>4. (Content \in Seq(Bytes) /\ Len(Content) = Length)'
  BY <1>2, ContentType, PTL
<1>5. n' = n - 1 /\ get' = Advance(get) /\ get \in Indices
  BY <1>1, ConsoleAssumption DEF TypeOK, ReadByte, Length, Advance, Indices
<1>6. \A i \in 1..n : Content[i] = buffer[(get + i - 1) % BufSz]
  BY DEF Content
<1>7. \A i \in 1..n' : Content'[i] = buffer[(get' + i - 1) % BufSz]
  BY DEF Content, ReadByte
<1>8. Head(Content) = buffer[get]
  <2>1. get % BufSz = get /\ get + 1 - 1 = get
    BY <1>5, ConsoleAssumption DEF Indices
  <2> QED BY <1>3, <1>6, <2>1
<1> HIDE DEF n
<1>9. ASSUME NEW i \in 1..(n - 1) PROVE Content'[i] = Content[i + 1]
  <2>1. (get' + i - 1) % BufSz = (get + i) % BufSz
    <3>1. i \in 1..(BufSz - 1)
      BY <1>3, ConsoleAssumption
    <3> QED BY <1>5, <3>1, ContentShift
  <2>2. i + 1 \in 1..n /\ get + (i + 1) - 1 = get + i
    BY <1>3, <1>5 DEF Indices
  <2> QED BY <1>5, <1>6, <1>7, <2>1, <2>2
<1>10. Content' = Tail(Content)
  BY <1>3, <1>4, <1>5, <1>9 DEF n
<1> QED BY <1>3, <1>8, <1>10 DEF Queue!Get, ReadByte

\* Every other step leaves the content and the byte read last alone.
LEMMA StepRefines == IInv /\ [Next]_vars => [Queue!Next]_<<Content, ch>>
<1> SUFFICES ASSUME IInv, [Next]_vars PROVE [Queue!Next]_<<Content, ch>>
  OBVIOUS
<1>1. CASE Store
  BY <1>1, StoreRefines DEF Queue!Next
<1>2. CASE ReadByte
  BY <1>2, ReadRefines DEF Queue!Next
<1>3. CASE UNCHANGED <<fifo, ch>>
  BY <1>3 DEF fifo, Content, Length
<1> QED
  BY <1>1, <1>2, <1>3
  DEF Next, Arrive, Interrupt, Enter, Indicate, Shell, Open, SetRxIndicate, ReadNone, Take, Handle, vars

\* rt_hw_serial_isr and _serial_int_rx implement a queue of bufsz - 1 bytes that, when it
\* is full, loses its oldest byte and nothing else, for any size of the ring.
THEOREM RingIsLossyQueue == Spec => IsLossyQueue
<1>1. Init => Queue!Init
  <2> SUFFICES ASSUME Init PROVE Queue!Init
    OBVIOUS
  <2>1. TypeOK
    BY InitInductive DEF IInv, NoByteWaits
  <2>2. Len(Content) = 0 /\ Content \in Seq(Bytes) /\ ch \in Bytes
    BY <2>1, ContentType DEF Init, Length, TypeOK
  <2> QED BY <2>2 DEF Queue!Init
<1> QED BY <1>1, StepRefines, Inductive, PTL DEF Spec, IsLossyQueue, Queue!Spec

=============================================================================
