--------------------------- MODULE EthernetProofs ---------------------------
(***************************************************************************)
(* Proofs about the Ethernet interface, for rings and a mailbox of any     *)
(* size and frames of any number of segments that the rings can hold: a    *)
(* received frame is taken whole and none is forgotten, what is sent is    *)
(* what was given, nobody on the way out waits for nothing, and the state  *)
(* of the link is taken over.                                              *)
(***************************************************************************)
EXTENDS Ethernet, TLAPS

\* The descriptor k places behind d in a ring of n.
On(n, d, k) == (d + k) % n

-----------------------------------------------------------------------------
(* The inductive invariants.                                               *)

\* link_status is what phy_linkchange saw last; a change not taken over has a mail that
\* tells of it, or the receive thread is about to look; and what was taken over is in
\* the netif or on its way there.
LinkInv ==
    /\ link.status = speed
    /\ link.changed => mails > 0 \/ rp \in {"check", "take"}
    /\ ~link.changed => IF rp = "set" THEN link.local = speed ELSE up = speed

\* The one message of the caller is in one place.
TokenInv ==
    IF sp = "wait"
    THEN \/ txmail /\ tp = "wait" /\ ack = 0
         \/ ~txmail /\ tp # "wait" /\ ack = 0
         \/ ~txmail /\ tp = "wait" /\ ack = 1
    ELSE ~txmail /\ tp = "wait" /\ ack = 0

\* Who holds the lock, and who resumes a stopped transmission.
HoldInv ==
    /\ lock => rp = "scan" \/ tp = "give"
    /\ tbus /\ txd[tdma].own => tp = "give"

\* The segments of the frame that are in their buffers and not handed over yet.
Given == IF tp = "give" THEN tx.i ELSE 0
Copied == IF tp = "copy" THEN tx.i ELSE IF tp \in {"spin", "test", "lock", "give"} THEN frame.segs ELSE 0

\* Behind the segments handed over come those copied, and there is room for them.
CopyInv ==
    /\ tx.desc = TxOn(tdma, Len(handed))
    /\ tx.i <= frame.segs
    /\ tp = "copy" => tx.i < frame.segs
    /\ tp \notin {"copy", "give"} => tx.i = 0
    /\ \A j \in Given..(Copied - 1) :
          /\ Len(handed) + (j - Given) < TxNum
          /\ txd[TxOn(tdma, Len(handed) + (j - Given))].seg = <<frame.id, j>>

\* The descriptor of the oldest segment in the receive ring, and how many of the segments
\* from there on the receive thread has met.
Oldest == IF rp = "release" THEN RxOn(rx.fs, rx.i) ELSE IF rx.segs > 0 THEN rx.fs ELSE rx.desc
Met == IF rp = "release" THEN rx.segs - rx.i ELSE rx.segs

\* The DMA has filled the n descriptors from b on, up to its own one.
RingAt(b, n) ==
    /\ rdma.at = RxOn(b, n)
    /\ \A k \in 0..(RxNum - 1) : rxd[RxOn(b, k)].own <=> k >= n

\* They hold frames: a first segment follows a last one, the DMA is between two frames after
\* a last one, and the frame that is arriving fits into the ring.
FramesAt(b, n) ==
    /\ \A k \in 1..(n - 1) : rxd[RxOn(b, k)].first <=> rxd[RxOn(b, k - 1)].last
    /\ n = 0 => rdma.left = 0
    /\ n > 0 => (rdma.left = 0 <=> rxd[RxOn(b, n - 1)].last)
    /\ \A k \in 0..(n - 1) :
          rxd[RxOn(b, k)].first /\ (\A j \in k..(n - 1) : ~rxd[RxOn(b, j)].last)
             => n - k + rdma.left <= RxNum

\* Of these, s have been met; if none has, the next one is a first segment.
MetAt(b, n, s) == s \in 0..n /\ (s = 0 /\ n > 0 => rxd[RxOn(b, 0)].first)

\* Those met are a part of a frame, without its last segment, or a whole frame.
PartAt(b, s) == \A k \in 0..(s - 1) : ~rxd[RxOn(b, k)].last
WholeAt(b, s) == \A k \in 0..(s - 1) : rxd[RxOn(b, k)].last <=> k = s - 1

\* Where the receive thread is in the ring.
PlaceInv ==
    /\ rx.desc = RxOn(Oldest, Met)
    /\ rx.i <= rx.segs
    /\ rp \notin {"scan", "release"} => rx.i = 0
    /\ rp = "alloc" => rx.segs > 0
    /\ rp = "release" /\ ~rx.p => missed
    /\ rp # "release" => ~rx.p

\* The receive ring when n descriptors of it are filled.
RingInv(n) ==
    /\ RingAt(Oldest, n) /\ FramesAt(Oldest, n) /\ MetAt(Oldest, n, Met)
    /\ IF rp \in {"alloc", "release"} THEN WholeAt(Oldest, Met) ELSE PartAt(Oldest, Met)
    /\ rp # "release" /\ n > 0 => rxd[RxOn(Oldest, 0)].first
    /\ rbus /\ rp # "release" => n = RxNum

\* A frame left in the ring has an interrupt or a mail to come.
WakeInv ==
    /\ isr => mails > 0
    /\ rp = "wait" /\ ~missed /\ FrameLeft => rint \/ mails > 0

\* The type of the variables of reception, of the link, and of sending.
RxType ==
    /\ rxd \in [RxDescs -> [own : BOOLEAN, first : BOOLEAN, last : BOOLEAN]]
    /\ rdma \in [at : RxDescs, left : 0..RxNum]
    /\ rbus \in BOOLEAN /\ rint \in BOOLEAN /\ isr \in BOOLEAN /\ missed \in BOOLEAN
    /\ mails \in 0..MbSize
    /\ rp \in {"wait", "check", "take", "set", "test", "lock", "scan", "alloc", "release"}
    /\ rx \in [desc : RxDescs, fs : RxDescs, segs : 0..RxNum, i : 0..RxNum, p : BOOLEAN]
LinkType ==
    /\ speed \in BOOLEAN /\ up \in BOOLEAN
    /\ link \in [changed : BOOLEAN, status : BOOLEAN, local : BOOLEAN]
TxType ==
    /\ txmail \in BOOLEAN /\ tbus \in BOOLEAN
    /\ sp \in {"idle", "wait"} /\ ack \in 0..1
    /\ frame \in [id : 0..(Ids - 1), segs : TxSegs \cup {1}]
    /\ tp \in {"wait", "copy", "spin", "test", "lock", "give", "ack"}
    /\ tx \in [desc : TxDescs, i : 0..TxNum]
    /\ txd \in [TxDescs -> [own : BOOLEAN, seg : (0..(Ids - 1)) \X (0..TxNum)]]
    /\ tdma \in TxDescs
    /\ handed \in Seq((0..(Ids - 1)) \X (0..TxNum)) /\ Len(handed) <= TxNum

\* Reception, the link, sending, and what they share.
RecvInv == RxType /\ PlaceInv /\ (\E n \in 0..RxNum : RingInv(n)) /\ WakeInv
LinkingInv == LinkType /\ LinkInv
SendInv == TxType /\ TokenInv /\ SentAsGiven /\ CopyInv
SharedInv == lock \in BOOLEAN /\ HoldInv

IInv == RecvInv /\ LinkingInv /\ SendInv /\ SharedInv

\* The types together.
LEMMA Types == IInv => TypeOK
<1> SUFFICES ASSUME IInv PROVE TypeOK
  OBVIOUS
<1>1. RxType /\ LinkType /\ TxType /\ lock \in BOOLEAN
  BY DEF IInv, RecvInv, LinkingInv, SendInv, SharedInv
<1>2. {rbus, rint, isr, lock, missed, speed, up, txmail, tbus} \subseteq BOOLEAN
  BY <1>1, Zenon DEF RxType, LinkType, TxType
<1> QED BY <1>1, <1>2, Zenon DEF RxType, LinkType, TxType, TypeOK

-----------------------------------------------------------------------------
(* The rings.                                                              *)

\* In a ring of n the place is wrapped at most once.
LEMMA OnWrap ==
    ASSUME NEW n \in Nat \ {0}, NEW d \in 0..(n - 1), NEW k \in 0..n
    PROVE  On(n, d, k) = IF d + k < n THEN d + k ELSE d + k - n
<1>1. PICK a \in Nat : a = d + k /\ a < n + n
  OBVIOUS
<1>2. (a < n => a % n = a) /\ (a >= n => a % n = a - n)
  BY <1>1
<1>3. (d + k) % n = a % n
  BY <1>1
<1> QED BY <1>1, <1>2, <1>3 DEF On

\* The places behind d: they are places of the ring, the one after the last of them is d
\* again, they are distinct, and they are all.
IsRing(n, d) ==
    /\ \A k \in 0..n : On(n, d, k) \in 0..(n - 1)
    /\ On(n, d, 0) = d /\ On(n, d, n) = d
    /\ \A j, k \in 0..(n - 1) : On(n, d, j) = On(n, d, k) => j = k
    /\ \A e \in 0..(n - 1) : \E k \in 0..(n - 1) : On(n, d, k) = e

\* They are so in every ring.
LEMMA OnRing ==
    ASSUME NEW n \in Nat \ {0}, NEW d \in 0..(n - 1)
    PROVE  IsRing(n, d)
<1>1. \A k \in 0..n : On(n, d, k) = IF d + k < n THEN d + k ELSE d + k - n
  BY OnWrap
<1>2. ASSUME NEW e \in 0..(n - 1) PROVE \E k \in 0..(n - 1) : On(n, d, k) = e
  <2>1. CASE e >= d
    <3>1. e - d \in 0..(n - 1) /\ e - d \in 0..n /\ d + (e - d) = e
      BY <2>1
    <3> QED BY <1>1, <3>1
  <2>2. CASE e < d
    <3>1. e + n - d \in 0..(n - 1) /\ e + n - d \in 0..n /\ d + (e + n - d) = e + n
      BY <2>2
    <3> QED BY <1>1, <3>1
  <2> QED BY <2>1, <2>2
<1>3. ASSUME NEW j \in 0..(n - 1), NEW k \in 0..(n - 1), On(n, d, j) = On(n, d, k) PROVE j = k
  <2>1. j \in 0..n /\ k \in 0..n
    OBVIOUS
  <2> QED BY <1>1, <1>3, <2>1
<1>4. \A k \in 0..n : On(n, d, k) \in 0..(n - 1)
  BY <1>1
<1>5. On(n, d, 0) = d /\ On(n, d, n) = d
  BY <1>1
<1> QED BY <1>2, <1>3, <1>4, <1>5 DEF IsRing

\* From the next place on, every place is one nearer.
LEMMA OnShift ==
    ASSUME NEW n \in Nat \ {0}, NEW d \in 0..(n - 1), NEW k \in 0..(n - 1)
    PROVE  /\ On(n, d, 1) \in 0..(n - 1)
           /\ On(n, On(n, d, 1), k) = On(n, d, k + 1)
           /\ On(n, On(n, d, k), 1) = On(n, d, k + 1)
<1>1. 1 \in 0..n /\ k \in 0..n /\ k + 1 \in 0..n
  OBVIOUS
<1>2. On(n, d, 1) = IF d + 1 < n THEN d + 1 ELSE d + 1 - n
  BY <1>1, OnWrap
<1>3. On(n, d, k) = IF d + k < n THEN d + k ELSE d + k - n
  BY <1>1, OnWrap
<1>4. On(n, d, k + 1) = IF d + (k + 1) < n THEN d + (k + 1) ELSE d + (k + 1) - n
  BY <1>1, OnWrap
<1>5. On(n, d, 1) \in 0..(n - 1) /\ On(n, d, k) \in 0..(n - 1)
  BY <1>2, <1>3
<1>6. On(n, On(n, d, 1), k) = IF On(n, d, 1) + k < n THEN On(n, d, 1) + k ELSE On(n, d, 1) + k - n
  BY <1>1, <1>5, OnWrap
<1>7. On(n, On(n, d, k), 1) = IF On(n, d, k) + 1 < n THEN On(n, d, k) + 1 ELSE On(n, d, k) + 1 - n
  BY <1>1, <1>5, OnWrap
<1>8. On(n, On(n, d, 1), k) = On(n, d, k + 1)
  BY <1>2, <1>4, <1>6
<1>9. On(n, On(n, d, k), 1) = On(n, d, k + 1)
  BY <1>3, <1>4, <1>7
<1> QED BY <1>5, <1>8, <1>9

\* The same for the two rings.
LEMMA RxRing ==
    ASSUME NEW d \in RxDescs
    PROVE  /\ \A k \in 0..RxNum : RxOn(d, k) \in RxDescs
           /\ \A k \in 0..(RxNum - 1) : RxOn(d, k) \in RxDescs
           /\ RxOn(d, 0) = d /\ RxOn(d, RxNum) = d
           /\ \A j, k \in 0..(RxNum - 1) : RxOn(d, j) = RxOn(d, k) => j = k
           /\ \A e \in RxDescs : \E k \in 0..(RxNum - 1) : RxOn(d, k) = e
<1>1. \A k : RxOn(d, k) = On(RxNum, d, k)
  BY DEF RxOn, On
<1>2. RxNum \in Nat \ {0} /\ d \in 0..(RxNum - 1)
  BY EthernetAssumption DEF RxDescs
<1>3. IsRing(RxNum, d)
  BY <1>2, OnRing
<1>4. \A k \in 0..(RxNum - 1) : k \in 0..RxNum
  BY <1>2
<1> QED BY <1>1, <1>3, <1>4 DEF RxDescs, IsRing

LEMMA RxShift ==
    ASSUME NEW d \in RxDescs, NEW k \in 0..(RxNum - 1)
    PROVE  /\ RxOn(d, 1) \in RxDescs
           /\ RxOn(RxOn(d, 1), k) = RxOn(d, k + 1)
           /\ RxOn(RxOn(d, k), 1) = RxOn(d, k + 1)
BY OnShift, EthernetAssumption, Zenon DEF RxDescs, RxOn, On

LEMMA TxRing ==
    ASSUME NEW d \in TxDescs
    PROVE  /\ \A k \in 0..TxNum : TxOn(d, k) \in TxDescs
           /\ \A k \in 0..(TxNum - 1) : TxOn(d, k) \in TxDescs
           /\ TxOn(d, 0) = d /\ TxOn(d, TxNum) = d
           /\ \A j, k \in 0..(TxNum - 1) : TxOn(d, j) = TxOn(d, k) => j = k
           /\ \A e \in TxDescs : \E k \in 0..(TxNum - 1) : TxOn(d, k) = e
<1>1. \A k : TxOn(d, k) = On(TxNum, d, k)
  BY DEF TxOn, On
<1>2. TxNum \in Nat \ {0} /\ d \in 0..(TxNum - 1)
  BY EthernetAssumption DEF TxDescs
<1>3. IsRing(TxNum, d)
  BY <1>2, OnRing
<1>4. \A k \in 0..(TxNum - 1) : k \in 0..TxNum
  BY <1>2
<1> QED BY <1>1, <1>3, <1>4 DEF TxDescs, IsRing

LEMMA TxShift ==
    ASSUME NEW d \in TxDescs, NEW k \in 0..(TxNum - 1)
    PROVE  /\ TxOn(d, 1) \in TxDescs
           /\ TxOn(TxOn(d, 1), k) = TxOn(d, k + 1)
           /\ TxOn(TxOn(d, k), 1) = TxOn(d, k + 1)
BY OnShift, EthernetAssumption, Zenon DEF TxDescs, TxOn, On

-----------------------------------------------------------------------------
(* Reception.                                                              *)

\* A segment the DMA stores is one more at the end, and continues the frames.
LEMMA StoreKeeps ==
    ASSUME RxType, NEW b \in RxDescs, NEW n \in 0..RxNum, RingAt(b, n), FramesAt(b, n),
           NEW m \in RxSegs, Store(m), rxd[rdma.at].own
    PROVE  /\ n < RxNum /\ RingAt(b, n + 1)' /\ FramesAt(b, n + 1)'
           /\ \A k \in 0..(n - 1) : rxd'[RxOn(b, k)] = rxd[RxOn(b, k)]
           /\ n = 0 => rxd'[RxOn(b, 0)].first
           /\ rint' = (rint \/ rxd'[RxOn(b, n)].last) /\ UNCHANGED rbus
<1> DEFINE fresh == rdma.left = 0
           left  == (IF fresh THEN m ELSE rdma.left) - 1
           filled == [own |-> FALSE, first |-> fresh, last |-> left = 0]
           S(k) == rxd[RxOn(b, k)]
           T(k) == rxd'[RxOn(b, k)]
<1>1. RxNum \in Nat \ {0} /\ m \in 1..RxNum
  BY EthernetAssumption
<1>2. rdma.left \in 0..RxNum /\ left \in 0..RxNum /\ fresh \in BOOLEAN
  BY <1>1 DEF RxType
<1>3. rdma.at = RxOn(b, n) /\ \A k \in 0..(RxNum - 1) : S(k).own <=> k >= n
  BY DEF RingAt
<1>4. n < RxNum /\ n \in 0..(RxNum - 1)
  <2>1. 0 \in 0..(RxNum - 1) /\ ~(0 >= RxNum)
    BY <1>1
  <2>2. n # RxNum
    BY <1>3, <2>1, RxRing
  <2> QED BY <1>1, <2>2
<1>5. /\ rxd' = [rxd EXCEPT ![rdma.at] = filled]
      /\ rdma' = [at |-> RxOn(rdma.at, 1), left |-> left]
      /\ rint' = (rint \/ left = 0) /\ UNCHANGED rbus
  BY DEF Store
<1>6. T(n) = filled /\ \A k \in 0..(RxNum - 1) \ {n} : T(k) = S(k)
  <2>1. ASSUME NEW k \in 0..(RxNum - 1)
        PROVE  RxOn(b, k) \in RxDescs /\ (RxOn(b, k) = RxOn(b, n) => k = n)
    BY <1>4, RxRing
  <2> QED BY <1>3, <1>4, <1>5, <2>1 DEF RxType
<1>7. rdma'.at = RxOn(b, n + 1) /\ rdma'.left = left
  BY <1>3, <1>4, <1>5, RxShift
<1>8. ~T(n).own /\ (T(n).first <=> fresh) /\ (T(n).last <=> left = 0)
  <2>1. T(n).own = FALSE /\ T(n).first = fresh /\ T(n).last = (left = 0)
    BY <1>6
  <2> QED BY <2>1, Zenon
<1>9. /\ \A k \in 1..(n - 1) : S(k).first <=> S(k - 1).last
      /\ n = 0 => fresh
      /\ n > 0 => (fresh <=> S(n - 1).last)
      /\ \A k \in 0..(n - 1) : S(k).first /\ (\A j \in k..(n - 1) : ~S(j).last) => n - k + rdma.left <= RxNum
  BY DEF FramesAt
<1>10. left = IF fresh THEN m - 1 ELSE rdma.left - 1
  BY <1>1, <1>2
<1> HIDE DEF S, T, filled, left
<1>11. \A k \in 0..(RxNum - 1) : T(k).own <=> k >= n + 1
  BY <1>1, <1>3, <1>4, <1>6, <1>8
<1>12. \A k \in 1..n : T(k).first <=> T(k - 1).last
  <2> SUFFICES ASSUME NEW k \in 1..n PROVE T(k).first <=> T(k - 1).last
    OBVIOUS
  <2>1. k - 1 \in 0..(RxNum - 1) /\ k - 1 # n /\ k \in 0..(RxNum - 1) /\ T(k - 1) = S(k - 1)
    BY <1>1, <1>4, <1>6
  <2>2. CASE k = n
    BY <1>4, <1>8, <1>9, <2>1, <2>2
  <2>3. CASE k # n
    BY <1>4, <1>6, <1>9, <2>1, <2>3
  <2> QED BY <2>2, <2>3
<1>13. \A k \in 0..n : T(k).first /\ (\A j \in k..n : ~T(j).last) => n + 1 - k + left <= RxNum
  <2> SUFFICES ASSUME NEW k \in 0..n, T(k).first, \A j \in k..n : ~T(j).last
               PROVE  n + 1 - k + left <= RxNum
    OBVIOUS
  <2>1. CASE k = n
    BY <1>1, <1>2, <1>4, <1>8, <1>10, <2>1
  <2>2. CASE k # n
    <3>1. k \in 0..(n - 1) /\ \A j \in k..(n - 1) : j \in k..n /\ j \in 0..(RxNum - 1) \ {n}
      BY <1>1, <1>4, <2>2
    <3>2. S(k).first /\ \A j \in k..(n - 1) : ~S(j).last
      BY <1>4, <1>6, <3>1
    <3>3. n - k + rdma.left <= RxNum /\ n > 0 /\ n - 1 \in k..(n - 1)
      BY <1>4, <1>9, <3>1, <3>2
    <3>4. ~fresh
      BY <1>9, <3>2, <3>3
    <3> QED BY <1>1, <1>2, <1>4, <1>10, <3>1, <3>3, <3>4
  <2> QED BY <2>1, <2>2
<1>14. RingAt(b, n + 1)'
  BY <1>7, <1>11 DEF RingAt, T
<1>15. FramesAt(b, n + 1)'
  <2>1. n + 1 - 1 = n /\ n + 1 > 0 /\ n + 1 # 0
    BY <1>4
  <2> QED BY <1>7, <1>8, <1>12, <1>13, <2>1 DEF FramesAt, T
<1> QED
  <2>1. \A k \in 0..(n - 1) : T(k) = S(k)
    BY <1>1, <1>4, <1>6
  <2> QED BY <1>4, <1>5, <1>8, <1>9, <1>14, <1>15, <2>1 DEF S, T

\* A descriptor given back is the oldest one of a whole frame: the others move up.
LEMMA ReleaseKeeps ==
    ASSUME RxType, NEW b \in RxDescs, NEW n \in 0..RxNum, NEW s \in 1..RxNum, NEW c, c = RxOn(b, 1),
           RingAt(b, n), FramesAt(b, n), MetAt(b, n, s), WholeAt(b, s),
           rxd' = [rxd EXCEPT ![b] = DmaOwned], UNCHANGED rdma
    PROVE  /\ n > 0 /\ RingAt(c, n - 1)' /\ FramesAt(c, n - 1)'
           /\ MetAt(c, n - 1, s - 1)' /\ WholeAt(c, s - 1)'
<1> DEFINE S(k) == rxd[RxOn(b, k)]
           T(k) == rxd'[RxOn(c, k)]
           left == rdma.left
<1>1. RxNum \in Nat \ {0} /\ s \in 1..n /\ n \in 1..RxNum
  BY EthernetAssumption DEF MetAt
<1>2. \A k \in 0..(RxNum - 1) : RxOn(c, k) = RxOn(b, k + 1)
  BY RxShift
<1>3. /\ rdma.at = RxOn(b, n)
      /\ \A k \in 0..(RxNum - 1) : S(k).own <=> k >= n
  BY DEF RingAt
<1>4. /\ \A k \in 1..(n - 1) : S(k).first <=> S(k - 1).last
      /\ left = 0 <=> S(n - 1).last
      /\ \A k \in 0..(n - 1) : S(k).first /\ (\A j \in k..(n - 1) : ~S(j).last) => n - k + left <= RxNum
  BY <1>1 DEF FramesAt
<1>5. \A k \in 0..(s - 1) : S(k).last <=> k = s - 1
  BY DEF WholeAt
<1>6. \A k \in 0..(RxNum - 2) : T(k) = S(k + 1)
  <2> SUFFICES ASSUME NEW k \in 0..(RxNum - 2) PROVE T(k) = S(k + 1)
    OBVIOUS
  <2>1. k + 1 \in 0..(RxNum - 1) /\ k \in 0..(RxNum - 1) /\ k + 1 # 0 /\ 0 \in 0..(RxNum - 1)
    BY <1>1
  <2>2. RxOn(b, k + 1) \in RxDescs /\ RxOn(b, 0) = b /\ RxOn(b, k + 1) # RxOn(b, 0)
    BY <2>1, RxRing
  <2> QED BY <1>2, <2>1, <2>2 DEF RxType
<1>7. T(RxNum - 1).own
  <2>1. RxNum - 1 \in 0..(RxNum - 1) /\ RxNum - 1 + 1 = RxNum
    BY <1>1
  <2>2. RxOn(c, RxNum - 1) = b
    BY <1>2, <2>1, RxRing
  <2>3. T(RxNum - 1) = DmaOwned
    BY <2>2 DEF RxType
  <2> QED BY <2>3 DEF DmaOwned
<1>8. rdma.at = RxOn(c, n - 1)
  <2>1. n - 1 \in 0..(RxNum - 1) /\ n - 1 + 1 = n
    BY <1>1
  <2> QED BY <1>2, <1>3, <2>1
<1>9. left \in Nat
  BY DEF RxType
<1> HIDE DEF S, T, left
<1>10. \A k \in 0..(RxNum - 1) : T(k).own <=> k >= n - 1
  <2> SUFFICES ASSUME NEW k \in 0..(RxNum - 1) PROVE T(k).own <=> k >= n - 1
    OBVIOUS
  <2>1. CASE k = RxNum - 1
    BY <1>1, <1>7, <2>1
  <2>2. CASE k # RxNum - 1
    <3>1. k \in 0..(RxNum - 2) /\ k + 1 \in 0..(RxNum - 1) /\ (k + 1 >= n <=> k >= n - 1)
      BY <1>1, <2>2
    <3> QED BY <1>3, <1>6, <3>1
  <2> QED BY <2>1, <2>2
<1>11. \A k \in 0..(n - 2) : k \in 0..(RxNum - 2) /\ T(k) = S(k + 1)
  BY <1>1, <1>6
<1>12. \A k \in 1..(n - 1 - 1) : T(k).first <=> T(k - 1).last
  <2> SUFFICES ASSUME NEW k \in 1..(n - 1 - 1) PROVE T(k).first <=> T(k - 1).last
    OBVIOUS
  <2>1. k \in 0..(n - 2) /\ k - 1 \in 0..(n - 2) /\ k - 1 + 1 = k /\ k + 1 \in 1..(n - 1) /\ k + 1 - 1 = k
    BY <1>1
  <2>2. T(k) = S(k + 1) /\ T(k - 1) = S(k)
    BY <1>11, <2>1
  <2> QED BY <1>4, <2>1, <2>2
<1>13. n - 1 = 0 => left = 0
  BY <1>1, <1>4, <1>5
<1>14. n - 1 > 0 => (left = 0 <=> T(n - 1 - 1).last)
  <2> SUFFICES ASSUME n - 1 > 0 PROVE left = 0 <=> T(n - 1 - 1).last
    OBVIOUS
  <2>1. n - 1 - 1 \in 0..(n - 2) /\ n - 1 - 1 + 1 = n - 1
    BY <1>1
  <2> QED BY <1>4, <1>11, <2>1
<1>15. \A k \in 0..(n - 1 - 1) :
          T(k).first /\ (\A j \in k..(n - 1 - 1) : ~T(j).last) => n - 1 - k + left <= RxNum
  <2> SUFFICES ASSUME NEW k \in 0..(n - 1 - 1), T(k).first, \A j \in k..(n - 1 - 1) : ~T(j).last
               PROVE  n - 1 - k + left <= RxNum
    OBVIOUS
  <2>1. k \in 0..(n - 2) /\ k + 1 \in 0..(n - 1) /\ S(k + 1).first
    BY <1>1, <1>11
  <2>2. ASSUME NEW j \in (k + 1)..(n - 1) PROVE ~S(j).last
    <3>1. j - 1 \in k..(n - 1 - 1) /\ j - 1 \in 0..(n - 2) /\ j - 1 + 1 = j
      BY <1>1
    <3> QED BY <1>11, <3>1, Zenon
  <2>3. n - (k + 1) + left <= RxNum
    BY <1>4, <2>1, <2>2
  <2> QED BY <1>1, <1>9, <2>3
<1>16. s - 1 = 0 /\ n - 1 > 0 => T(0).first
  <2> SUFFICES ASSUME s - 1 = 0, n - 1 > 0 PROVE T(0).first
    OBVIOUS
  <2>1. 0 \in 0..(n - 2) /\ 0 + 1 = 1 /\ 1 \in 1..(n - 1) /\ 1 - 1 = 0 /\ 0 \in 0..(s - 1)
    BY <1>1
  <2> QED BY <1>4, <1>5, <1>11, <2>1
<1>17. \A k \in 0..(s - 1 - 1) : T(k).last <=> k = s - 1 - 1
  <2> SUFFICES ASSUME NEW k \in 0..(s - 1 - 1) PROVE T(k).last <=> k = s - 1 - 1
    OBVIOUS
  <2>1. k \in 0..(n - 2) /\ k + 1 \in 0..(s - 1) /\ (k + 1 = s - 1 <=> k = s - 1 - 1)
    BY <1>1
  <2> QED BY <1>5, <1>11, <2>1
<1>18. RingAt(c, n - 1)'
  BY <1>8, <1>10 DEF RingAt, T
<1>19. FramesAt(c, n - 1)'
  BY <1>12, <1>13, <1>14, <1>15 DEF FramesAt, T, left
<1>20. MetAt(c, n - 1, s - 1)' /\ WholeAt(c, s - 1)'
  <2>1. s - 1 \in 0..(n - 1)
    BY <1>1
  <2> QED BY <1>16, <1>17, <2>1 DEF MetAt, WholeAt, T
<1>21. n > 0
  BY <1>1
<1> QED BY <1>18, <1>19, <1>20, <1>21

\* A frame that is not whole leaves room for its rest: a ring full of segments holds a last one.
LEMMA FullHasLast ==
    ASSUME RxType, NEW b \in RxDescs, NEW n \in 1..RxNum, FramesAt(b, n), rxd[RxOn(b, 0)].first,
           \A k \in 0..(n - 1) : ~rxd[RxOn(b, k)].last
    PROVE  n < RxNum
<1>1. RxNum \in Nat /\ 0 \in 0..(n - 1) /\ n - 1 \in 0..(n - 1) /\ n > 0
  BY EthernetAssumption
<1>2. rdma.left # 0
  BY <1>1 DEF FramesAt
<1>3. n - 0 + rdma.left <= RxNum
  BY <1>1 DEF FramesAt
<1>4. rdma.left \in 0..RxNum
  BY DEF RxType
<1> QED BY <1>1, <1>2, <1>3, <1>4

\* What the receive thread has met of a frame that is not whole is less than the ring.
LEMMA MetIsPart ==
    ASSUME RxType, NEW n \in 0..RxNum, Oldest \in RxDescs, RingInv(n), rp \notin {"alloc", "release"}
    PROVE  /\ Met \in 0..n /\ Met < RxNum
           /\ Met = n => \A k \in 0..(n - 1) : ~rxd[RxOn(Oldest, k)].last
           /\ Met < n <=> ~rxd[RxOn(Oldest, Met)].own
<1>1. RxNum \in Nat \ {0} /\ Met \in 0..n
  BY EthernetAssumption DEF RingInv, MetAt
<1>2. \A k \in 0..(Met - 1) : ~rxd[RxOn(Oldest, k)].last
  BY DEF RingInv, PartAt
<1>3. Met < RxNum
  <2> SUFFICES ASSUME Met = RxNum PROVE FALSE
    BY <1>1
  <2>1. Met = n /\ n > 0 /\ n \in 1..RxNum
    BY <1>1
  <2> QED BY <1>1, <1>2, <2>1, FullHasLast DEF RingInv
<1>4. rxd[RxOn(Oldest, Met)].own <=> Met >= n
  <2>1. Met \in 0..(RxNum - 1)
    BY <1>1, <1>3
  <2> QED BY <2>1 DEF RingInv, RingAt
<1>5. Met < n <=> ~(Met >= n)
  BY <1>1
<1> QED BY <1>1, <1>2, <1>3, <1>4, <1>5

\* The oldest segment is in a descriptor of the ring.
LEMMA OldestInRing == RxType /\ PlaceInv => Oldest \in RxDescs
BY RxRing DEF RxType, PlaceInv, Oldest

\* A stopped reception has a frame in the ring, once no descriptor is being given back.
LEMMA StoppedHasFrame ==
    ASSUME RxType, PlaceInv, NEW n \in 0..RxNum, RingInv(n), rp # "release", rbus
    PROVE  FrameLeft
<1>1. n = RxNum /\ n \in 1..RxNum /\ RxNum \in Nat
  BY EthernetAssumption DEF RingInv
<1>2. PICK k \in 0..(n - 1) : rxd[RxOn(Oldest, k)].last
  <2>1. ~(n < RxNum) /\ n > 0
    BY <1>1
  <2> QED BY <1>1, <2>1, OldestInRing, FullHasLast DEF RingInv
<1>3. ~rxd[RxOn(Oldest, k)].own
  <2>1. k \in 0..(RxNum - 1) /\ ~(k >= n)
    BY <1>1
  <2> QED BY <2>1 DEF RingInv, RingAt
<1>4. RxOn(Oldest, k) \in RxDescs
  BY <1>1, OldestInRing, RxRing
<1> QED BY <1>2, <1>3, <1>4 DEF FrameLeft

\* A step of the receive thread that changes nothing of the ring nor of what it has met.
LEMMA RingStays ==
    ASSUME NEW n \in 0..RxNum, RingInv(n), UNCHANGED <<rxd, rdma, rbus>>,
           Oldest' = Oldest, Met' = Met,
           rp' \in {"alloc", "release"} <=> rp \in {"alloc", "release"},
           rp = "release" => rp' = "release"
    PROVE  RingInv(n)'
<1>1. RingAt(Oldest, n)' /\ FramesAt(Oldest, n)'
  BY Zenon DEF RingInv, RingAt, FramesAt
<1>2. MetAt(Oldest, n, Met)' /\ (PartAt(Oldest, Met) => PartAt(Oldest, Met)')
      /\ (WholeAt(Oldest, Met) => WholeAt(Oldest, Met)')
  BY DEF RingInv, MetAt, PartAt, WholeAt
<1> QED BY <1>1, <1>2 DEF RingInv

\* The DMA stores a segment or stops.
LEMMA StoreRecv == RecvInv /\ (\E m \in RxSegs : Store(m)) => RecvInv'
<1> SUFFICES ASSUME RecvInv, NEW m \in RxSegs, Store(m) PROVE RecvInv'
  OBVIOUS
<1>1. RxType /\ PlaceInv /\ WakeInv /\ RxNum \in Nat \ {0} /\ m \in 1..RxNum
  BY EthernetAssumption DEF RecvInv
<1>2. PICK n \in 0..RxNum : RingInv(n)
  BY DEF RecvInv
<1>3. PICK b \in RxDescs : b = Oldest
  BY <1>1, OldestInRing
<1>4. UNCHANGED <<rp, rx, missed, isr, mails>> /\ ~rbus
  BY DEF Store, recv
<1>5. PlaceInv' /\ Oldest' = b /\ Met' = Met
  BY <1>1, <1>3, <1>4 DEF PlaceInv, Oldest, Met
<1>6. CASE rxd[rdma.at].own
  <2>1. RingAt(b, n) /\ FramesAt(b, n)
    BY <1>2, <1>3 DEF RingInv
  <2>2. /\ n < RxNum /\ RingAt(b, n + 1)' /\ FramesAt(b, n + 1)'
        /\ \A k \in 0..(n - 1) : rxd'[RxOn(b, k)] = rxd[RxOn(b, k)]
        /\ n = 0 => rxd'[RxOn(b, 0)].first
        /\ rint' = (rint \/ rxd'[RxOn(b, n)].last) /\ UNCHANGED rbus
    BY <1>1, <1>6, <2>1, StoreKeeps, Zenon
  <2>3. RxType'
    <3>1. rdma.left \in 0..RxNum /\ rdma.at \in RxDescs /\ RxOn(rdma.at, 1) \in RxDescs
      BY <1>1, RxRing DEF RxType
    <3>2. (IF rdma.left = 0 THEN m ELSE rdma.left) - 1 \in 0..RxNum
      BY <1>1, <3>1
    <3>3. rxd' \in [RxDescs -> [own : BOOLEAN, first : BOOLEAN, last : BOOLEAN]]
      <4>1. PICK f \in BOOLEAN, l \in BOOLEAN :
               rxd' = [rxd EXCEPT ![rdma.at] = [own |-> FALSE, first |-> f, last |-> l]]
        BY <1>6, Zenon DEF Store
      <4> QED BY <1>1, <4>1 DEF RxType
    <3>4. rdma' \in [at : RxDescs, left : 0..RxNum]
      BY <1>1, <1>6, <3>1, <3>2 DEF Store
    <3>5. rint' \in BOOLEAN
      BY <2>2
    <3> QED BY <1>1, <1>4, <2>2, <3>3, <3>4, <3>5 DEF RxType
  <2>4. RingInv(n + 1)'
    <3>1. Met \in 0..n /\ (Met = 0 /\ n > 0 => rxd[RxOn(b, 0)].first)
      BY <1>2, <1>3 DEF RingInv, MetAt
    <3>2. n > 0 => rxd'[RxOn(b, 0)] = rxd[RxOn(b, 0)]
      BY <1>1, <2>2
    <3>3. Met \in 0..(n + 1) /\ \A k \in 0..(Met - 1) : k \in 0..(n - 1)
      BY <1>1, <3>1
    <3>4. MetAt(b, n + 1, Met)'
      BY <1>1, <1>5, <2>2, <3>1, <3>2, <3>3 DEF MetAt
    <3>5. (PartAt(b, Met) => PartAt(b, Met)') /\ (WholeAt(b, Met) => WholeAt(b, Met)')
      BY <1>5, <2>2, <3>3 DEF PartAt, WholeAt
    <3>6. rp # "release" => rxd'[RxOn(b, 0)].first
      <4>1. CASE n = 0
        BY <2>2, <4>1
      <4>2. CASE n > 0
        <5>1. rp # "release" => rxd[RxOn(b, 0)].first
          BY <1>2, <1>3, <4>2 DEF RingInv
        <5> QED BY <3>2, <4>2, <5>1
      <4> QED BY <1>1, <4>1, <4>2
    <3> QED BY <1>2, <1>3, <1>4, <1>5, <2>2, <3>4, <3>5, <3>6, Zenon DEF RingInv
  <2>5. WakeInv'
    <3>1. FrameLeft' => FrameLeft \/ rint'
      <4> SUFFICES ASSUME NEW d \in RxDescs, ~rxd'[d].own, rxd'[d].last PROVE FrameLeft \/ rint'
        BY DEF FrameLeft
      <4>1. CASE d = RxOn(b, n)
        BY <2>2, <4>1, Zenon
      <4>2. CASE d # RxOn(b, n)
        <5>1. rxd'[d] = rxd[d]
          BY <1>1, <1>6, <2>1, <4>2, Zenon DEF Store, RxType, RingAt
        <5> QED BY <5>1 DEF FrameLeft
      <4> QED BY <4>1, <4>2
    <3>2. rint => rint'
      BY <2>2, Zenon
    <3> QED BY <1>1, <1>4, <3>1, <3>2 DEF WakeInv
  <2>6. n + 1 \in 0..RxNum
    BY <1>1, <2>2
  <2> QED BY <1>5, <2>3, <2>4, <2>5, <2>6 DEF RecvInv
<1>7. CASE ~rxd[rdma.at].own
  <2>1. rbus' = TRUE /\ UNCHANGED <<rxd, rdma, rint>>
    BY <1>7 DEF Store
  <2>2. n = RxNum
    <3> SUFFICES ASSUME n # RxNum PROVE FALSE
      OBVIOUS
    <3>1. n \in 0..(RxNum - 1) /\ n >= n
      BY <1>1
    <3> QED BY <1>2, <1>7, <3>1, Zenon DEF RingInv, RingAt
  <2>3. RingAt(Oldest, n)' /\ FramesAt(Oldest, n)'
    BY <1>2, <1>3, <1>5, <2>1, Zenon DEF RingInv, RingAt, FramesAt
  <2>4. MetAt(Oldest, n, Met)' /\ (PartAt(Oldest, Met) => PartAt(Oldest, Met)')
        /\ (WholeAt(Oldest, Met) => WholeAt(Oldest, Met)')
    BY <1>2, <1>3, <1>5, <2>1 DEF RingInv, MetAt, PartAt, WholeAt
  <2>5. RingInv(n)'
    BY <1>2, <1>3, <1>4, <1>5, <2>1, <2>2, <2>3, <2>4 DEF RingInv
  <2> QED BY <1>1, <1>4, <1>5, <2>1, <2>5 DEF RecvInv, RxType, WakeInv, FrameLeft
<1> QED BY <1>6, <1>7

\* HAL_ETH_GetReceivedFrame_IT meets the next segment of the frame, or finds that there is
\* none: then all that is in the ring has been met, and no last segment is among it.
LEMMA ScanRecv == RecvInv /\ RxScan => RecvInv'
<1> SUFFICES ASSUME RecvInv, RxScan PROVE RecvInv'
  OBVIOUS
<1> DEFINE d == rxd[rx.desc]
           none == d.own \/ rx.i = RxNum
           segs == IF d.first /\ ~d.last THEN 1 ELSE rx.segs + 1
<1>1. RxType /\ PlaceInv /\ WakeInv /\ RxNum \in Nat \ {0}
  BY EthernetAssumption DEF RecvInv
<1>2. PICK n \in 0..RxNum : RingInv(n)
  BY DEF RecvInv
<1>3. PICK b \in RxDescs : b = Oldest
  BY <1>1, OldestInRing
<1>4. rp = "scan" /\ UNCHANGED <<rxd, rdma, rbus, rint, isr, mails, missed>>
  BY DEF RxScan, RxAt, recvHw
<1>5. /\ rx.segs \in 0..RxNum /\ rx.i \in 0..RxNum /\ rx.desc \in RxDescs /\ rx.fs \in RxDescs
      /\ rx.p = FALSE /\ rx.i <= rx.segs
  BY <1>1, <1>4 DEF RxType, PlaceInv
<1>6. Met = rx.segs /\ rx.desc = RxOn(b, Met) /\ b = IF rx.segs > 0 THEN rx.fs ELSE rx.desc
  BY <1>1, <1>3, <1>4 DEF Met, Oldest, PlaceInv
<1>7. /\ Met \in 0..n /\ Met < RxNum
      /\ Met = n => \A k \in 0..(n - 1) : ~rxd[RxOn(b, k)].last
      /\ Met < n <=> ~d.own
  BY <1>1, <1>2, <1>3, <1>4, <1>6, MetIsPart
<1>8. rx.i # RxNum
  BY <1>1, <1>5, <1>6, <1>7
<1>9. CASE d.own
  <2>1. rx' = [rx EXCEPT !.i = 0] /\ rp' = "wait"
    BY <1>9 DEF RxScan, RxAt
  <2>2. rx'.segs = rx.segs /\ rx'.fs = rx.fs /\ rx'.desc = rx.desc /\ rx'.i = 0 /\ rx'.p = FALSE
    BY <1>1, <1>5, <2>1 DEF RxType
  <2>3. Oldest' = Oldest /\ Met' = Met
    BY <1>4, <2>1, <2>2 DEF Oldest, Met
  <2>4. RingInv(n)'
    BY <1>2, <1>4, <2>1, <2>3, RingStays
  <2>5. PlaceInv'
    <3>1. 0 <= rx.segs
      BY <1>1, <1>5
    <3> QED BY <1>3, <1>6, <2>1, <2>2, <2>3, <3>1, Zenon DEF PlaceInv
  <2>6. RxType'
    BY <1>1, <1>4, <1>5, <2>1 DEF RxType
  <2>7. ~FrameLeft'
    <3> SUFFICES ASSUME NEW e \in RxDescs, ~rxd[e].own PROVE ~rxd[e].last
      BY <1>4 DEF FrameLeft
    <3>1. PICK k \in 0..(RxNum - 1) : RxOn(b, k) = e
      BY RxRing
    <3>2. ~(k >= n)
      BY <1>2, <1>3, <3>1, Zenon DEF RingInv, RingAt
    <3>3. k \in 0..(n - 1)
      BY <3>2
    <3>4. Met = n
      BY <1>7, <1>9
    <3> QED BY <1>7, <3>1, <3>3, <3>4, Zenon
  <2>8. WakeInv'
    BY <1>1, <1>4, <2>7 DEF WakeInv
  <2> QED BY <2>4, <2>5, <2>6, <2>8 DEF RecvInv
<1>10. CASE ~d.own
  <2>1. Met < n /\ Met \in 0..(n - 1) /\ n > 0 /\ Met + 1 \in 0..RxNum /\ Met \in 0..(RxNum - 1)
    BY <1>1, <1>7, <1>10
  <2>2. RingAt(b, n) /\ FramesAt(b, n) /\ PartAt(b, Met) /\ rxd[RxOn(b, 0)].first
    BY <1>2, <1>3, <1>4, <2>1 DEF RingInv
  <2>3. d.first <=> Met = 0
    <3>1. CASE Met = 0
      BY <1>6, <2>2, <3>1
    <3>2. CASE Met # 0
      <4>1. Met \in 1..(n - 1) /\ Met - 1 \in 0..(Met - 1)
        BY <2>1, <3>2
      <4>2. d.first <=> rxd[RxOn(b, Met - 1)].last
        BY <1>6, <2>2, <4>1, Zenon DEF FramesAt
      <4> QED BY <2>2, <3>2, <4>1, <4>2 DEF PartAt
    <3> QED BY <3>1, <3>2
  <2>4. segs = Met + 1
    BY <1>5, <1>6, <2>3
  <2>5. /\ rx' = [rx EXCEPT !.desc = RxOn(rx.desc, 1), !.segs = segs,
                           !.fs = IF segs = 1 THEN rx.desc ELSE @,
                           !.i = IF d.last THEN 0 ELSE @ + 1]
        /\ rp' = IF d.last THEN "alloc" ELSE "scan"
    BY <1>8, <1>10 DEF RxScan, RxAt
  <2> HIDE DEF segs, d, none
  <2>6. /\ rx'.desc = RxOn(rx.desc, 1) /\ rx'.segs = Met + 1
        /\ rx'.fs = (IF segs = 1 THEN rx.desc ELSE rx.fs)
        /\ rx'.i = (IF d.last THEN 0 ELSE rx.i + 1) /\ rx'.p = FALSE
    BY <1>1, <1>5, <2>4, <2>5 DEF RxType
  <2>7. rx'.fs = b /\ Oldest' = b /\ Met' = Met + 1
    <3>1. rx'.fs = b
      <4>1. CASE Met = 0
        <5>1. segs = 1 /\ ~(rx.segs > 0)
          BY <1>6, <2>4, <4>1
        <5> QED BY <1>6, <2>6, <5>1
      <4>2. CASE Met # 0
        <5>1. segs # 1 /\ rx.segs > 0
          BY <1>6, <2>1, <2>4, <4>2
        <5> QED BY <1>6, <2>6, <5>1
      <4> QED BY <4>1, <4>2
    <3>2. rp' # "release" /\ Met + 1 > 0
      BY <2>1, <2>5
    <3> QED BY <2>6, <3>1, <3>2 DEF Oldest, Met
  <2>8. rx'.desc = RxOn(b, Met + 1) /\ rx'.desc \in RxDescs
    <3>1. RxOn(RxOn(b, Met), 1) = RxOn(b, Met + 1)
      BY <2>1, RxShift
    <3>2. RxOn(b, Met + 1) \in RxDescs
      BY <2>1, RxRing
    <3> QED BY <1>6, <2>6, <3>1, <3>2, Zenon
  <2>9. rx'.i \in 0..RxNum /\ rx'.i <= rx'.segs /\ (rp' # "scan" => rx'.i = 0)
    BY <1>1, <1>5, <1>6, <2>1, <2>5, <2>6
  <2>10. RxType'
    <3>1. rx' \in [desc : RxDescs, fs : RxDescs, segs : 0..RxNum, i : 0..RxNum, p : BOOLEAN]
      <4>1. PICK v \in RxDescs, w \in 0..RxNum, x \in RxDescs, y \in 0..RxNum :
               rx' = [rx EXCEPT !.desc = v, !.segs = w, !.fs = x, !.i = y]
        <5>1. rx'.segs \in 0..RxNum /\ rx'.fs \in RxDescs /\ segs \in 0..RxNum
          BY <2>1, <2>4, <2>6, <2>7
        <5>2. /\ RxOn(rx.desc, 1) \in RxDescs /\ (IF segs = 1 THEN rx.desc ELSE rx.fs) \in RxDescs
              /\ (IF d.last THEN 0 ELSE rx.i + 1) \in 0..RxNum
          BY <2>6, <2>8, <2>9, <5>1
        <5> QED BY <2>5, <5>1, <5>2, Zenon
      <4> QED BY <1>1, <4>1, Zenon DEF RxType
    <3> QED BY <1>1, <1>4, <2>5, <3>1 DEF RxType
  <2>11. PlaceInv'
    BY <2>1, <2>5, <2>6, <2>7, <2>8, <2>9 DEF PlaceInv
  <2>12. RingInv(n)'
    <3>1. RingAt(b, n)' /\ FramesAt(b, n)'
      BY <1>4, <2>2, Zenon DEF RingAt, FramesAt
    <3>2. Met + 1 \in 0..n /\ Met + 1 # 0
      BY <2>1
    <3>3. MetAt(b, n, Met + 1)
      BY <3>2 DEF MetAt
    <3>4. (d.last => WholeAt(b, Met + 1)) /\ (~d.last => PartAt(b, Met + 1))
      <4>1. \A k \in 0..(Met + 1 - 1) : k = Met \/ (k \in 0..(Met - 1) /\ k # Met)
        BY <2>1
      <4>2. Met + 1 - 1 = Met /\ rxd[RxOn(b, Met)] = d
        BY <1>6, <2>1 DEF d
      <4>3. \A k \in 0..(Met + 1 - 1) : rxd[RxOn(b, k)].last <=> (d.last /\ k = Met)
        BY <2>2, <4>1, <4>2 DEF PartAt
      <4>4. d.last => WholeAt(b, Met + 1)
        BY <2>1, <4>2, <4>3 DEF WholeAt
      <4>5. ~d.last => PartAt(b, Met + 1)
        BY <2>1, <4>2, <4>3 DEF PartAt
      <4> QED BY <4>4, <4>5
    <3>5. MetAt(Oldest, n, Met)'
      BY <1>4, <2>7, <3>3 DEF MetAt
    <3>6. (d.last => WholeAt(Oldest, Met)') /\ (~d.last => PartAt(Oldest, Met)')
      BY <1>4, <2>7, <3>4 DEF WholeAt, PartAt
    <3> QED BY <1>2, <1>4, <2>2, <2>5, <2>7, <3>1, <3>5, <3>6 DEF RingInv
  <2>13. WakeInv'
    BY <1>1, <1>4, <2>5 DEF WakeInv
  <2> QED BY <2>10, <2>11, <2>12, <2>13 DEF RecvInv
<1> QED BY <1>9, <1>10

\* rt_stm32_eth_rx gives the oldest descriptor of the frame back.
LEMMA ReleaseRecv == RecvInv /\ RxRelease => RecvInv'
<1> SUFFICES ASSUME RecvInv, RxRelease PROVE RecvInv'
  OBVIOUS
<1>1. RxType /\ PlaceInv /\ WakeInv /\ RxNum \in Nat \ {0}
  BY EthernetAssumption DEF RecvInv
<1>2. PICK n \in 0..RxNum : RingInv(n)
  BY DEF RecvInv
<1>3. /\ rp = "release" /\ rp' = "release" /\ rx.i < rx.segs
      /\ rxd' = [rxd EXCEPT ![RxOn(rx.fs, rx.i)] = DmaOwned]
      /\ rx' = [rx EXCEPT !.i = rx.i + 1]
      /\ UNCHANGED <<rdma, rbus, rint, isr, mails, missed>>
  BY DEF RxRelease, RxAt
<1>4. /\ rx.segs \in 0..RxNum /\ rx.i \in 0..RxNum /\ rx.i \in 0..(RxNum - 1) /\ rx.fs \in RxDescs
      /\ rx.i + 1 \in 0..RxNum /\ rx.i + 1 <= rx.segs
  <2>1. rx.segs \in 0..RxNum /\ rx.i \in 0..RxNum /\ rx.fs \in RxDescs
    BY <1>1 DEF RxType
  <2> QED BY <1>1, <1>3, <2>1
<1>5. PICK b \in RxDescs : b = RxOn(rx.fs, rx.i)
  BY <1>4, RxRing, Zenon
<1>6. PICK s \in 1..RxNum : s = rx.segs - rx.i
  BY <1>1, <1>3, <1>4
<1>7. b = Oldest /\ s = Met
  BY <1>3, <1>5, <1>6 DEF Oldest, Met
<1>8. PICK c \in RxDescs : c = RxOn(b, 1)
  BY <1>1, RxRing
<1>9. c = RxOn(rx.fs, rx.i + 1)
  BY <1>4, <1>5, <1>8, RxShift
<1>10. RingAt(b, n) /\ FramesAt(b, n) /\ MetAt(b, n, s) /\ WholeAt(b, s)
  BY <1>2, <1>3, <1>7 DEF RingInv
<1>11. /\ n > 0 /\ RingAt(c, n - 1)' /\ FramesAt(c, n - 1)'
       /\ MetAt(c, n - 1, s - 1)' /\ WholeAt(c, s - 1)'
  BY <1>1, <1>3, <1>5, <1>8, <1>10, ReleaseKeeps, Zenon
<1>12. rx'.i = rx.i + 1 /\ rx'.segs = rx.segs /\ rx'.fs = rx.fs /\ rx'.desc = rx.desc /\ rx'.p = rx.p
  BY <1>1, <1>3 DEF RxType
<1>13. Oldest' = c /\ Met' = s - 1
  <2>1. rx.segs - (rx.i + 1) = s - 1
    BY <1>4, <1>6
  <2> QED BY <1>3, <1>9, <1>12, <2>1 DEF Oldest, Met
<1>14. RingInv(n - 1)' /\ n - 1 \in 0..RxNum
  <2>1. n - 1 \in 0..RxNum
    BY <1>1, <1>11
  <2> QED BY <1>3, <1>11, <1>13, <2>1 DEF RingInv
<1>15. PlaceInv'
  <2>1. RxOn(c, s - 1) = RxOn(b, s)
    <3>1. s - 1 \in 0..(RxNum - 1) /\ s - 1 + 1 = s
      BY <1>1
    <3> QED BY <1>8, <3>1, RxShift
  <2> QED BY <1>1, <1>3, <1>4, <1>7, <1>12, <1>13, <2>1 DEF PlaceInv
<1>16. RxType'
  <2>1. rxd' \in [RxDescs -> [own : BOOLEAN, first : BOOLEAN, last : BOOLEAN]]
    BY <1>1, <1>3, <1>5 DEF RxType, DmaOwned
  <2>2. rx' \in [desc : RxDescs, fs : RxDescs, segs : 0..RxNum, i : 0..RxNum, p : BOOLEAN]
    BY <1>1, <1>3, <1>4 DEF RxType
  <2> QED BY <1>1, <1>3, <2>1, <2>2 DEF RxType
<1>17. WakeInv'
  BY <1>1, <1>3 DEF WakeInv
<1> QED BY <1>14, <1>15, <1>16, <1>17 DEF RecvInv

\* The frame is copied or dropped, and its last descriptor has been given back.
LEMMA CopyRecv == RecvInv /\ (RxNoPbuf \/ RxCopy \/ RxDone) => RecvInv'
<1> SUFFICES ASSUME RecvInv, RxNoPbuf \/ RxCopy \/ RxDone PROVE RecvInv'
  OBVIOUS
<1>1. RxType /\ PlaceInv /\ WakeInv /\ RxNum \in Nat \ {0}
  BY EthernetAssumption DEF RecvInv
<1>2. PICK n \in 0..RxNum : RingInv(n)
  BY DEF RecvInv
<1>3. /\ rx.segs \in 0..RxNum /\ rx.i \in 0..RxNum /\ rx.desc \in RxDescs /\ rx.fs \in RxDescs
      /\ rx.p \in BOOLEAN
  BY <1>1 DEF RxType
<1>4. CASE RxNoPbuf \/ RxCopy
  <2>1. /\ rp = "alloc" /\ rp' = "release" /\ UNCHANGED <<rxd, rdma, rbus, rint, isr, mails>>
        /\ \/ rx' = rx /\ missed' = TRUE
           \/ rx' = [rx EXCEPT !.p = TRUE] /\ missed' = missed
    BY <1>4 DEF RxNoPbuf, RxCopy, RxAt, recvHw
  <2>2. /\ rx'.i = rx.i /\ rx'.segs = rx.segs /\ rx'.fs = rx.fs /\ rx'.desc = rx.desc
        /\ rx'.p \/ missed'
    BY <1>1, <2>1 DEF RxType
  <2>3. rx.i = 0 /\ rx.segs > 0 /\ rx.segs - 0 = rx.segs /\ RxOn(rx.fs, 0) = rx.fs
    <3>1. rx.i = 0 /\ rx.segs > 0
      BY <1>1, <2>1 DEF PlaceInv
    <3>2. rx.segs - 0 = rx.segs
      BY <1>3
    <3>3. RxOn(rx.fs, 0) = rx.fs
      BY <1>3, RxRing
    <3> QED BY <3>1, <3>2, <3>3
  <2>4. Oldest' = Oldest /\ Met' = Met
    BY <2>1, <2>2, <2>3 DEF Oldest, Met
  <2>5. RingInv(n)'
    BY <1>2, <2>1, <2>4, RingStays
  <2>6. PlaceInv'
    BY <1>1, <2>1, <2>2, <2>4 DEF PlaceInv
  <2>7. RxType'
    BY <1>1, <2>1, Zenon DEF RxType
  <2>8. WakeInv'
    BY <1>1, <2>1 DEF WakeInv
  <2> QED BY <2>5, <2>6, <2>7, <2>8 DEF RecvInv
<1>5. CASE RxDone
  <2>1. /\ rp = "release" /\ rx.i = rx.segs /\ rp' = IF rx.p THEN "test" ELSE "wait"
        /\ rx' = [rx EXCEPT !.segs = 0, !.fs = 0, !.i = 0, !.p = FALSE]
        /\ rbus' = FALSE /\ UNCHANGED <<rxd, rdma, rint, isr, mails, missed>>
    BY <1>5 DEF RxDone, RxAt
  <2>2. rx'.i = 0 /\ rx'.segs = 0 /\ rx'.fs = 0 /\ rx'.desc = rx.desc /\ rx'.p = FALSE
    BY <1>1, <2>1 DEF RxType
  <2>3. Met = 0 /\ Met' = 0 /\ rp' \in {"test", "wait"}
    BY <1>3, <2>1, <2>2 DEF Met
  <2>4. Oldest \in RxDescs /\ rx.desc = Oldest /\ RxOn(Oldest, 0) = Oldest
    BY <1>1, <2>3, OldestInRing, RxRing DEF PlaceInv
  <2>5. Oldest' = Oldest
    BY <2>2, <2>3, <2>4 DEF Oldest
  <2>6. RingAt(Oldest, n)' /\ FramesAt(Oldest, n)' /\ MetAt(Oldest, n, Met)' /\ PartAt(Oldest, Met)'
    BY <1>2, <2>1, <2>3, <2>5 DEF RingInv, RingAt, FramesAt, MetAt, PartAt
  <2>7. n > 0 => rxd[RxOn(Oldest, 0)].first
    BY <1>2, <2>3 DEF RingInv, MetAt
  <2>8. RingInv(n)'
    BY <2>1, <2>3, <2>5, <2>6, <2>7 DEF RingInv
  <2>9. PlaceInv'
    BY <2>2, <2>3, <2>4, <2>5 DEF PlaceInv
  <2>10. RxType'
    <3>1. 0 \in RxDescs /\ 0 \in 0..RxNum
      BY <1>1 DEF RxDescs
    <3> QED BY <1>1, <2>1, <2>3, <3>1, Zenon DEF RxType
  <2>11. WakeInv'
    BY <1>1, <2>1 DEF WakeInv, PlaceInv
  <2> QED BY <2>8, <2>9, <2>10, <2>11 DEF RecvInv
<1> QED BY <1>4, <1>5

\* The thread moves between the calls of eth_rx, or an interrupt posts a mail: the ring and
\* what was met of it stay.
LEMMA IdleRecv ==
    ASSUME RecvInv, UNCHANGED <<rxd, rdma, rbus>>,
           rx' = rx \/ (rp' = "scan" /\ rx' = [rx EXCEPT !.i = 0]),
           rp' = rp \/ (rp \notin {"scan", "alloc", "release"} /\ rp' \notin {"alloc", "release"}),
           rp' = rp => (missed => missed'),
           rp' \in {"wait", "check", "take", "set", "test", "lock", "scan", "alloc", "release"},
           rint' \in BOOLEAN, isr' \in BOOLEAN, missed' \in BOOLEAN, mails' \in 0..MbSize, WakeInv'
    PROVE  RecvInv'
<1>1. RxType /\ PlaceInv
  BY DEF RecvInv
<1>2. PICK n \in 0..RxNum : RingInv(n)
  BY DEF RecvInv
<1>3. rx'.segs = rx.segs /\ rx'.fs = rx.fs /\ rx'.desc = rx.desc /\ rx'.p = rx.p
  BY <1>1 DEF RxType
<1>4. rx'.i = rx.i \/ (rp' = "scan" /\ rx'.i = 0)
  BY <1>1 DEF RxType
<1>5. 0 <= rx.segs /\ 0 \in 0..RxNum
  BY <1>1, EthernetAssumption DEF RxType
<1>6. rp' = "release" => rx' = rx /\ rp = "release"
  OBVIOUS
<1>7. Oldest' = Oldest /\ Met' = Met
  BY <1>3, <1>4, <1>6 DEF Oldest, Met
<1>8. RingInv(n)'
  BY <1>2, <1>7, RingStays
<1>9. PlaceInv'
  BY <1>1, <1>3, <1>4, <1>5, <1>6, <1>7 DEF PlaceInv
<1>10. RxType'
  BY <1>1, <1>5 DEF RxType
<1> QED BY <1>8, <1>9, <1>10 DEF RecvInv

\* Every step keeps the invariant of reception.
LEMMA RecvStep == RecvInv /\ [Next]_vars => RecvInv'
<1> SUFFICES ASSUME RecvInv, [Next]_vars PROVE RecvInv'
  OBVIOUS
<1>1. RxType /\ WakeInv /\ MbSize \in Nat \ {0}
  BY EthernetAssumption DEF RecvInv
<1>2. mails \in 0..MbSize /\ Post(mails) \in 0..MbSize /\ Post(mails) > 0
  BY <1>1 DEF RxType, Post
<1>3. CASE Irq
  <2>1. UNCHANGED <<rxd, rdma, rbus, rint, rp, rx, missed>> /\ isr' = TRUE /\ mails' = Post(mails)
    BY <1>3 DEF Irq, recvHw, recv
  <2> QED BY <1>1, <1>2, <2>1, IdleRecv DEF RxType, WakeInv
<1>4. CASE IrqEnd
  <2>1. /\ UNCHANGED <<rxd, rdma, rbus, rp, rx, missed, mails>>
        /\ isr /\ isr' = FALSE /\ rint' = FALSE
    BY <1>4 DEF IrqEnd, recv
  <2> QED BY <1>1, <2>1, IdleRecv, Zenon DEF RxType, WakeInv
<1>5. CASE PhyLinkchange
  <2>1. UNCHANGED <<rxd, rdma, rbus, rint, rp, rx, missed, isr>> /\ mails' = Post(mails)
    BY <1>5 DEF PhyLinkchange, recvHw, recv
  <2> QED BY <1>1, <1>2, <2>1, IdleRecv DEF RxType, WakeInv
<1>6. CASE RxRecv
  <2>1. /\ UNCHANGED <<rxd, rdma, rbus, rint, rx, isr>>
        /\ ~isr /\ rp = "wait" /\ rp' = "check" /\ mails' = mails - 1 /\ mails > 0 /\ missed' = FALSE
    BY <1>6 DEF RxRecv, RxAt, recvHw
  <2>2. mails - 1 \in 0..MbSize
    BY <1>1, <1>2, <2>1
  <2> QED BY <1>1, <2>1, <2>2, IdleRecv, Zenon DEF RxType, WakeInv
<1>7. CASE RxCheck \/ RxTake \/ RxSetLink
  <2>1. /\ UNCHANGED <<rxd, rdma, rbus, rint, rx, isr, mails, missed>>
        /\ rp \in {"check", "take", "set"} /\ rp' \in {"take", "set", "test"}
    BY <1>7 DEF RxCheck, RxTake, RxSetLink, RxAt, recvHw
  <2> QED BY <1>1, <2>1, IdleRecv DEF RxType, WakeInv
<1>8. CASE RxTest
  <2>1. /\ UNCHANGED <<rxd, rdma, rbus, rint, rx, isr, mails>>
        /\ rp = "test" /\ rp' = (IF lock THEN "wait" ELSE "lock") /\ missed' = (missed \/ lock)
    BY <1>8 DEF RxTest, RxAt, recvHw
  <2>2. rp' \in {"wait", "lock"} /\ missed' \in BOOLEAN /\ (rp' = "wait" => missed')
    BY <2>1, Zenon
  <2> QED BY <1>1, <2>1, <2>2, IdleRecv DEF RxType, WakeInv
<1>9. CASE RxLock
  <2>1. /\ UNCHANGED <<rxd, rdma, rbus, rint, isr, mails, missed>>
        /\ rp = "lock" /\ rp' = "scan" /\ rx' = [rx EXCEPT !.i = 0]
    BY <1>9 DEF RxLock, RxAt, recvHw
  <2> QED BY <1>1, <2>1, IdleRecv DEF RxType, WakeInv
<1>10. CASE UNCHANGED <<rxd, rdma, rbus, rint, isr, mails, rp, rx, missed>>
  <2>1. WakeInv'
    BY <1>1, <1>10 DEF WakeInv, FrameLeft
  <2> QED BY <1>1, <1>10, <2>1, IdleRecv DEF RxType
<1>11. CASE Send \/ (\E n \in TxSegs : LinkOutput(n)) \/ LinkOutputReturn \/ Transmit \/ TxSpin
            \/ UNCHANGED vars
  BY <1>10, <1>11
  DEF Send, LinkOutput, LinkOutputReturn, Transmit, TxSpin, TxRecv, TxCopy, TxTest, TxLock, TxGive, TxDone,
      TxAck, TxAt, vars, recvHw, recv
<1> QED
  BY <1>3, <1>4, <1>5, <1>6, <1>7, <1>8, <1>9, <1>11, StoreRecv, ScanRecv, ReleaseRecv, CopyRecv
  DEF Next, Receive

-----------------------------------------------------------------------------
(* The link and the lock.                                                  *)

\* Every step keeps the invariant of the link.
LEMMA LinkStep == RxType /\ LinkingInv /\ [Next]_vars => LinkingInv'
<1> SUFFICES ASSUME RxType, LinkingInv, [Next]_vars PROVE LinkingInv'
  OBVIOUS
<1>1. LinkType /\ LinkInv /\ mails \in 0..MbSize /\ MbSize \in Nat \ {0}
  BY EthernetAssumption DEF LinkingInv, RxType
<1>2. Post(mails) > 0
  BY <1>1 DEF Post
<1>3. CASE PhyLinkchange
  <2>1. /\ speed' = ~speed /\ link' = [link EXCEPT !.changed = TRUE, !.status = ~speed]
        /\ mails' = Post(mails) /\ UNCHANGED <<rp, up>>
    BY <1>3 DEF PhyLinkchange, recv
  <2>2. /\ link'.changed = TRUE /\ link'.status = speed'
        /\ link' \in [changed : BOOLEAN, status : BOOLEAN, local : BOOLEAN]
        /\ speed' \in BOOLEAN /\ up' \in BOOLEAN
    BY <1>1, <2>1, Zenon DEF LinkType
  <2> QED BY <1>2, <2>1, <2>2 DEF LinkingInv, LinkType, LinkInv
<1>4. CASE RxTake
  <2>1. /\ rp = "take" /\ rp' = "set" /\ UNCHANGED <<speed, up, mails>>
        /\ link' = [link EXCEPT !.changed = FALSE, !.local = link.status]
    BY <1>4 DEF RxTake, RxAt
  <2>2. link'.changed = FALSE /\ link'.status = link.status /\ link'.local = link.status
    BY <1>1, <2>1 DEF LinkType
  <2>3. LinkType'
    BY <1>1, <2>1, Zenon DEF LinkType
  <2> QED BY <1>1, <2>1, <2>2, <2>3 DEF LinkingInv, LinkInv
<1>5. CASE RxSetLink
  <2>1. /\ rp = "set" /\ rp' = "test" /\ UNCHANGED <<speed, mails>>
        /\ up' = link.local /\ link' = [link EXCEPT !.local = FALSE]
    BY <1>5 DEF RxSetLink, RxAt
  <2>2. link'.changed = link.changed /\ link'.status = link.status
    BY <1>1, <2>1 DEF LinkType
  <2>3. LinkType'
    BY <1>1, <2>1, Zenon DEF LinkType
  <2> QED BY <1>1, <2>1, <2>2, <2>3 DEF LinkingInv, LinkInv
<1>6. CASE RxCheck
  <2>1. rp = "check" /\ rp' = (IF link.changed THEN "take" ELSE "test") /\ UNCHANGED <<linkVars, mails>>
    BY <1>6 DEF RxCheck, RxAt
  <2> QED BY <1>1, <2>1 DEF LinkingInv, LinkInv, LinkType, linkVars
<1>7. CASE RxRecv
  <2>1. rp = "wait" /\ rp' = "check" /\ UNCHANGED linkVars
    BY <1>7 DEF RxRecv, RxAt
  <2> QED BY <1>1, <2>1 DEF LinkingInv, LinkInv, LinkType, linkVars
<1>8. CASE /\ UNCHANGED linkVars /\ mails' \in Nat /\ mails' >= mails
           /\ rp' = rp \/ (rp \notin {"check", "take", "set"} /\ rp' \notin {"check", "take", "set"})
  <2>1. link.changed => mails' > 0 \/ rp' \in {"check", "take"}
    <3> SUFFICES ASSUME link.changed PROVE mails' > 0 \/ rp' \in {"check", "take"}
      OBVIOUS
    <3>1. mails > 0 \/ rp \in {"check", "take"}
      BY <1>1 DEF LinkInv
    <3>2. CASE mails > 0
      <4>1. mails' > 0
        BY <1>1, <1>8, <3>2
      <4> QED BY <4>1
    <3>3. CASE rp \in {"check", "take"}
      BY <1>8, <3>3
    <3> QED BY <3>1, <3>2, <3>3
  <2> QED BY <1>1, <1>8, <2>1 DEF LinkingInv, LinkInv, LinkType, linkVars
<1>9. CASE Irq
  <2>1. UNCHANGED <<linkVars, rp>> /\ mails' = Post(mails)
    BY <1>9 DEF Irq, recv
  <2> QED BY <1>1, <1>8, <2>1 DEF Post
<1>10. CASE /\ UNCHANGED <<linkVars, mails>>
            /\ rp' = rp \/ (rp \notin {"check", "take", "set"} /\ rp' \notin {"check", "take", "set"})
  <2>1. mails' \in Nat /\ mails' >= mails
    BY <1>1, <1>10
  <2> QED BY <1>8, <1>10, <2>1
<1>11. CASE RxTest \/ RxLock \/ RxScan \/ RxNoPbuf \/ RxCopy \/ RxRelease \/ RxDone
  BY <1>10, <1>11 DEF RxTest, RxLock, RxScan, RxNoPbuf, RxCopy, RxRelease, RxDone, RxAt
<1>12. CASE (\E n \in RxSegs : Store(n)) \/ IrqEnd \/ UNCHANGED vars
  BY <1>10, <1>12, Zenon DEF Store, IrqEnd, vars, recv
<1>13. CASE Send \/ (\E n \in TxSegs : LinkOutput(n)) \/ LinkOutputReturn \/ Transmit \/ TxSpin
  BY <1>10, <1>13
  DEF Send, LinkOutput, LinkOutputReturn, Transmit, TxSpin, TxRecv, TxCopy, TxTest, TxLock, TxGive, TxDone,
      TxAck, TxAt, recv
<1> QED
  BY <1>3, <1>4, <1>5, <1>6, <1>7, <1>9, <1>11, <1>12, <1>13 DEF Next, Receive

\* Every step keeps who holds the lock and who resumes the transmission.
LEMMA SharedStep == TxType /\ SharedInv /\ [Next]_vars => SharedInv'
<1> SUFFICES ASSUME TxType, SharedInv, [Next]_vars PROVE SharedInv'
  OBVIOUS
<1>1. lock \in BOOLEAN /\ HoldInv /\ tdma \in TxDescs
  BY DEF SharedInv, TxType
<1>2. CASE Send
  <2>1. UNCHANGED <<lock, rp, tp>> /\ ~tbus
    BY <1>2 DEF Send, recv
  <2>2. CASE txd[tdma].own
    BY <1>1, <1>2, <2>1, <2>2 DEF Send, SharedInv, HoldInv
  <2>3. CASE ~txd[tdma].own
    BY <1>1, <1>2, <2>1, <2>3 DEF Send, SharedInv, HoldInv
  <2> QED BY <2>2, <2>3
<1>3. CASE IrqEnd
  BY <1>1, <1>3, Zenon DEF IrqEnd, recv, sendVars, SharedInv, HoldInv
<1>4. CASE RxLock
  BY <1>1, <1>4 DEF RxLock, RxAt, sendVars, SharedInv, HoldInv
<1>5. CASE RxScan
  <2>1. /\ UNCHANGED <<tp, tbus, txd, tdma>> /\ rp = "scan" /\ lock' \in BOOLEAN
        /\ lock' => lock /\ rp' = "scan"
    BY <1>1, <1>5, Zenon DEF RxScan, RxAt, sendVars
  <2> QED BY <1>1, <2>1 DEF SharedInv, HoldInv
<1>6. CASE TxLock
  <2>1. /\ UNCHANGED <<tbus, txd, tdma, rp>> /\ tp = "lock" /\ lock' \in BOOLEAN
        /\ lock' => tp' = "give"
    BY <1>6, Zenon DEF TxLock, TxAt, recv
  <2> QED BY <1>1, <2>1 DEF SharedInv, HoldInv
<1>7. CASE TxDone
  BY <1>1, <1>7, Zenon DEF TxDone, TxAt, recv, SharedInv, HoldInv
<1>8. CASE TxGive
  <2>1. UNCHANGED <<lock, rp>> /\ tp' = "give"
    BY <1>8 DEF TxGive, TxAt, recv
  <2> QED BY <1>1, <2>1 DEF SharedInv, HoldInv
<1>9. CASE TxCopy
  <2>1. UNCHANGED <<lock, rp, tbus, tdma>> /\ tp = "copy"
    BY <1>9 DEF TxCopy, TxAt, recv
  <2>2. txd'[tdma].own = txd[tdma].own
    BY <1>1, <1>9 DEF TxCopy, TxType
  <2> QED BY <1>1, <2>1, <2>2 DEF SharedInv, HoldInv
<1>10. CASE /\ UNCHANGED <<lock, tbus, txd, tdma>>
            /\ tp # "give" \/ tp' = tp
            /\ rp # "scan" \/ rp' = rp
  BY <1>1, <1>10 DEF SharedInv, HoldInv
<1>11. CASE \/ RxRecv \/ RxCheck \/ RxTake \/ RxSetLink \/ RxTest \/ RxNoPbuf \/ RxCopy \/ RxRelease
            \/ RxDone
  BY <1>10, <1>11
  DEF RxRecv, RxCheck, RxTake, RxSetLink, RxTest, RxNoPbuf, RxCopy, RxRelease, RxDone, RxAt, sendVars
<1>12. CASE (\E n \in RxSegs : Store(n)) \/ Irq \/ PhyLinkchange \/ UNCHANGED vars
  BY <1>10, <1>12, Zenon DEF Store, Irq, PhyLinkchange, vars, recv, sendVars
<1>13. CASE (\E n \in TxSegs : LinkOutput(n)) \/ LinkOutputReturn \/ TxRecv \/ TxSpin \/ TxTest \/ TxAck
  BY <1>10, <1>13, Zenon DEF LinkOutput, LinkOutputReturn, TxRecv, TxSpin, TxTest, TxAck, TxAt, recv
<1> QED
  BY <1>2, <1>3, <1>4, <1>5, <1>6, <1>7, <1>8, <1>9, <1>11, <1>12, <1>13 DEF Next, Receive, Transmit

-----------------------------------------------------------------------------
(* Sending.                                                                *)

\* Going on by a and then by b places.
LEMMA TxAdd ==
    ASSUME NEW d \in TxDescs, NEW a \in 0..TxNum, NEW b \in 0..TxNum
    PROVE  TxOn(TxOn(d, a), b) = IF a + b < TxNum THEN TxOn(d, a + b) ELSE TxOn(d, a + b - TxNum)
<1> DEFINE n == TxNum
<1>1. n \in Nat \ {0} /\ d \in 0..(n - 1) /\ a \in 0..n /\ b \in 0..n
  BY EthernetAssumption DEF TxDescs
<1>2. \A e, k : TxOn(e, k) = On(n, e, k)
  BY DEF TxOn, On
<1> HIDE DEF n
<1>3. On(n, d, a) = IF d + a < n THEN d + a ELSE d + a - n
  BY <1>1, OnWrap
<1>4. On(n, d, a) \in 0..(n - 1)
  BY <1>1, <1>3
<1>5. On(n, On(n, d, a), b) = IF On(n, d, a) + b < n THEN On(n, d, a) + b ELSE On(n, d, a) + b - n
  BY <1>1, <1>4, OnWrap
<1>6. CASE a + b < n
  <2>1. a + b \in 0..n
    BY <1>1, <1>6
  <2>2. On(n, d, a + b) = IF d + (a + b) < n THEN d + (a + b) ELSE d + (a + b) - n
    BY <1>1, <2>1, OnWrap
  <2>3. On(n, On(n, d, a), b) = On(n, d, a + b)
    BY <1>1, <1>3, <1>5, <1>6, <2>2
  <2> QED BY <1>2, <1>6, <2>3 DEF n
<1>7. CASE ~(a + b < n)
  <2>1. a + b - n \in 0..n
    BY <1>1, <1>7
  <2>2. On(n, d, a + b - n) = IF d + (a + b - n) < n THEN d + (a + b - n) ELSE d + (a + b - n) - n
    BY <1>1, <2>1, OnWrap
  <2>3. On(n, On(n, d, a), b) = On(n, d, a + b - n)
    BY <1>1, <1>3, <1>5, <1>7, <2>2
  <2> QED BY <1>2, <1>7, <2>3 DEF n
<1> QED BY <1>6, <1>7

\* The counters of the transmit thread.
LEMMA TxCounts ==
    ASSUME TxType
    PROVE  /\ tx.i \in 0..TxNum /\ frame.segs \in 1..TxNum /\ TxNum \in Nat \ {0}
           /\ Len(handed) \in 0..TxNum /\ Given \in Nat /\ Copied \in Nat
<1>1. TxNum \in Nat \ {0} /\ TxSegs \cup {1} \subseteq 1..TxNum
  BY EthernetAssumption
<1>2. tx.i \in 0..TxNum /\ frame.segs \in 1..TxNum
  BY <1>1 DEF TxType
<1>3. Len(handed) \in 0..TxNum
  BY <1>1 DEF TxType
<1>4. tx.i \in Nat /\ frame.segs \in Nat
  BY <1>1, <1>2
<1>5. Given \in Nat /\ Copied \in Nat
  BY <1>4 DEF Given, Copied
<1> QED BY <1>1, <1>2, <1>3, <1>5

\* The transmit DMA sends the oldest segment: the others move up.
LEMMA DmaSends ==
    ASSUME SendInv, Send
    PROVE  SendInv'
<1>1. TxType /\ TokenInv /\ SentAsGiven /\ CopyInv /\ TxNum \in Nat \ {0} /\ tdma \in TxDescs
  BY EthernetAssumption DEF SendInv, TxType
<1>2. UNCHANGED <<sp, frame, txmail, ack, tp, tx>>
  BY DEF Send
<1>3. TokenInv' /\ Given' = Given /\ Copied' = Copied
  BY <1>1, <1>2 DEF TokenInv, Given, Copied
<1>4. CASE ~txd[tdma].own
  <2>1. tbus' = TRUE /\ UNCHANGED <<txd, tdma, handed>>
    BY <1>4 DEF Send
  <2> QED BY <1>1, <1>2, <1>3, <2>1, Zenon DEF SendInv, TxType, SentAsGiven, CopyInv
<1>5. CASE txd[tdma].own
  <2> DEFINE U(k) == txd[TxOn(tdma, k)]
             V(k) == txd'[TxOn(tdma', k)]
             n == Len(handed)
  <2>1. /\ txd' = [txd EXCEPT ![tdma] = CpuOwned] /\ tdma' = TxOn(tdma, 1)
        /\ handed' = Tail(handed) /\ UNCHANGED tbus
    BY <1>5 DEF Send
  <2>2. \A k \in 0..(TxNum - 1) : IF k < n THEN U(k).own /\ U(k).seg = handed[k + 1] ELSE ~U(k).own
    BY <1>1 DEF SentAsGiven
  <2>3. n \in 0..TxNum /\ n > 0
    <3>1. n \in 0..TxNum /\ 0 \in 0..(TxNum - 1)
      BY <1>1 DEF TxType
    <3>2. U(0).own
      BY <1>1, <1>5, TxRing
    <3> QED BY <2>2, <3>1, <3>2
  <2>4. handed' \in Seq((0..(Ids - 1)) \X (0..TxNum)) /\ Len(handed') = n - 1
        /\ \A k \in 1..(n - 1) : handed'[k] = handed[k + 1]
    BY <1>1, <2>1, <2>3 DEF TxType
  <2>5. \A k \in 0..(TxNum - 1) : TxOn(tdma', k) = TxOn(tdma, k + 1)
    BY <1>1, <2>1, TxShift
  <2>6. tdma' \in TxDescs
    BY <1>1, <2>1, TxRing
  <2>7. ASSUME NEW k \in 0..(TxNum - 2) PROVE V(k) = U(k + 1)
    <3>1. k \in 0..(TxNum - 1) /\ k + 1 \in 0..(TxNum - 1) /\ 0 \in 0..(TxNum - 1) /\ k + 1 # 0
      BY <1>1
    <3>2. TxOn(tdma, k + 1) \in TxDescs /\ TxOn(tdma, 0) = tdma /\ TxOn(tdma, k + 1) # TxOn(tdma, 0)
      BY <1>1, <3>1, TxRing
    <3> QED BY <1>1, <2>1, <2>5, <3>1, <3>2 DEF TxType
  <2>8. V(TxNum - 1) = CpuOwned
    <3>1. TxNum - 1 \in 0..(TxNum - 1) /\ TxNum - 1 + 1 = TxNum
      BY <1>1
    <3>2. TxOn(tdma', TxNum - 1) = tdma
      BY <1>1, <2>5, <3>1, TxRing
    <3> QED BY <1>1, <2>1, <3>2 DEF TxType
  <2> HIDE DEF U, V, n
  <2>9. ASSUME NEW k \in 0..(TxNum - 1)
        PROVE  IF k < n - 1 THEN V(k).own /\ V(k).seg = handed'[k + 1] ELSE ~V(k).own
    <3>1. CASE k = TxNum - 1
      <4>1. ~(k < n - 1) /\ ~CpuOwned.own
        BY <1>1, <2>3, <3>1 DEF CpuOwned
      <4> QED BY <2>8, <3>1, <4>1, Zenon
    <3>2. CASE k # TxNum - 1
      <4>1. k \in 0..(TxNum - 2) /\ k + 1 \in 0..(TxNum - 1) /\ (k + 1 < n <=> k < n - 1)
        BY <1>1, <2>3, <3>2
      <4>2. k < n - 1 => k + 1 \in 1..(n - 1)
        BY <2>3, <4>1
      <4>3. V(k) = U(k + 1)
        BY <2>7, <4>1
      <4>4. CASE k < n - 1
        BY <2>2, <2>4, <4>1, <4>2, <4>3, <4>4, Zenon
      <4>5. CASE ~(k < n - 1)
        BY <2>2, <4>1, <4>3, <4>5
      <4> QED BY <4>4, <4>5
    <3> QED BY <3>1, <3>2, Zenon
  <2>10. SentAsGiven'
    BY <2>4, <2>9, Zenon DEF SentAsGiven, V
  <2>11. tx.desc = TxOn(tdma', n - 1)
    <3>1. n - 1 \in 0..(TxNum - 1) /\ n - 1 + 1 = n
      BY <1>1, <2>3
    <3> QED BY <1>1, <2>5, <3>1, Zenon DEF CopyInv, n
  <2>12. ASSUME NEW j \in Given..(Copied - 1)
         PROVE  n - 1 + (j - Given) < TxNum /\ V(n - 1 + (j - Given)).seg = <<frame.id, j>>
    <3>1. n + (j - Given) < TxNum /\ U(n + (j - Given)).seg = <<frame.id, j>>
      BY <1>1, Zenon DEF CopyInv, U, n
    <3>2. Given \in Nat /\ Copied \in Nat
      BY <1>1, TxCounts
    <3>3. n - 1 + (j - Given) \in 0..(TxNum - 2) /\ n - 1 + (j - Given) + 1 = n + (j - Given)
      BY <1>1, <2>3, <3>1, <3>2
    <3> QED BY <1>1, <2>7, <3>1, <3>3
  <2>13. CopyInv'
    BY <1>1, <1>2, <1>3, <2>4, <2>11, <2>12, Zenon DEF CopyInv, V
  <2>14. TxType'
    <3>1. txd' \in [TxDescs -> [own : BOOLEAN, seg : (0..(Ids - 1)) \X (0..TxNum)]]
      <4>1. 0 \in 0..(Ids - 1) /\ 0 \in 0..TxNum
        BY EthernetAssumption
      <4> QED BY <1>1, <2>1, <4>1 DEF TxType, CpuOwned
    <3>2. Len(handed') <= TxNum
      BY <1>1, <2>3, <2>4
    <3> QED BY <1>1, <1>2, <2>1, <2>4, <2>6, <3>1, <3>2, Zenon DEF TxType
  <2> QED BY <1>3, <2>10, <2>13, <2>14 DEF SendInv
<1> QED BY <1>4, <1>5

\* rt_stm32_eth_tx copies a segment into the buffer behind those already copied, which is not
\* the DMA's, or gives the frame up.
LEMMA CopySends ==
    ASSUME SendInv, TxCopy
    PROVE  SendInv'
<1> DEFINE U(k) == txd[TxOn(tdma, k)]
           V(k) == txd'[TxOn(tdma, k)]
           n == Len(handed)
           d == TxOn(tx.desc, tx.i)
           more == tx.i + 1 < frame.segs
<1>1. TxType /\ TokenInv /\ SentAsGiven /\ CopyInv /\ tdma \in TxDescs
  BY DEF SendInv, TxType
<1>2. /\ tx.i \in 0..TxNum /\ frame.segs \in 1..TxNum /\ TxNum \in Nat \ {0} /\ n \in 0..TxNum
      /\ tx.desc \in TxDescs /\ frame.id \in 0..(Ids - 1)
  BY <1>1, TxCounts DEF TxType
<1>3. /\ tp = "copy" /\ UNCHANGED <<sp, frame, txmail, ack, tdma, tbus, handed>>
      /\ tp' = IF txd[d].own THEN "ack" ELSE IF more THEN "copy" ELSE "spin"
      /\ txd' = IF txd[d].own THEN txd ELSE [txd EXCEPT ![d].seg = <<frame.id, tx.i>>]
      /\ tx' = [tx EXCEPT !.i = IF ~txd[d].own /\ more THEN tx.i + 1 ELSE 0]
  BY DEF TxCopy, TxAt
<1>4. TokenInv'
  BY <1>1, <1>3 DEF TokenInv
<1>5. tx.i < frame.segs /\ tx.i \in 0..(TxNum - 1) /\ tx.i + 1 \in 0..TxNum
  BY <1>1, <1>2, <1>3 DEF CopyInv
<1>6. d = IF n + tx.i < TxNum THEN TxOn(tdma, n + tx.i) ELSE TxOn(tdma, n + tx.i - TxNum)
  <2>1. tx.desc = TxOn(tdma, n)
    BY <1>1 DEF CopyInv
  <2> HIDE DEF n
  <2> QED BY <1>1, <1>2, <2>1, TxAdd
<1>7. d \in TxDescs
  BY <1>2, TxRing, Zenon
<1>8. \A k \in 0..(TxNum - 1) : IF k < n THEN U(k).own /\ U(k).seg = handed[k + 1] ELSE ~U(k).own
  BY <1>1 DEF SentAsGiven
<1>9. CASE txd[d].own
  <2>1. tp' = "ack" /\ txd' = txd /\ tx' = [tx EXCEPT !.i = 0]
    BY <1>3, <1>9
  <2>2. tx'.i = 0 /\ tx'.desc = tx.desc
    BY <1>1, <2>1 DEF TxType
  <2>3. TxType'
    <3>1. tx \in [desc : TxDescs, i : 0..TxNum] /\ 0 \in 0..TxNum
      BY <1>1, <1>2 DEF TxType
    <3>2. tx' \in [desc : TxDescs, i : 0..TxNum]
      BY <2>1, <3>1
    <3> QED BY <1>1, <1>3, <2>1, <3>2 DEF TxType
  <2>4. CopyInv'
    <3>1. Given' = 0 /\ Copied' = 0 /\ 0 <= frame.segs /\ \A j \in 0..(0 - 1) : FALSE
      BY <1>2, <2>1 DEF Given, Copied
    <3> QED BY <1>1, <1>3, <2>1, <2>2, <3>1 DEF CopyInv
  <2>5. SentAsGiven'
    BY <1>1, <1>3, <2>1 DEF SentAsGiven
  <2> QED BY <1>4, <2>3, <2>4, <2>5 DEF SendInv
<1>10. CASE ~txd[d].own
  <2>1. /\ txd' = [txd EXCEPT ![d].seg = <<frame.id, tx.i>>]
        /\ tp' = IF more THEN "copy" ELSE "spin"
        /\ tx' = [tx EXCEPT !.i = IF more THEN tx.i + 1 ELSE 0]
    BY <1>3, <1>10
  <2>2. n + tx.i < TxNum /\ d = TxOn(tdma, n + tx.i) /\ n + tx.i \in 0..(TxNum - 1)
    <3> SUFFICES ASSUME ~(n + tx.i < TxNum) PROVE FALSE
      BY <1>2, <1>6
    <3>1. n + tx.i - TxNum \in 0..(TxNum - 1) /\ n + tx.i - TxNum < n
      BY <1>2, <1>5
    <3>2. U(n + tx.i - TxNum).own
      BY <1>8, <3>1
    <3> QED BY <1>6, <1>10, <3>2
  <2>3. /\ V(n + tx.i).seg = <<frame.id, tx.i>> /\ V(n + tx.i).own = U(n + tx.i).own
        /\ \A k \in 0..(TxNum - 1) \ {n + tx.i} : V(k) = U(k)
    <3>1. ASSUME NEW k \in 0..(TxNum - 1)
          PROVE  TxOn(tdma, k) \in TxDescs /\ (TxOn(tdma, k) = TxOn(tdma, n + tx.i) => k = n + tx.i)
      BY <1>1, <2>2, TxRing, Zenon
    <3>2. ASSUME NEW k \in 0..(TxNum - 1) \ {n + tx.i} PROVE V(k) = U(k)
      BY <1>1, <2>1, <2>2, <3>1 DEF TxType
    <3>3. txd'[d].seg = <<frame.id, tx.i>> /\ txd'[d].own = txd[d].own
      BY <1>1, <1>7, <2>1 DEF TxType
    <3> QED BY <2>2, <3>2, <3>3, Zenon
  <2> HIDE DEF U, V
  <2>4. SentAsGiven'
    <3> SUFFICES ASSUME NEW k \in 0..(TxNum - 1)
                 PROVE  IF k < n THEN V(k).own /\ V(k).seg = handed[k + 1] ELSE ~V(k).own
      BY <1>3 DEF SentAsGiven, V
    <3>1. CASE k = n + tx.i
      <4>1. ~(k < n)
        BY <1>2, <3>1
      <4> QED BY <1>8, <2>3, <3>1, <4>1
    <3>2. CASE k # n + tx.i
      BY <1>8, <2>3, <3>2
    <3> QED BY <3>1, <3>2, Zenon
  <2>5. tx'.i = (IF more THEN tx.i + 1 ELSE 0) /\ tx'.desc = tx.desc
    BY <1>1, <2>1 DEF TxType
  <2>6. Given' = 0 /\ Copied' = tx.i + 1
    <3>1. ~more => frame.segs = tx.i + 1
      BY <1>2, <1>5
    <3> QED BY <1>3, <2>1, <2>5, <3>1 DEF Given, Copied
  <2>7. ASSUME NEW j \in 0..(tx.i + 1 - 1)
        PROVE  n + (j - 0) < TxNum /\ V(n + (j - 0)).seg = <<frame.id, j>>
    <3>1. CASE j = tx.i
      <4>1. n + (j - 0) = n + tx.i
        BY <1>2, <3>1
      <4> QED BY <2>2, <2>3, <3>1, <4>1, Zenon
    <3>2. CASE j # tx.i
      <4>1. j \in 0..(tx.i - 1) /\ n + (j - 0) \in 0..(TxNum - 1) \ {n + tx.i} /\ n + (j - 0) < TxNum
        BY <1>2, <2>2, <3>2
      <4>2. Given = 0 /\ Copied = tx.i
        BY <1>3 DEF Given, Copied
      <4>3. U(n + (j - 0)).seg = <<frame.id, j>>
        BY <1>1, <4>1, <4>2 DEF CopyInv, U
      <4> QED BY <2>3, <4>1, <4>3, Zenon
    <3> QED BY <3>1, <3>2
  <2>8. CopyInv'
    <3>1. tx'.i <= frame.segs /\ (tp' = "copy" => tx'.i < frame.segs) /\ tp' \in {"copy", "spin"}
          /\ (tp' = "spin" => tx'.i = 0)
      BY <1>2, <2>1, <2>5
    <3>2. \A j \in Given'..(Copied' - 1) :
             /\ Len(handed') + (j - Given') < TxNum
             /\ txd'[TxOn(tdma', Len(handed') + (j - Given'))].seg = <<frame'.id, j>>
      <4>1. handed' = handed /\ tdma' = tdma /\ frame' = frame
        BY <1>3
      <4>2. \A j \in 0..(tx.i + 1 - 1) :
               /\ Len(handed') + (j - 0) < TxNum
               /\ txd'[TxOn(tdma', Len(handed') + (j - 0))].seg = <<frame'.id, j>>
        BY <2>7, <4>1 DEF V
      <4> HIDE DEF V, n, d, more
      <4>3. Given' \in Nat /\ Copied' \in Nat /\ tx.i \in Nat
        BY <1>2, <1>5, <2>6
      <4> QED BY <2>6, <4>2, <4>3
    <3>3. tx'.desc = TxOn(tdma', Len(handed'))
      BY <1>1, <1>3, <2>5 DEF CopyInv
    <3> QED BY <1>3, <3>1, <3>2, <3>3 DEF CopyInv
  <2>9. TxType'
    <3>1. tx' \in [desc : TxDescs, i : 0..TxNum] /\ tp' \in {"copy", "spin"}
      <4>1. PICK y \in 0..TxNum : tx' = [tx EXCEPT !.i = y]
        BY <1>2, <1>5, <2>1
      <4> QED BY <1>1, <2>1, <4>1, Zenon DEF TxType
    <3>2. txd' \in [TxDescs -> [own : BOOLEAN, seg : (0..(Ids - 1)) \X (0..TxNum)]]
      BY <1>1, <1>2, <1>7, <2>1, Zenon DEF TxType
    <3> QED BY <1>1, <1>3, <3>1, <3>2, Zenon DEF TxType
  <2> QED BY <1>4, <2>4, <2>8, <2>9 DEF SendInv
<1> QED BY <1>9, <1>10

\* HAL_ETH_TransmitFrame hands the next segment over.
LEMMA GiveSends ==
    ASSUME SendInv, TxGive
    PROVE  SendInv'
<1> DEFINE U(k) == txd[TxOn(tdma, k)]
           V(k) == txd'[TxOn(tdma, k)]
           n == Len(handed)
           b == <<frame.id, tx.i>>
<1>1. TxType /\ TokenInv /\ SentAsGiven /\ CopyInv /\ tdma \in TxDescs
  BY DEF SendInv, TxType
<1>2. /\ tx.i \in 0..TxNum /\ frame.segs \in 1..TxNum /\ TxNum \in Nat \ {0} /\ n \in 0..TxNum
      /\ tx.desc \in TxDescs /\ frame.id \in 0..(Ids - 1)
  BY <1>1, TxCounts DEF TxType
<1>3. /\ tp = "give" /\ tp' = "give" /\ tx.i < frame.segs
      /\ sp' = sp /\ frame' = frame /\ txmail' = txmail /\ ack' = ack /\ tdma' = tdma /\ tbus' = tbus
      /\ txd' = [txd EXCEPT ![tx.desc].own = TRUE]
      /\ tx' = [desc |-> TxOn(tx.desc, 1), i |-> tx.i + 1]
      /\ handed' = Append(handed, b)
  BY DEF TxGive, TxAt
<1>4. TokenInv'
  BY <1>1, <1>3 DEF TokenInv
<1>5. Given = tx.i /\ Copied = frame.segs /\ Given' = tx.i + 1 /\ Copied' = frame.segs
  BY <1>3 DEF Given, Copied
<1>6. ASSUME NEW j \in tx.i..(frame.segs - 1)
      PROVE  n + (j - tx.i) < TxNum /\ U(n + (j - tx.i)).seg = <<frame.id, j>>
  BY <1>1, <1>5, Zenon DEF CopyInv
<1>7. tx.i \in tx.i..(frame.segs - 1) /\ n + (tx.i - tx.i) = n
  BY <1>2, <1>3
<1>8. n \in 0..(TxNum - 1) /\ U(n).seg = b
  <2>1. n + (tx.i - tx.i) < TxNum /\ U(n + (tx.i - tx.i)).seg = b
    BY <1>6, <1>7, Zenon
  <2> HIDE DEF U, n
  <2> QED BY <1>2, <1>7, <2>1
<1>9. tx.desc = TxOn(tdma, n)
  BY <1>1 DEF CopyInv
<1>10. \A k \in 0..(TxNum - 1) : IF k < n THEN U(k).own /\ U(k).seg = handed[k + 1] ELSE ~U(k).own
  BY <1>1 DEF SentAsGiven
<1>11. /\ V(n).own /\ V(n).seg = b
       /\ \A k \in 0..(TxNum - 1) \ {n} : V(k) = U(k)
  <2>1. ASSUME NEW k \in 0..(TxNum - 1)
        PROVE  TxOn(tdma, k) \in TxDescs /\ (TxOn(tdma, k) = TxOn(tdma, n) => k = n)
    BY <1>1, <1>8, TxRing
  <2>2. ASSUME NEW k \in 0..(TxNum - 1) \ {n} PROVE V(k) = U(k)
    BY <1>1, <1>3, <1>9, <2>1 DEF TxType
  <2>3. txd'[tx.desc].own /\ txd'[tx.desc].seg = txd[tx.desc].seg
    BY <1>1, <1>2, <1>3 DEF TxType
  <2> QED BY <1>8, <1>9, <2>2, <2>3
<1>12. b \in (0..(Ids - 1)) \X (0..TxNum)
  BY <1>2
<1>13. /\ handed' \in Seq((0..(Ids - 1)) \X (0..TxNum)) /\ Len(handed') = n + 1 /\ handed'[n + 1] = b
       /\ \A k \in 1..n : handed'[k] = handed[k]
  BY <1>1, <1>3, <1>12 DEF TxType
<1> HIDE DEF U, V, n, b
<1>14. SentAsGiven'
  <2> SUFFICES ASSUME NEW k \in 0..(TxNum - 1)
               PROVE  IF k < n + 1 THEN V(k).own /\ V(k).seg = handed'[k + 1] ELSE ~V(k).own
    BY <1>3, <1>13 DEF SentAsGiven, V
  <2>1. CASE k = n
    BY <1>8, <1>11, <1>13, <2>1
  <2>2. CASE k # n
    <3>1. (k < n + 1 <=> k < n) /\ (k < n => k + 1 \in 1..n) /\ V(k) = U(k)
      BY <1>2, <1>11, <2>2
    <3> QED BY <1>10, <1>13, <3>1
  <2> QED BY <2>1, <2>2
<1>15. tx'.desc = TxOn(tdma, n + 1) /\ tx'.i = tx.i + 1
  BY <1>1, <1>3, <1>8, <1>9, TxShift, TxAdd
<1>16. ASSUME NEW j \in (tx.i + 1)..(frame.segs - 1)
       PROVE  n + 1 + (j - (tx.i + 1)) < TxNum /\ V(n + 1 + (j - (tx.i + 1))).seg = <<frame.id, j>>
  <2>1. j \in tx.i..(frame.segs - 1) /\ n + 1 + (j - (tx.i + 1)) = n + (j - tx.i)
    BY <1>2, <1>8
  <2>2. n + (j - tx.i) < TxNum /\ U(n + (j - tx.i)).seg = <<frame.id, j>>
    BY <1>6, <2>1, Zenon
  <2>3. n + (j - tx.i) \in 0..(TxNum - 1) \ {n}
    BY <1>2, <1>8, <2>2
  <2> QED BY <1>11, <2>1, <2>2, <2>3, Zenon
<1>17. CopyInv'
  <2>1. tx'.desc = TxOn(tdma', Len(handed')) /\ tx'.i <= frame'.segs /\ tp' = "give"
    BY <1>2, <1>3, <1>13, <1>15
  <2>2. \A j \in Given'..(Copied' - 1) :
           /\ Len(handed') + (j - Given') < TxNum
           /\ txd'[TxOn(tdma', Len(handed') + (j - Given'))].seg = <<frame'.id, j>>
    BY <1>3, <1>5, <1>13, <1>16, Zenon DEF V
  <2> QED BY <2>1, <2>2 DEF CopyInv
<1>18. TxType'
  <2>1. tx'.desc \in TxDescs /\ tx.i + 1 \in 0..TxNum /\ Len(handed') <= TxNum
    <3>1. TxOn(tx.desc, 1) \in TxDescs
      BY <1>2, TxRing
    <3>2. tx'.desc \in TxDescs
      BY <1>2, <1>3, <3>1
    <3>3. tx.i + 1 \in 0..TxNum
      BY <1>2, <1>3
    <3>4. Len(handed') <= TxNum
      BY <1>2, <1>8, <1>13
    <3> QED BY <3>2, <3>3, <3>4
  <2>2. tx' \in [desc : TxDescs, i : 0..TxNum]
    BY <1>3, <2>1
  <2>3. txd' \in [TxDescs -> [own : BOOLEAN, seg : (0..(Ids - 1)) \X (0..TxNum)]]
    BY <1>1, <1>2, <1>3, Zenon DEF TxType
  <2> QED BY <1>1, <1>3, <1>13, <2>1, <2>2, <2>3, Zenon DEF TxType
<1> QED BY <1>4, <1>14, <1>17, <1>18 DEF SendInv

\* A step that leaves the ring alone and is not in the middle of copying or handing over.
LEMMA RestSends ==
    ASSUME SendInv, UNCHANGED <<txd, tdma, handed>>,
           frame' \in [id : 0..(Ids - 1), segs : TxSegs \cup {1}],
           tx' = tx \/ tx' = [tx EXCEPT !.i = 0], tx'.i = 0,
           tp' \in {"wait", "copy", "spin", "test", "lock", "give", "ack"},
           \/ tp' \in {"wait", "ack", "copy"}
           \/ tp \in {"spin", "test", "lock"} /\ frame' = frame,
           TokenInv', tbus' \in BOOLEAN, txmail' \in BOOLEAN, sp' \in {"idle", "wait"}, ack' \in 0..1
    PROVE  SendInv'
<1>1. TxType /\ SentAsGiven /\ CopyInv
  BY DEF SendInv
<1>2. tx' \in [desc : TxDescs, i : 0..TxNum] /\ tx'.desc = tx.desc
  <2>1. tx \in [desc : TxDescs, i : 0..TxNum] /\ 0 \in 0..TxNum
    BY <1>1, TxCounts DEF TxType
  <2> QED BY <2>1
<1>3. TxType'
  BY <1>1, <1>2 DEF TxType
<1>4. SentAsGiven'
  BY <1>1 DEF SentAsGiven
<1>5. frame'.segs \in 1..TxNum /\ TxNum \in Nat /\ Given' \in Nat /\ Copied' \in Nat
  <2>1. frame'.segs \in 1..TxNum /\ TxNum \in Nat
    <3>1. TxSegs \cup {1} \subseteq 1..TxNum /\ TxNum \in Nat
      BY EthernetAssumption
    <3> QED BY <3>1
  <2>2. frame'.segs \in Nat /\ tx'.i \in Nat
    BY <2>1
  <2> QED BY <2>1, <2>2 DEF Given, Copied
<1>6. Given' = 0
  BY DEF Given
<1>7. ASSUME NEW j \in Given'..(Copied' - 1)
      PROVE  /\ Len(handed') + (j - Given') < TxNum
             /\ txd'[TxOn(tdma', Len(handed') + (j - Given'))].seg = <<frame'.id, j>>
  <2>1. CASE tp' \in {"wait", "ack", "copy"}
    <3>1. Copied' = 0
      BY <2>1 DEF Copied
    <3> QED BY <1>5, <1>6, <3>1
  <2>2. CASE tp \in {"spin", "test", "lock"} /\ frame' = frame /\ tp' \notin {"wait", "ack", "copy"}
    <3>1. Given = 0 /\ Copied = frame.segs /\ Copied' = frame.segs
      BY <2>2 DEF Given, Copied
    <3>2. j \in Given..(Copied - 1) /\ Given' = Given
      BY <1>6, <3>1
    <3> QED BY <1>1, <2>2, <3>2 DEF CopyInv
  <2> QED BY <2>1, <2>2
<1>8. CopyInv'
  <2>1. tx'.desc = TxOn(tdma', Len(handed'))
    BY <1>1, <1>2 DEF CopyInv
  <2>2. tx'.i <= frame'.segs /\ tx'.i < frame'.segs
    BY <1>5
  <2> QED BY <1>7, <2>1, <2>2 DEF CopyInv
<1> QED BY <1>3, <1>4, <1>8 DEF SendInv

\* Every step keeps the invariant of sending.
LEMMA SendStep == SendInv /\ [Next]_vars => SendInv'
<1> SUFFICES ASSUME SendInv, [Next]_vars PROVE SendInv'
  OBVIOUS
<1>1. TxType /\ TokenInv /\ CopyInv /\ (tp \notin {"copy", "give"} => tx.i = 0)
  BY DEF SendInv, CopyInv
<1>2. CASE \E n \in TxSegs : LinkOutput(n)
  <2>1. PICK n \in TxSegs : LinkOutput(n)
    BY <1>2
  <2>2. /\ UNCHANGED <<txd, tdma, handed, tx, tp, tbus, ack>>
        /\ sp = "idle" /\ sp' = "wait" /\ txmail' = TRUE
        /\ frame' = [id |-> (frame.id + 1) % Ids, segs |-> n]
    BY <2>1 DEF LinkOutput
  <2>3. frame' \in [id : 0..(Ids - 1), segs : TxSegs \cup {1}]
    <3>1. frame.id \in Nat /\ Ids \in Nat /\ Ids > 0
      BY <1>1, EthernetAssumption DEF TxType
    <3>2. (frame.id + 1) % Ids \in 0..(Ids - 1)
      BY <3>1
    <3> QED BY <2>2, <3>2
  <2>4. TokenInv' /\ tp = "wait"
    BY <1>1, <2>2 DEF TokenInv
  <2> QED BY <1>1, <2>2, <2>3, <2>4, RestSends DEF TxType
<1>3. CASE LinkOutputReturn
  <2>1. /\ UNCHANGED <<txd, tdma, handed, tx, tp, tbus, txmail, frame>>
        /\ sp = "wait" /\ ack > 0 /\ sp' = "idle" /\ ack' = ack - 1
    BY <1>3 DEF LinkOutputReturn
  <2>2. TokenInv' /\ tp = "wait" /\ ack' = 0
    BY <1>1, <2>1 DEF TokenInv
  <2> QED BY <1>1, <2>1, <2>2, RestSends DEF TxType
<1>4. CASE TxRecv
  <2>1. /\ UNCHANGED <<txd, tdma, handed, tx, tbus, frame, sp, ack>>
        /\ txmail /\ tp = "wait" /\ tp' = "copy" /\ txmail' = FALSE
    BY <1>4 DEF TxRecv, TxAt
  <2>2. TokenInv'
    BY <1>1, <2>1 DEF TokenInv
  <2> QED BY <1>1, <2>1, <2>2, RestSends, Zenon DEF TxType
<1>5. CASE TxSpin \/ TxTest \/ TxLock
  <2>1. /\ UNCHANGED <<txd, tdma, handed, tx, tbus, frame, sp, ack, txmail>>
        /\ tp \in {"spin", "test", "lock"} /\ tp' \in {"test", "ack", "lock", "give"}
    BY <1>5, Zenon DEF TxSpin, TxTest, TxLock, TxAt
  <2>2. TokenInv'
    BY <1>1, <2>1 DEF TokenInv
  <2> QED BY <1>1, <2>1, <2>2, RestSends DEF TxType
<1>6. CASE TxDone
  <2>1. /\ UNCHANGED <<txd, tdma, handed, frame, sp, ack, txmail>>
        /\ tp = "give" /\ tp' = "ack" /\ tbus' = FALSE /\ tx' = [tx EXCEPT !.i = 0]
    BY <1>6 DEF TxDone, TxAt
  <2>2. TokenInv'
    BY <1>1, <2>1 DEF TokenInv
  <2>3. tx'.i = 0
    BY <1>1, <2>1 DEF TxType
  <2> QED BY <1>1, <2>1, <2>2, <2>3, RestSends, Zenon DEF TxType
<1>7. CASE TxAck
  <2>1. /\ UNCHANGED <<txd, tdma, handed, frame, sp, tx, txmail, tbus>>
        /\ tp = "ack" /\ tp' = "wait" /\ ack' = ack + 1
    BY <1>7 DEF TxAck, TxAt
  <2>2. TokenInv' /\ ack' = 1
    BY <1>1, <2>1 DEF TokenInv
  <2> QED BY <1>1, <2>1, <2>2, RestSends DEF TxType
<1>8. CASE UNCHANGED sendVars
  BY <1>8, Zenon DEF sendVars, SendInv, TxType, TokenInv, SentAsGiven, CopyInv, Given, Copied
<1>9. CASE Receive
  BY <1>8, <1>9
  DEF Receive, RxRecv, RxCheck, RxTake, RxSetLink, RxTest, RxLock, RxScan, RxNoPbuf, RxCopy, RxRelease,
      RxDone, RxAt, sendVars
<1>10. CASE (\E n \in RxSegs : Store(n)) \/ Irq \/ IrqEnd \/ PhyLinkchange \/ UNCHANGED vars
  BY <1>8, <1>10, Zenon DEF Store, Irq, IrqEnd, PhyLinkchange, vars
<1> QED
  BY <1>2, <1>3, <1>4, <1>5, <1>6, <1>7, <1>9, <1>10, DmaSends, CopySends, GiveSends DEF Next, Transmit

-----------------------------------------------------------------------------
(* The theorems.                                                           *)

\* The state after the descriptor lists were built and the DMA started.
LEMMA InitInductive == Init => IInv
<1> SUFFICES ASSUME Init PROVE IInv
  OBVIOUS
<1>1. /\ RxNum \in Nat \ {0} /\ TxNum \in Nat \ {0} /\ MbSize \in Nat \ {0} /\ Ids \in Nat /\ Ids > 1
      /\ 0 \in RxDescs /\ 0 \in TxDescs /\ 0 \in 0..(Ids - 1) /\ 0 \in 0..RxNum /\ 0 \in 0..TxNum
      /\ 0 \in 0..MbSize /\ 0 <= RxNum
  BY EthernetAssumption DEF RxDescs, TxDescs
<1>2. RxOn(0, 0) = 0 /\ TxOn(0, 0) = 0
  BY <1>1, RxRing, TxRing
<1>3. RecvInv
  <2>1. RxType
    BY <1>1, Zenon DEF Init, RxType, DmaOwned
  <2>2. rp = "wait" /\ rx.segs = 0 /\ rx.desc = 0 /\ rx.i = 0 /\ ~rx.p /\ ~rbus /\ ~isr
    BY Zenon DEF Init
  <2>3. Oldest = 0 /\ Met = 0
    BY <2>2 DEF Oldest, Met
  <2>4. PlaceInv
    BY <1>2, <2>2, <2>3 DEF PlaceInv
  <2>5. \A d \in RxDescs : rxd[d].own /\ ~rxd[d].last
    BY Zenon DEF Init, DmaOwned
  <2>6. rdma.at = 0 /\ rdma.left = 0
    BY Zenon DEF Init
  <2>7. RingInv(0)
    <3>1. RingAt(0, 0)
      <4>1. ASSUME NEW k \in 0..(RxNum - 1) PROVE rxd[RxOn(0, k)].own /\ k >= 0
        <5>1. RxOn(0, k) \in RxDescs
          BY <1>1, RxRing
        <5> QED BY <1>1, <2>5, <5>1
      <4> QED BY <1>2, <2>6, <4>1 DEF RingAt
    <3>2. FramesAt(0, 0)
      BY <2>6 DEF FramesAt
    <3>3. MetAt(0, 0, 0) /\ PartAt(0, 0)
      BY DEF MetAt, PartAt
    <3> QED BY <2>2, <2>3, <3>1, <3>2, <3>3 DEF RingInv
  <2>8. WakeInv
    BY <2>2, <2>5 DEF WakeInv, FrameLeft
  <2> QED BY <1>1, <2>1, <2>4, <2>7, <2>8 DEF RecvInv
<1>4. LinkingInv
  BY Zenon DEF Init, LinkingInv, LinkType, LinkInv
<1>5. SendInv
  <2>1. TxType
    <3>1. txd \in [TxDescs -> [own : BOOLEAN, seg : (0..(Ids - 1)) \X (0..TxNum)]]
      BY <1>1, Zenon DEF Init, CpuOwned
    <3>2. handed \in Seq((0..(Ids - 1)) \X (0..TxNum)) /\ Len(handed) <= TxNum
      <4>1. handed = <<>>
        BY Zenon DEF Init
      <4>2. 0 <= TxNum
        BY <1>1
      <4> QED BY <4>1, <4>2
    <3>3. /\ frame \in [id : 0..(Ids - 1), segs : TxSegs \cup {1}]
          /\ tx \in [desc : TxDescs, i : 0..TxNum] /\ tdma \in TxDescs
      BY <1>1, Zenon DEF Init
    <3>4. txmail \in BOOLEAN /\ tbus \in BOOLEAN
      BY Zenon DEF Init
    <3>5. sp = "idle" /\ ack = 0 /\ tp = "wait"
      BY Zenon DEF Init
    <3> QED BY <3>1, <3>2, <3>3, <3>4, <3>5 DEF TxType
  <2>2. TokenInv
    BY Zenon DEF Init, TokenInv
  <2>3. SentAsGiven
    <3> SUFFICES ASSUME NEW k \in 0..(TxNum - 1) PROVE ~(k < Len(handed)) /\ ~txd[TxOn(tdma, k)].own
      BY DEF SentAsGiven
    <3>1. TxOn(0, k) \in TxDescs
      BY <1>1, TxRing
    <3>2. tdma = 0 /\ Len(handed) = 0 /\ \A d \in TxDescs : ~txd[d].own
      BY Zenon DEF Init, CpuOwned
    <3>3. ~(k < 0)
      BY <1>1
    <3> QED BY <3>1, <3>2, <3>3
  <2>4. CopyInv
    <3>1. Given = 0 /\ Copied = 0 /\ tp = "wait" /\ tx.i = 0 /\ frame.segs = 1
      BY Zenon DEF Init, Given, Copied
    <3>2. tx.desc = TxOn(tdma, Len(handed))
      BY <1>2, Zenon DEF Init
    <3>3. \A j \in Given..(Copied - 1) : FALSE
      BY <3>1
    <3>4. tx.i <= frame.segs
      BY <3>1
    <3> QED BY <3>1, <3>2, <3>3, <3>4, Zenon DEF CopyInv
  <2> QED BY <2>1, <2>2, <2>3, <2>4 DEF SendInv
<1>6. SharedInv
  BY Zenon DEF Init, SharedInv, HoldInv
<1> QED BY <1>3, <1>4, <1>5, <1>6 DEF IInv

\* The inductive invariant of the two rings, the two threads, the interrupt handler, the
\* link and the lock.
THEOREM Inductive == Spec => []IInv
<1>1. Init => IInv
  BY InitInductive
<1>2. IInv /\ [Next]_vars => IInv'
  <2> SUFFICES ASSUME IInv, [Next]_vars PROVE IInv'
    OBVIOUS
  <2>1. RecvInv /\ LinkingInv /\ SendInv /\ SharedInv /\ RxType /\ TxType
    BY DEF IInv, RecvInv, SendInv
  <2>2. RecvInv' /\ SendInv'
    BY <2>1, RecvStep, SendStep
  <2>3. LinkingInv' /\ SharedInv'
    BY <2>1, LinkStep, SharedStep
  <2> QED BY <2>2, <2>3 DEF IInv
<1> QED BY <1>1, <1>2, PTL DEF Spec

INSTANCE FiniteSetTheorems

\* The descriptors filled are as many as the ring says.
LEMMA FilledCount ==
    ASSUME RxType, PlaceInv, NEW n \in 0..RxNum, RingInv(n)
    PROVE  Cardinality(Filled) = n
<1> DEFINE f == [k \in 1..n |-> RxOn(Oldest, k - 1)]
<1>1. RxNum \in Nat \ {0} /\ n \in Nat /\ Oldest \in RxDescs
  BY EthernetAssumption, OldestInRing
<1>2. ASSUME NEW k \in 1..n PROVE k - 1 \in 0..(RxNum - 1) /\ ~(k - 1 >= n)
  BY <1>1
<1>3. f \in [1..n -> Filled]
  <2> SUFFICES ASSUME NEW k \in 1..n PROVE RxOn(Oldest, k - 1) \in Filled
    OBVIOUS
  <2>1. RxOn(Oldest, k - 1) \in RxDescs
    BY <1>1, <1>2, RxRing
  <2>2. ~rxd[RxOn(Oldest, k - 1)].own
    BY <1>2, Zenon DEF RingInv, RingAt
  <2> QED BY <2>1, <2>2 DEF Filled
<1>4. ASSUME NEW j \in 1..n, NEW k \in 1..n, f[j] = f[k] PROVE j = k
  <2>1. j - 1 = k - 1
    BY <1>1, <1>2, <1>4, RxRing, Zenon
  <2> QED BY <1>1, <2>1
<1>5. ASSUME NEW d \in Filled PROVE \E k \in 1..n : f[k] = d
  <2>1. d \in RxDescs /\ ~rxd[d].own
    BY DEF Filled
  <2>2. PICK k \in 0..(RxNum - 1) : d = RxOn(Oldest, k)
    BY <1>1, <2>1, RxRing
  <2>3. ~(k >= n)
    BY <2>1, <2>2, Zenon DEF RingInv, RingAt
  <2>4. k + 1 \in 1..n /\ k + 1 - 1 = k
    BY <1>1, <2>3
  <2> QED BY <2>2, <2>4
<1>6. f \in Bijection(1..n, Filled)
  BY <1>3, <1>4, <1>5, Zenon DEF Bijection, Injection, Surjection, IsInjective
<1>7. ExistsBijection(1..n, Filled)
  BY <1>6 DEF ExistsBijection
<1> QED BY <1>1, <1>7, FS_CountingElements

\* What rt_stm32_eth_rx copies into a pbuf is the oldest frame in the ring and all of it.
THEOREM TakesWholeFrames == Spec => []TakenWhole
<1>1. IInv => TakenWhole
  <2> SUFFICES ASSUME IInv PROVE TakenWhole
    OBVIOUS
  <2>1. TypeOK /\ RxType /\ PlaceInv
    BY Types DEF IInv, RecvInv
  <2>2. CASE rp = "alloc"
    <3>1. PICK n \in 0..RxNum : RingInv(n)
      BY DEF IInv, RecvInv
    <3>2. Oldest = rx.fs /\ Met = rx.segs /\ rx.segs > 0 /\ rx.fs \in RxDescs
      BY <2>1, <2>2 DEF Oldest, Met, PlaceInv, RxType
    <3>3. /\ RingAt(rx.fs, n) /\ FramesAt(rx.fs, n) /\ rx.segs \in 0..n /\ WholeAt(rx.fs, rx.segs)
          /\ (n > 0 => rxd[RxOn(rx.fs, 0)].first)
      BY <2>2, <3>1, <3>2 DEF RingInv, MetAt
    <3>4. n \in Nat /\ RxNum \in Nat \ {0} /\ n > 0 /\ n <= RxNum /\ rx.segs \in 1..RxNum
      BY <3>2, <3>3, EthernetAssumption
    <3>5. RxOn(rx.fs, Cardinality(Filled)) = rdma.at
      BY <2>1, <3>1, <3>3, FilledCount, Zenon DEF RingAt
    <3>6. ASSUME NEW k \in 0..(rx.segs - 1)
          PROVE  LET d == rxd[RxOn(rx.fs, k)]
                 IN ~d.own /\ d.first = (k = 0) /\ d.last = (k = rx.segs - 1)
      <4> DEFINE d == rxd[RxOn(rx.fs, k)]
      <4>1. k \in 0..(RxNum - 1) /\ ~(k >= n)
        BY <3>3, <3>4
      <4>2. ~d.own
        BY <3>3, <4>1, Zenon DEF RingAt
      <4>3. d.last <=> k = rx.segs - 1
        BY <3>3 DEF WholeAt
      <4>4. d.first <=> k = 0
        <5>1. CASE k = 0
          BY <3>3, <3>4, <5>1
        <5>2. CASE k # 0
          <6>1. k \in 1..(n - 1) /\ k - 1 \in 0..(rx.segs - 1) /\ k - 1 # rx.segs - 1
            BY <3>3, <3>4, <5>2
          <6>2. ~rxd[RxOn(rx.fs, k - 1)].last
            BY <3>3, <6>1 DEF WholeAt
          <6> QED BY <3>3, <5>2, <6>1, <6>2, Zenon DEF FramesAt
        <5> QED BY <5>1, <5>2
      <4>5. d.first \in BOOLEAN /\ d.last \in BOOLEAN
        <5>1. RxOn(rx.fs, k) \in RxDescs
          BY <3>2, <4>1, RxRing
        <5> QED BY <2>1, <5>1 DEF RxType
      <4> HIDE DEF d
      <4>6. d.first = (k = 0) /\ d.last = (k = rx.segs - 1)
        BY <4>3, <4>4, <4>5
      <4> QED BY <4>2, <4>6 DEF d
    <3> QED BY <2>1, <3>4, <3>5, <3>6, Zenon DEF TakenWhole
  <2>3. CASE rp # "alloc"
    BY <2>1, <2>3, Zenon DEF TakenWhole
  <2> QED BY <2>2, <2>3
<1> QED BY <1>1, Inductive, PTL

\* The receive thread never sleeps on a frame it could have taken, nor on a stopped DMA,
\* unless its last look failed.
THEOREM ForgetsNoFrame == Spec => []NoFrameForgotten
<1>1. IInv => NoFrameForgotten
  <2> SUFFICES ASSUME IInv, Sleeping, ~missed PROVE ~FrameLeft /\ ~rbus
    BY DEF NoFrameForgotten
  <2>1. RxType /\ PlaceInv /\ WakeInv /\ rp = "wait" /\ mails = 0 /\ ~rint
    BY DEF IInv, RecvInv, Sleeping
  <2>2. ~FrameLeft
    BY <2>1 DEF WakeInv
  <2>3. PICK n \in 0..RxNum : RingInv(n)
    BY DEF IInv, RecvInv
  <2>4. ~rbus
    BY <2>1, <2>2, <2>3, StoppedHasFrame
  <2> QED BY <2>2, <2>4
<1> QED BY <1>1, Inductive, PTL

\* The transmit DMA sends what it was given, in the order it was given it.
THEOREM SendsWhatWasGiven == Spec => []SentAsGiven
<1>1. IInv => SentAsGiven
  BY DEF IInv, SendInv
<1> QED BY <1>1, Inductive, PTL

\* Nobody on the way of a frame out waits for what is not to come.
THEOREM NothingStopsSending == Spec => []SendingGoesOn
<1> DEFINE S == {b \in {"mail", "thread", "ack"} : \/ b = "mail" /\ txmail
                                                   \/ b = "thread" /\ tp # "wait"
                                                   \/ b = "ack" /\ ack > 0}
<1>1. IInv => SendingGoesOn
  <2> SUFFICES ASSUME IInv PROVE SendingGoesOn
    OBVIOUS
  <2>1. TxType /\ TokenInv /\ HoldInv
    BY DEF IInv, SendInv, SharedInv
  <2>2. sp = "wait" => S = {"mail"} \/ S = {"thread"} \/ S = {"ack"}
    BY <2>1 DEF TokenInv
  <2>3. sp # "wait" => S = {}
    BY <2>1 DEF TokenInv
  <2>4. Cardinality({"mail"}) = 1 /\ Cardinality({"thread"}) = 1 /\ Cardinality({"ack"}) = 1
        /\ Cardinality({}) = 0
    BY FS_Singleton, FS_EmptySet, Zenon
  <2>5. Cardinality(S) = IF sp = "wait" THEN 1 ELSE 0
    <3> HIDE DEF S
    <3> QED BY <2>2, <2>3, <2>4
  <2> QED BY <2>1, <2>5 DEF SendingGoesOn, HoldInv
<1> QED BY <1>1, Inductive, PTL

\* When the receive thread sleeps, the netif has the link phy_linkchange saw last.
THEOREM TakesLinkOver == Spec => []LinkTakenOver
<1>1. IInv => LinkTakenOver
  <2> SUFFICES ASSUME IInv, rp = "wait", mails = 0 PROVE ~link.changed /\ up = speed
    BY DEF LinkTakenOver
  <2> QED BY DEF IInv, LinkingInv, LinkInv
<1> QED BY <1>1, Inductive, PTL

=============================================================================
