------------------------------ MODULE Ethernet ------------------------------
(***************************************************************************)
(* The Ethernet interface: the driver of test_eth.c (with the parts of the *)
(* HAL it brings along) and the receive and transmit threads that          *)
(* ethernetif.c of lwIP puts around it.                                    *)
(*                                                                         *)
(* Two rings of descriptors are shared with the DMA engine, which is       *)
(* external: a descriptor whose OWN bit is set belongs to the DMA, the     *)
(* others to the processor.  An arriving frame raises an interrupt whose   *)
(* handler posts a mail to the receive thread, which calls eth_rx until it *)
(* returns no frame.  A frame to send is mailed to the transmit thread,    *)
(* which fills and hands over descriptors and then acknowledges.  A timer  *)
(* polls the PHY and tells the receive thread of a changed link.           *)
(*                                                                         *)
(* Both threads have one priority, so a time slice can end anywhere; an    *)
(* interrupt runs before any thread does.  Every mail to the receive       *)
(* thread is the same device pointer: only their number matters.           *)
(***************************************************************************)
EXTENDS Naturals, Sequences, FiniteSets

CONSTANTS RxNum,      \* ETH_RXBUFNB
          TxNum,      \* ETH_TXBUFNB
          RxSegs,     \* segments an arriving frame may fill
          TxSegs,     \* segments a frame to send may fill
          MbSize,     \* RT_LWIP_ETHTHREAD_MBOX_SIZE
          Ids,        \* bound: frames to send are numbered modulo Ids
          PoolFails   \* whether pbuf_alloc may find the pool empty

ASSUME EthernetAssumption ==
    /\ {RxNum, TxNum, MbSize} \subseteq Nat \ {0}
    /\ RxSegs \subseteq 1..RxNum /\ TxSegs \subseteq 1..TxNum
    /\ Ids \in Nat /\ Ids > 1
    /\ PoolFails \in BOOLEAN

VARIABLES rxd,      \* the receive descriptors: OWN, FS and LS
          rdma,     \* the receive DMA: its descriptor, and the segments still to come
          rbus,     \* DMASR.RBUS: it found no descriptor of its own, and stopped
          rint,     \* DMASR.RS: a frame was received
          isr,      \* whether ETH_IRQHandler runs
          mails,    \* mails in eth_rx_thread_mb
          lock,     \* EthHandle.Lock
          rp,       \* where the receive thread is
          rx,       \* RxDesc, FSRxDesc, SegCount, the loop counter, and whether p is a frame
          missed,   \* history: whether eth_rx last returned NULL though it had not looked,
                    \* or had thrown a frame away
          speed,    \* phy_speed: the link, as phy_linkchange last saw it
          link,     \* link_changed, link_status, and the receive thread's status
          up,       \* whether the netif has its link up
          sp,       \* where the caller of ethernetif_linkoutput is
          frame,    \* the frame to send: its number and segments
          txmail,   \* whether eth_tx_thread_mb holds the message
          ack,      \* value of the semaphore tx_ack
          tp,       \* where the transmit thread is
          tx,       \* TxDesc, and the loop counter
          txd,      \* the transmit descriptors: OWN and the segment in the buffer
          tdma,     \* the descriptor of the transmit DMA
          tbus,     \* DMASR.TBUS: it found no descriptor of its own, and stopped
          handed    \* history: the segments handed to it and not sent yet

recvHw == <<rxd, rdma, rbus, rint>>
recv == <<rp, rx, missed>>
linkVars == <<speed, link, up>>
sendVars == <<sp, frame, txmail, ack, tp, tx, txd, tdma, tbus, handed>>
vars == <<recvHw, isr, mails, lock, recv, linkVars, sendVars>>

RxDescs == 0..(RxNum - 1)
TxDescs == 0..(TxNum - 1)
RxOn(d, k) == (d + k) % RxNum
TxOn(d, k) == (d + k) % TxNum

\* rt_mb_send to a mailbox of k mails: a full one refuses.
Post(k) == IF k < MbSize THEN k + 1 ELSE k

\* A receive descriptor given to the DMA, a transmit descriptor it is through with: what
\* their buffers hold is never read again.
DmaOwned == [own |-> TRUE, first |-> FALSE, last |-> FALSE]
CpuOwned == [own |-> FALSE, seg |-> <<0, 0>>]

\* HAL_ETH_DMARxDescListInit, HAL_ETH_DMATxDescListInit and HAL_ETH_Start: the link
\* is down and was never seen up.
Init ==
    /\ rxd = [d \in RxDescs |-> DmaOwned]
    /\ rdma = [at |-> 0, left |-> 0]
    /\ rbus = FALSE /\ rint = FALSE /\ isr = FALSE /\ mails = 0 /\ lock = FALSE
    /\ rp = "wait" /\ rx = [desc |-> 0, fs |-> 0, segs |-> 0, i |-> 0, p |-> FALSE]
    /\ missed = FALSE /\ speed = FALSE /\ up = FALSE
    /\ link = [changed |-> FALSE, status |-> FALSE, local |-> FALSE]
    /\ sp = "idle" /\ frame = [id |-> 0, segs |-> 1] /\ txmail = FALSE /\ ack = 0
    /\ tp = "wait" /\ tx = [desc |-> 0, i |-> 0]
    /\ txd = [d \in TxDescs |-> CpuOwned]
    /\ tdma = 0 /\ tbus = FALSE /\ handed = <<>>

-----------------------------------------------------------------------------
(* The DMA engine.                                                         *)

\* The first segment of a frame, or the next of the one that is arriving: into the
\* DMA's descriptor, if it owns it.  If not, reception stops with RBUS set, and a
\* frame that has not begun is lost.
Store(n) ==
    /\ ~rbus
    /\ LET fresh == rdma.left = 0
           left  == (IF fresh THEN n ELSE rdma.left) - 1
       IN IF rxd[rdma.at].own
            THEN /\ rxd' = [rxd EXCEPT ![rdma.at] = [own |-> FALSE, first |-> fresh, last |-> left = 0]]
                 /\ rdma' = [at |-> RxOn(rdma.at, 1), left |-> left]
                 /\ rint' = (rint \/ left = 0)
                 /\ UNCHANGED rbus
            ELSE /\ rbus' = TRUE
                 /\ UNCHANGED <<rxd, rdma, rint>>
    /\ UNCHANGED <<isr, mails, lock, recv, linkVars, sendVars>>

\* The transmit DMA sends the segment of its descriptor, or stops with TBUS set.
Send ==
    /\ ~tbus
    /\ IF txd[tdma].own
         THEN /\ txd' = [txd EXCEPT ![tdma] = CpuOwned]
              /\ tdma' = TxOn(tdma, 1)
              /\ handed' = Tail(handed)
              /\ UNCHANGED tbus
         ELSE /\ tbus' = TRUE
              /\ UNCHANGED <<txd, tdma, handed>>
    /\ UNCHANGED <<recvHw, isr, mails, lock, recv, linkVars, sp, frame, txmail, ack, tp, tx>>

-----------------------------------------------------------------------------
(* Interrupts.                                                             *)

\* HAL_ETH_IRQHandler up to the end of HAL_ETH_RxCpltCallback: eth_device_ready posts
\* a mail, which is refused when the mailbox is full.
Irq ==
    /\ rint /\ ~isr
    /\ isr' = TRUE
    /\ mails' = Post(mails)
    /\ UNCHANGED <<recvHw, lock, recv, linkVars, sendVars>>

\* Its rest: the flag is cleared, also for a frame that arrived since the mail was
\* posted, and so is the lock, whoever holds it.
IrqEnd ==
    /\ isr
    /\ isr' = FALSE
    /\ rint' = FALSE
    /\ lock' = FALSE
    /\ UNCHANGED <<rxd, rdma, rbus, mails, recv, linkVars, sendVars>>

\* Mutant: the flag is set only if the mail was accepted.
PhyLinkchange_IfMailed ==
    /\ ~isr
    /\ speed' = ~speed
    /\ link' = IF mails < MbSize THEN [link EXCEPT !.changed = TRUE, !.status = ~speed] ELSE link
    /\ mails' = Post(mails)
    /\ UNCHANGED <<recvHw, isr, lock, recv, up, sendVars>>

\* phy_linkchange, called by the hard timer "phylnk", finds that the PHY's link has
\* changed, and calls eth_device_linkchange.
PhyLinkchange ==
    /\ ~isr
    /\ speed' = ~speed
    /\ link' = [link EXCEPT !.changed = TRUE, !.status = ~speed]
    /\ mails' = Post(mails)
    /\ UNCHANGED <<recvHw, isr, lock, recv, up, sendVars>>

-----------------------------------------------------------------------------
(* The receive thread: eth_rx_thread_entry and rt_stm32_eth_rx.            *)

RxAt(from, to) == ~isr /\ rp = from /\ rp' = to

\* rt_mb_recv.
RxRecv ==
    /\ mails > 0
    /\ RxAt("wait", "check")
    /\ mails' = mails - 1
    /\ missed' = FALSE
    /\ UNCHANGED <<recvHw, isr, lock, rx, linkVars, sendVars>>

RxCheck ==
    /\ RxAt("check", IF link.changed THEN "take" ELSE "test")
    /\ UNCHANGED <<recvHw, isr, mails, lock, rx, missed, linkVars, sendVars>>

\* The section with interrupts disabled.
RxTake ==
    /\ RxAt("take", "set")
    /\ link' = [link EXCEPT !.changed = FALSE, !.local = link.status]
    /\ UNCHANGED <<recvHw, isr, mails, lock, rx, missed, speed, up, sendVars>>

\* netifapi_netif_set_link_up, netifapi_netif_set_link_down.
RxSetLink ==
    /\ RxAt("set", "test")
    /\ up' = link.local
    /\ link' = [link EXCEPT !.local = FALSE]
    /\ UNCHANGED <<recvHw, isr, mails, lock, rx, missed, speed, sendVars>>

\* HAL_ETH_GetReceivedFrame_IT, the first half of __HAL_LOCK: HAL_BUSY makes eth_rx
\* return NULL, which ends the loop.
RxTest ==
    /\ RxAt("test", IF lock THEN "wait" ELSE "lock")
    /\ missed' = (missed \/ lock)
    /\ UNCHANGED <<recvHw, isr, mails, lock, rx, linkVars, sendVars>>

\* The second half.
RxLock ==
    /\ RxAt("lock", "scan")
    /\ lock' = TRUE
    /\ rx' = [rx EXCEPT !.i = 0]
    /\ UNCHANGED <<recvHw, isr, mails, missed, linkVars, sendVars>>

\* One turn of its loop over the descriptors: HAL_ERROR when there are no more, HAL_OK
\* after a last segment, and both unlock.
RxScan ==
    LET d    == rxd[rx.desc]
        none == d.own \/ rx.i = RxNum
        segs == IF d.first /\ ~d.last THEN 1 ELSE rx.segs + 1
    IN /\ RxAt("scan", IF none THEN "wait" ELSE IF d.last THEN "alloc" ELSE "scan")
       /\ rx' = IF none THEN [rx EXCEPT !.i = 0]
                ELSE [rx EXCEPT !.desc = RxOn(rx.desc, 1), !.segs = segs,
                                !.fs = IF segs = 1 THEN rx.desc ELSE @,
                                !.i = IF d.last THEN 0 ELSE @ + 1]
       /\ lock' = (lock /\ ~(none \/ d.last))
       /\ UNCHANGED <<recvHw, isr, mails, missed, linkVars, sendVars>>

\* pbuf_alloc fails: the frame is thrown away.
RxNoPbuf ==
    /\ PoolFails
    /\ RxAt("alloc", "release")
    /\ missed' = TRUE
    /\ UNCHANGED <<recvHw, isr, mails, lock, rx, linkVars, sendVars>>

\* It succeeds, and the segments are copied from their buffers.
RxCopy ==
    /\ RxAt("alloc", "release")
    /\ rx' = [rx EXCEPT !.p = TRUE]
    /\ UNCHANGED <<recvHw, isr, mails, lock, missed, linkVars, sendVars>>

\* One descriptor is given back to the DMA.
RxRelease ==
    /\ rx.i < rx.segs
    /\ RxAt("release", "release")
    /\ rxd' = [rxd EXCEPT ![RxOn(rx.fs, rx.i)] = DmaOwned]
    /\ rx' = [rx EXCEPT !.i = @ + 1]
    /\ UNCHANGED <<rdma, rbus, rint, isr, mails, lock, missed, linkVars, sendVars>>

\* Mutants: one frame is received per mail; the segment count is not reset.
RxDone_Once ==
    /\ rx.i = rx.segs
    /\ RxAt("release", "wait")
    /\ rx' = [rx EXCEPT !.segs = 0, !.fs = 0, !.i = 0, !.p = FALSE]
    /\ rbus' = FALSE
    /\ UNCHANGED <<rxd, rdma, rint, isr, mails, lock, missed, linkVars, sendVars>>

RxDone_KeepsCount ==
    /\ rx.i = rx.segs
    /\ RxAt("release", IF rx.p THEN "test" ELSE "wait")
    /\ rx' = [rx EXCEPT !.i = 0, !.p = FALSE]
    /\ rbus' = FALSE
    /\ UNCHANGED <<rxd, rdma, rint, isr, mails, lock, missed, linkVars, sendVars>>

\* After the last of them: reception is resumed if it had stopped, and a frame goes to
\* netif->input.  (FSRxDesc keeps its value in the code; it is set again before its next use.)
RxDone ==
    /\ rx.i = rx.segs
    /\ RxAt("release", IF rx.p THEN "test" ELSE "wait")
    /\ rx' = [rx EXCEPT !.segs = 0, !.fs = 0, !.i = 0, !.p = FALSE]
    /\ rbus' = FALSE
    /\ UNCHANGED <<rxd, rdma, rint, isr, mails, lock, missed, linkVars, sendVars>>

Receive == RxRecv \/ RxCheck \/ RxTake \/ RxSetLink \/ RxTest \/ RxLock \/ RxScan
             \/ RxNoPbuf \/ RxCopy \/ RxRelease \/ RxDone

-----------------------------------------------------------------------------
(* Sending: ethernetif_linkoutput, eth_tx_thread_entry, rt_stm32_eth_tx.   *)

\* The thread of lwIP mails its message and waits for the semaphore.
LinkOutput(n) ==
    /\ ~isr /\ sp = "idle"
    /\ sp' = "wait"
    /\ frame' = [id |-> (frame.id + 1) % Ids, segs |-> n]
    /\ txmail' = TRUE
    /\ UNCHANGED <<recvHw, isr, mails, lock, recv, linkVars, ack, tp, tx, txd, tdma, tbus, handed>>

LinkOutputReturn ==
    /\ ~isr /\ sp = "wait" /\ ack > 0
    /\ sp' = "idle"
    /\ ack' = ack - 1
    /\ UNCHANGED <<recvHw, isr, mails, lock, recv, linkVars, frame, txmail, tp, tx, txd, tdma, tbus, handed>>

TxAt(from, to) ==
    /\ ~isr /\ tp = from /\ tp' = to
    /\ UNCHANGED <<recvHw, isr, mails, recv, linkVars, sp, frame>>

TxRecv ==
    /\ txmail
    /\ TxAt("wait", "copy")
    /\ txmail' = FALSE
    /\ UNCHANGED <<lock, ack, tx, txd, tdma, tbus, handed>>

\* Mutant: OWN is tested for the first segment only.
TxCopy_FirstOnly ==
    LET d == TxOn(tx.desc, tx.i)
        refuse == txd[d].own /\ tx.i = 0
        more == tx.i + 1 < frame.segs
    IN /\ TxAt("copy", IF refuse THEN "ack" ELSE IF more THEN "copy" ELSE "spin")
       /\ txd' = IF refuse THEN txd ELSE [txd EXCEPT ![d].seg = <<frame.id, tx.i>>]
       /\ tx' = [tx EXCEPT !.i = IF ~refuse /\ more THEN @ + 1 ELSE 0]
       /\ UNCHANGED <<lock, txmail, ack, tdma, tbus, handed>>

\* The next segment is copied to its buffer, or the frame is given up (ERR_USE)
\* because the DMA owns the descriptor.
TxCopy ==
    LET d == TxOn(tx.desc, tx.i)
        more == tx.i + 1 < frame.segs
    IN /\ TxAt("copy", IF txd[d].own THEN "ack" ELSE IF more THEN "copy" ELSE "spin")
       /\ txd' = IF txd[d].own THEN txd ELSE [txd EXCEPT ![d].seg = <<frame.id, tx.i>>]
       /\ tx' = [tx EXCEPT !.i = IF ~txd[d].own /\ more THEN @ + 1 ELSE 0]
       /\ UNCHANGED <<lock, txmail, ack, tdma, tbus, handed>>

\* while (EthHandle.Lock == HAL_LOCKED);
TxSpin ==
    /\ ~lock
    /\ TxAt("spin", "test")
    /\ UNCHANGED <<lock, txmail, ack, tx, txd, tdma, tbus, handed>>

\* HAL_ETH_TransmitFrame, __HAL_LOCK: after HAL_BUSY the frame is lost, and ERR_OK is
\* returned all the same.
TxTest ==
    /\ TxAt("test", IF lock THEN "ack" ELSE "lock")
    /\ UNCHANGED <<lock, txmail, ack, tx, txd, tdma, tbus, handed>>

\* HAL_ERROR if the DMA owns the descriptor after all.
TxLock ==
    /\ TxAt("lock", IF txd[tx.desc].own THEN "ack" ELSE "give")
    /\ lock' = ~txd[tx.desc].own
    /\ UNCHANGED <<txmail, ack, tx, txd, tdma, tbus, handed>>

\* One descriptor is handed to the DMA.
TxGive ==
    /\ tx.i < frame.segs
    /\ TxAt("give", "give")
    /\ txd' = [txd EXCEPT ![tx.desc].own = TRUE]
    /\ tx' = [desc |-> TxOn(tx.desc, 1), i |-> tx.i + 1]
    /\ handed' = Append(handed, <<frame.id, tx.i>>)
    /\ UNCHANGED <<lock, txmail, ack, tdma, tbus>>

\* Mutant: a stopped transmission is not resumed.
TxDone_NotResumed ==
    /\ tx.i = frame.segs
    /\ TxAt("give", "ack")
    /\ tx' = [tx EXCEPT !.i = 0]
    /\ lock' = FALSE
    /\ UNCHANGED <<txmail, ack, txd, tdma, tbus, handed>>

\* After the last of them: transmission is resumed if it had stopped.
TxDone ==
    /\ tx.i = frame.segs
    /\ TxAt("give", "ack")
    /\ tx' = [tx EXCEPT !.i = 0]
    /\ tbus' = FALSE
    /\ lock' = FALSE
    /\ UNCHANGED <<txmail, ack, txd, tdma, handed>>

TxAck ==
    /\ TxAt("ack", "wait")
    /\ ack' = ack + 1
    /\ UNCHANGED <<lock, txmail, tx, txd, tdma, tbus, handed>>

Transmit == TxRecv \/ TxCopy \/ TxTest \/ TxLock \/ TxGive \/ TxDone \/ TxAck

-----------------------------------------------------------------------------
Next ==
    \/ \E n \in RxSegs : Store(n)
    \/ Send \/ Irq \/ IrqEnd \/ PhyLinkchange
    \/ Receive
    \/ \E n \in TxSegs : LinkOutput(n)
    \/ LinkOutputReturn \/ Transmit \/ TxSpin

Spec == Init /\ [][Next]_vars

-----------------------------------------------------------------------------
(* Properties.                                                             *)

\* Every variable has its type; the receive mailbox never holds more than its size, and
\* tx_ack never counts two acknowledgements for the one caller.
TypeOK ==
    /\ rxd \in [RxDescs -> [own : BOOLEAN, first : BOOLEAN, last : BOOLEAN]]
    /\ rdma \in [at : RxDescs, left : 0..RxNum]
    /\ {rbus, rint, isr, lock, missed, speed, up, txmail, tbus} \subseteq BOOLEAN
    /\ mails \in 0..MbSize
    /\ rp \in {"wait", "check", "take", "set", "test", "lock", "scan", "alloc", "release"}
    /\ rx \in [desc : RxDescs, fs : RxDescs, segs : 0..RxNum, i : 0..RxNum, p : BOOLEAN]
    /\ link \in [changed : BOOLEAN, status : BOOLEAN, local : BOOLEAN]
    /\ sp \in {"idle", "wait"} /\ ack \in 0..1
    /\ frame \in [id : 0..(Ids - 1), segs : TxSegs \cup {1}]
    /\ tp \in {"wait", "copy", "spin", "test", "lock", "give", "ack"}
    /\ tx \in [desc : TxDescs, i : 0..TxNum]
    /\ txd \in [TxDescs -> [own : BOOLEAN, seg : (0..(Ids - 1)) \X (0..TxNum)]]
    /\ tdma \in TxDescs
    /\ handed \in Seq((0..(Ids - 1)) \X (0..TxNum)) /\ Len(handed) <= TxNum

\* The buffers rt_stm32_eth_rx copies a pbuf from hold exactly one frame, and the oldest
\* in the ring: from the first descriptor the DMA has filled and not got back, its first
\* segment first, its last one last, and none of them the DMA's to write, although the
\* segments of one frame may be met in several calls of HAL_ETH_GetReceivedFrame_IT and
\* other frames arrive meanwhile.
Filled == {d \in RxDescs : ~rxd[d].own}
TakenWhole ==
    TypeOK /\ (rp = "alloc" =>
      /\ rx.segs \in 1..RxNum
      /\ RxOn(rx.fs, Cardinality(Filled)) = rdma.at
      /\ \A k \in 0..(rx.segs - 1) :
           LET d == rxd[RxOn(rx.fs, k)]
           IN ~d.own /\ d.first = (k = 0) /\ d.last = (k = rx.segs - 1))

\* When the receive thread sleeps on an empty mailbox and no interrupt is to come, then
\* no whole frame is left in the ring and reception has not stopped for want of a
\* descriptor, unless the last call of eth_rx could not look (the handle was locked) or
\* had no pbuf.  (Interrupts for several frames become one, the flag is cleared after
\* the mail was posted, and the mailbox may refuse mails.)
Sleeping == rp = "wait" /\ mails = 0 /\ ~rint /\ ~isr
FrameLeft == \E d \in RxDescs : ~rxd[d].own /\ rxd[d].last
NoFrameForgotten == Sleeping /\ ~missed => ~FrameLeft /\ ~rbus

\* The descriptors the transmit DMA owns hold, from its own one on, just the segments
\* handed over and not sent, in their order: no buffer is written again before the DMA
\* is through with it, also when a frame was given up half copied or lost to HAL_BUSY.
SentAsGiven ==
    \A k \in 0..(TxNum - 1) :
      LET d == txd[TxOn(tdma, k)]
      IN IF k < Len(handed) THEN d.own /\ d.seg = handed[k + 1] ELSE ~d.own

\* Nobody on the way of a frame out waits for what is not to come: the caller of
\* ethernetif_linkoutput has its message in the mailbox, or in the transmit thread's
\* hands, or its acknowledgement ready, exactly one of them; who spins on the lock spins
\* on one that a thread inside will release (the interrupt handler releases it too); and
\* the transmit DMA has stopped only in front of a descriptor that is not its own, or
\* will be resumed by the thread that handed it over.
SendingGoesOn ==
    /\ Cardinality({b \in {"mail", "thread", "ack"} :
                      \/ b = "mail" /\ txmail
                      \/ b = "thread" /\ tp # "wait"
                      \/ b = "ack" /\ ack > 0}) = (IF sp = "wait" THEN 1 ELSE 0)
    /\ lock => rp = "scan" \/ tp = "give"
    /\ tbus /\ txd[tdma].own => tp = "give"

\* When the receive thread sleeps on an empty mailbox, the netif has the link that
\* phy_linkchange saw last, though the mail that tells of a change may be refused and
\* the flag is read before interrupts are disabled.
LinkTakenOver == rp = "wait" /\ mails = 0 => ~link.changed /\ up = speed

\* eth_rx_thread_entry says of its loop "receive all of buffer": when it sleeps again,
\* nothing is left.  Not so if HAL_ETH_GetReceivedFrame_IT found the handle locked by
\* the transmit thread.
ReceivesAll == Sleeping => ~FrameLeft

=============================================================================
