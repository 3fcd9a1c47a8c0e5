------------------------------- MODULE Update -------------------------------
(***************************************************************************)
(* The firmware update of update.c: tcp_update_thread_entry, which takes   *)
(* an image over TCP in packets, collects them into flash pages, and       *)
(* writes an information page that tells the boot loader to use them.      *)
(*                                                                         *)
(* The peer and TCP are external: a peer that sends a frame, waits for its *)
(* answer, and repeats it after a NAK; a byte stream in order, that may    *)
(* split, delay, or be lost.  Byte i of frame f is the pair <<f, i>>;      *)
(* frame 0 is SOH with the size of the image, frame Packs + 1 is EOT and   *)
(* those between are STX with one packet of data each.                     *)
(***************************************************************************)
EXTENDS Naturals, Sequences, SequencesExt

CONSTANTS Packs,      \* packets of the image
          PackLen,    \* MAX_DATA_SIZE
          PerPage,    \* packets in a flash page (4)
          PackRetry,  \* receives tried for one packet (20)
          MaxDrops,   \* bound: lost connections and power failures
          MaxRefused, \* bound: frames refused or given up
          None        \* the content of memory nothing was written to

ASSUME UpdateAssumption ==
    /\ {Packs, PackLen, PerPage, PackRetry} \subseteq Nat \ {0}
    /\ {MaxDrops, MaxRefused} \subseteq Nat

HeaderLen == 3   \* HEADER_LEN
SizeLen == 4     \* buf[4]

VARIABLES at,        \* where the thread is; "reset" is rt_hw_cpu_reset()
          hdr,       \* header_buf[0..index-1]
          idx,       \* data_index
          part,      \* offset of the blocking_lwip_recv in progress
          retry,     \* retry, as the body of its loop sees it
          packs,     \* pack_count
          page,      \* page_offset
          buf,       \* data_buf
          total,     \* total_size: "none", "sent" by the peer, "junk"
          flash,     \* the pages from UPDATE_DATA_ADDR on
          info,      \* the size in the page at UPDATE_INFO_ADDR, with MAGIC
          conn,      \* the connection: "none", "waiting" for accept, "up", "lost"
          wire,      \* bytes sent by the peer and not read yet
          replies,   \* answers not read by the peer yet
          frame,     \* the frame the peer sends next or awaits the answer of
          awaiting,  \* whether it awaits one
          drops,     \* history: how many connections were lost and power failures met
          refused    \* history: how many frames were answered with NAK, or given
                     \* up before they were complete

rx == <<hdr, idx, part, retry>>
device == <<at, rx, packs, page, buf, total>>
store == <<flash, info>>
peer == <<frame, awaiting>>
counts == <<drops, refused>>
vars == <<device, store, conn, wire, replies, peer, counts>>

Cells == 1..(PerPage * PackLen)
IsData(f) == f \in 1..Packs
Bytes(f) == HeaderLen + (IF f = 0 THEN SizeLen ELSE IF IsData(f) THEN PackLen ELSE 0)
Frame(f) == [i \in 1..Bytes(f) |-> <<f, i>>]
Byte == UNION {{<<f, i>> : i \in 1..Bytes(f)} : f \in 0..(Packs + 1)}

TypeOK ==
    /\ at \in {"accept", "header", "size", "pack", "flush", "info", "reset"}
    /\ hdr \in Seq(Byte) /\ Len(hdr) < HeaderLen
    /\ idx \in 0..PackLen \cup 0..SizeLen /\ part \in 0..PackLen
    /\ retry \in 0..PackRetry /\ packs \in 0..(PerPage - 1) /\ page \in Nat
    /\ buf \in [Cells -> Byte \cup {None}]
    /\ total \in {"none", "sent", "junk"} /\ info \in {"none", "sent", "junk"}
    /\ \A p \in DOMAIN flash : flash[p] \in [Cells -> Byte \cup {None}]
    /\ conn \in {"none", "waiting", "up", "lost"}
    /\ wire \in Seq(Byte) /\ replies \in Seq({"ACK", "NAK"})
    /\ frame \in 0..(Packs + 2) /\ awaiting \in BOOLEAN
    /\ drops \in 0..MaxDrops /\ refused \in 0..MaxRefused

Init ==
    /\ at = "accept" /\ hdr = <<>> /\ idx = 0 /\ part = 0 /\ retry = 0
    /\ packs = 0 /\ page = 0 /\ total = "none" /\ buf = [c \in Cells |-> None]
    /\ flash = <<>> /\ info = "none"
    /\ conn = "none" /\ wire = <<>> /\ replies = <<>> /\ frame = 0 /\ awaiting = FALSE
    /\ drops = 0 /\ refused = 0

\* exit: update_lock released, the connection closed, data_buf freed.
HangUp == conn = "lost" /\ at' = "accept" /\ conn' = "none" /\ replies' = <<>>

\* lwip_send of the answers r and back to the header loop; on a lost connection
\* the send may fail.
Answer(r) ==
    \/ /\ replies' = IF conn = "up" THEN replies \o r ELSE replies
       /\ at' = "header" /\ conn' = conn
    \/ HangUp

\* lwip_accept, rt_mutex_take, rt_malloc.
Accept ==
    /\ at = "accept" /\ conn = "waiting"
    /\ conn' = "up" /\ at' = "header" /\ hdr' = <<>>
    /\ buf' = [c \in Cells |-> None]
    /\ UNCHANGED <<idx, part, retry, packs, page, total, store, wire, replies, peer, counts>>

\* What a receive of at most len bytes may return while the stream has some.
Received(len) == 1..(IF Len(wire) < len THEN Len(wire) ELSE len)
Read(n) == wire' = SubSeq(wire, n + 1, Len(wire))

\* header_buf is a header: the check bytes belong together.
WellFormed(h) == \A i \in 1..HeaderLen : h[i] = <<h[1][1], i>>

\* The header loop.  The bytes of a header that arrives in one piece are taken,
\* any other is answered with NAK.  On a lost connection lwip_recv returns 0 or
\* an error for ever and the loop goes on: no step.
HeaderRecv ==
    /\ at = "header"
    /\ \E n \in Received(HeaderLen - Len(hdr)) :
         LET h == hdr \o SubSeq(wire, 1, n)
             f == h[1][1]
         IN  /\ Read(n)
             /\ \/ /\ Len(h) < HeaderLen
                   /\ hdr' = h
                   /\ UNCHANGED <<at, idx, part, retry, conn, replies, refused>>
                \/ /\ Len(h) = HeaderLen /\ ~ (n = HeaderLen /\ WellFormed(h))
                   /\ hdr' = <<>>
                   /\ refused < MaxRefused /\ refused' = refused + 1
                   /\ Answer(<<"NAK">>)
                   /\ UNCHANGED <<idx, part, retry>>
                \/ /\ n = HeaderLen /\ WellFormed(h)
                   /\ hdr' = <<>>
                   /\ at' = IF f = 0 THEN "size" ELSE IF IsData(f) THEN "pack"
                            ELSE IF packs # 0 THEN "flush" ELSE "info"
                   /\ idx' = 0 /\ part' = 0 /\ retry' = PackRetry - 1
                   /\ UNCHANGED <<conn, replies, refused>>
    /\ UNCHANGED <<packs, page, buf, total, store, peer, drops>>

\* Mutant: pack_count goes on from the image before.
StartImage_KeepsCount(size) == total' = size /\ page' = 0 /\ UNCHANGED packs

StartImage(size) == total' = size /\ packs' = 0 /\ page' = 0

\* Mutant: the page is taken to be one packet larger.
PageFull_Late == packs = PerPage

\* pack_count is incremented and compared with 4.
PageFull == packs + 1 = PerPage

\* flash_dev->write of data_buf, with what this step has received.
WritePage ==
    flash' = [p \in DOMAIN flash \cup {page} |-> IF p = page THEN buf' ELSE flash[p]]

\* SOH: the four bytes of the size, and the counters of a new image.
SizeRecv ==
    /\ at = "size"
    /\ \E n \in Received(SizeLen - idx) :
         /\ Read(n)
         /\ idx' = idx + n
         /\ \/ /\ idx' < SizeLen
               /\ UNCHANGED <<at, packs, page, total, conn, replies>>
            \/ /\ idx' = SizeLen
               /\ StartImage("sent")
               /\ Answer(<<"ACK">>)
    /\ UNCHANGED <<hdr, part, retry, buf, store, peer, counts>>

\* SOH, connection lost: all tries fail; the answers are sent all the same.
SizeLost ==
    /\ at = "size" /\ conn = "lost" /\ wire = <<>>
    /\ \/ StartImage("junk") /\ Answer(<<"ACK">>)
       \/ HangUp /\ UNCHANGED <<packs, page, total>>
    /\ UNCHANGED <<rx, buf, store, wire, peer, counts>>

\* pack_count is advanced; a full page is written.
StorePack ==
    IF PageFull
    THEN packs' = 0 /\ page' = page + 1 /\ WritePage
    ELSE packs' = packs + 1 /\ UNCHANGED <<page, flash>>

\* Mutant: a packet that completes a page is not answered.
EndPack_Silent(r) ==
    /\ StorePack
    /\ IF PageFull THEN at' = "header" /\ UNCHANGED <<conn, replies>> ELSE Answer(r \o <<"ACK">>)

\* STX, after the receive loop: the packet is stored and acknowledged.  r is the
\* NAK of a last try that got anything; its send may fail before that.
EndPack(r) ==
    \/ StorePack /\ Answer(r \o <<"ACK">>)
    \/ r # <<>> /\ HangUp /\ UNCHANGED <<packs, page, flash>>

\* blocking_lwip_recv returns ret > 0 or 0 (timeout) to its loop.
Returned(ret) ==
    /\ idx' = idx + ret /\ part' = 0
    /\ LET r == IF ret # 0 /\ retry = 0 THEN <<"NAK">> ELSE <<>>
       IN  \/ /\ idx' < PackLen /\ retry > 0
              /\ retry' = retry - 1
              /\ UNCHANGED <<at, packs, page, flash, conn, replies, refused>>
           \/ /\ idx' = PackLen \/ retry = 0
              /\ retry' = retry
              /\ \/ idx' = PackLen /\ r = <<>> /\ UNCHANGED refused
                 \/ /\ idx' < PackLen \/ r # <<>>
                    /\ refused < MaxRefused /\ refused' = refused + 1
              /\ EndPack(r)

\* blocking_lwip_recv gets n bytes into data_buf; it returns when none is missing.
PackRecv ==
    /\ at = "pack"
    /\ \E n \in Received(PackLen - idx - part) :
         LET from == packs * PackLen + idx + part
         IN  /\ Read(n)
             /\ buf' = [c \in Cells |->
                          IF c \in (from + 1)..(from + n) THEN wire[c - from] ELSE buf[c]]
             /\ \/ /\ idx + part + n < PackLen
                   /\ part' = part + n
                   /\ UNCHANGED <<at, idx, retry, packs, page, flash, conn, replies, refused>>
                \/ idx + part + n = PackLen /\ Returned(part + n)
    /\ UNCHANGED <<hdr, total, info, peer, drops>>

\* lwip_select finds nothing for 500 ms.
PackTimeout ==
    /\ at = "pack" /\ conn = "up"
    /\ buf' = buf
    /\ Returned(part)
    /\ UNCHANGED <<hdr, total, info, wire, peer, drops>>

\* STX, connection lost: every try returns -1, which is added to data_index; the
\* packet is stored and acknowledged unless a send fails.
PackLost ==
    /\ at = "pack" /\ conn = "lost" /\ wire = <<>>
    /\ refused < MaxRefused /\ refused' = refused + 1
    /\ buf' = buf
    /\ EndPack(<<"NAK">>)
    /\ UNCHANGED <<rx, total, info, wire, peer, drops>>

\* Mutant: the information page is written where the last page should be.
Flush_InfoFirst ==
    /\ at = "flush"
    /\ packs' = 0 /\ info' = total
    /\ at' = "info"
    /\ UNCHANGED <<rx, page, buf, total, flash, conn, wire, replies, peer, counts>>

\* EOT: the packets of the last, incomplete page are written ...
Flush ==
    /\ at = "flush"
    /\ buf' = buf
    /\ packs' = 0 /\ page' = page + 1 /\ WritePage
    /\ at' = "info"
    /\ UNCHANGED <<rx, total, info, conn, wire, replies, peer, counts>>

\* ... then the information page; the processor is reset whether or not the
\* answer could be sent.
WriteInfo ==
    /\ at = "info"
    /\ info' = total
    /\ at' = "reset"
    /\ replies' = IF conn = "up" THEN Append(replies, "ACK") ELSE replies
    /\ UNCHANGED <<rx, packs, page, buf, total, flash, conn, wire, peer, counts>>

Device == \/ Accept \/ HeaderRecv \/ SizeRecv \/ SizeLost
          \/ PackRecv \/ PackLost \/ Flush \/ WriteInfo

(***************************************************************************)
(* The peer and the network.                                               *)
(***************************************************************************)

Connect ==
    /\ conn = "none" /\ at # "reset"
    /\ conn' = "waiting" /\ wire' = <<>>
    /\ UNCHANGED <<device, store, replies, peer, counts>>

Send ==
    /\ conn = "up" /\ ~ awaiting /\ frame <= Packs + 1
    /\ wire' = wire \o Frame(frame)
    /\ awaiting' = TRUE
    /\ UNCHANGED <<device, store, conn, replies, frame, counts>>

\* ACK: the next frame; NAK: the same one again.
GetReply ==
    /\ conn = "up" /\ awaiting /\ replies # <<>>
    /\ frame' = IF Head(replies) = "ACK" THEN frame + 1 ELSE frame
    /\ awaiting' = FALSE
    /\ replies' = Tail(replies)
    /\ UNCHANGED <<device, store, conn, wire, counts>>

\* The connection is lost; some of what was sent still arrives.  The peer starts
\* again from the first frame on the next one.
Lose ==
    /\ conn = "up" /\ at # "reset" /\ drops < MaxDrops
    /\ drops' = drops + 1
    /\ conn' = "lost" /\ replies' = <<>>
    /\ \E n \in 0..Len(wire) : wire' = SubSeq(wire, 1, n)
    /\ frame' = 0 /\ awaiting' = FALSE
    /\ UNCHANGED <<device, store, refused>>

\* The power fails: memory is lost, flash is not.
PowerFail ==
    /\ at # "reset" /\ drops < MaxDrops
    /\ drops' = drops + 1
    /\ at' = "accept" /\ hdr' = <<>> /\ idx' = 0 /\ part' = 0 /\ retry' = 0
    /\ packs' = 0 /\ page' = 0 /\ total' = "none" /\ buf' = [c \in Cells |-> None]
    /\ conn' = "none" /\ wire' = <<>> /\ replies' = <<>> /\ frame' = 0 /\ awaiting' = FALSE
    /\ UNCHANGED <<store, refused>>

Next == Device \/ PackTimeout \/ Connect \/ Send \/ GetReply \/ Lose \/ PowerFail

Spec == Init /\ [][Next]_vars

\* The thread runs when it can, and the peer goes on with its upload.
FairSpec == Spec /\ WF_vars(Device) /\ WF_vars(Connect) /\ WF_vars(Send) /\ WF_vars(GetReply)

-----------------------------------------------------------------------------

\* Packet n is at its place of a page.
In(cells, n) == \A i \in 1..PackLen :
                   cells[((n - 1) % PerPage) * PackLen + i] = <<n, HeaderLen + i>>

\* The information page is written only over a complete image: the size the peer
\* sent, and every packet at its place in flash, after lost connections, power
\* failures and delays, as long as no frame was refused or given up.
CommitMeansComplete ==
    info # "none" /\ refused = 0 =>
        /\ info = "sent"
        /\ \A n \in 1..Packs : /\ (n - 1) \div PerPage \in DOMAIN flash
                               /\ In(flash[(n - 1) \div PerPage], n)

\* Every packet the peer has an ACK for is kept: in its page in flash, or in its
\* place in data_buf while the page is not full.
AckedIsKept ==
    conn = "up" /\ refused = 0 =>
        \A n \in 1..Packs : n < frame =>
            IF (n - 1) \div PerPage < page
            THEN In(flash[(n - 1) \div PerPage], n)
            ELSE (n - 1) \div PerPage = page /\ In(buf, n)

\* No receive writes outside data_buf, whatever was refused, given up or lost.
InBuffer == TypeOK /\ (at = "pack" => packs * PackLen + idx + part < PerPage * PackLen)

\* An upload without a lost connection, a power failure or a refused frame ends
\* with the information page written.
UploadCommits == <>(info # "none" \/ drops > 0 \/ refused > 0)

\* "select is ok and readlen == 0 means connection lost." (update.c:43): a lost
\* connection is noticed and given up, so that the peer can connect again.
LostConnectionEnds == conn = "lost" ~> conn # "lost"

=============================================================================
