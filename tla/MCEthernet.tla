---------------------------- MODULE MCEthernet ----------------------------
(* Three receive and two transmit descriptors, mailboxes of one entry, two       *)
(* frames to send: a received frame fills one or two descriptors, one that is    *)
(* sent takes all.                                                               *)
EXTENDS Ethernet
=============================================================================
