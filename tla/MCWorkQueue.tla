---------------------------- MODULE MCWorkQueue ----------------------------
(* Three clients and two works: two clients can wait for the work in        *)
(* execution while the third submits, and one work waits behind the other.  *)
EXTENDS WorkQueue
=============================================================================
