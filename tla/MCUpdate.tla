----------------------------- MODULE MCUpdate ------------------------------
(* An image of three packets: one full page of two, and a last page that    *)
(* is half full.                                                           *)
EXTENDS Update
=============================================================================
