------------------------------ MODULE MCConsole -----------------------------
(* A ring of four bytes, two byte values, and a counter that wraps after 3. *)
EXTENDS Console
=============================================================================
