------------------------------ MODULE MCMutex ------------------------------
(* Three threads of three priorities. *)
EXTENDS Mutex, TLC

CONSTANTS t1, t2, t3

MCThreads == {t1, t2, t3}
MCPrio == (t1 :> 3) @@ (t2 :> 2) @@ (t3 :> 1)
=============================================================================
