------------------------------ MODULE MCEvent ------------------------------
(* Three equally urgent threads, which are interchangeable; two bits. *)
EXTENDS Event, TLC

CONSTANTS t1, t2, t3

MCThreads == {t1, t2, t3}
MCPrio == [t \in MCThreads |-> 1]
ThreadSymmetry == Permutations(MCThreads)
=============================================================================
