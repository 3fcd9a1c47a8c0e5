----------------------------- MODULE MCMailbox -----------------------------
(* Three interchangeable threads, each of which sends and receives; two    *)
(* interchangeable messages.                                               *)
EXTENDS Mailbox, TLC

CONSTANTS t1, t2, t3, m1, m2

MCThreads == {t1, t2, t3}
MCPrio == [t \in MCThreads |-> 1]
MCMsgs == {m1, m2}
MCSymmetry == Permutations(MCThreads) \cup Permutations(MCMsgs)
=============================================================================
