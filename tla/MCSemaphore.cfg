SPECIFICATION FairSpec
CONSTANTS
    t1 = t1
    t2 = t2
    t3 = t3
    Threads <- MCThreads
    Prio <- MCPrio
    Flag = "PRIO"
    InitValue = 1
    ValueMax = 4
    MaxIssued = 4
    Deletable = TRUE
INVARIANTS NoLostWakeup TokensConserved
PROPERTIES UrgentFirst TimedTakeReturns
CHECK_DEADLOCK FALSE
