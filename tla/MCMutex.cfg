SPECIFICATION FairSpec
CONSTANTS
    t1 = t1
    t2 = t2
    t3 = t3
    None = None
    Threads <- MCThreads
    Mutexes = {"m1"}
    InitPrio <- MCPrio
    Flag = "PRIO"
    HoldMax = 3
    MaxDepth = 3
    Deletable = {"m1"}
INVARIANTS MutualExclusion HoldCounts ListsConsistent OwnerInherits PriorityRestored
PROPERTY TakeReturns
CHECK_DEADLOCK FALSE
