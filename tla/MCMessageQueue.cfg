SPECIFICATION Spec
CONSTANTS
    t1 = t1
    t2 = t2
    t3 = t3
    Threads <- MCThreads
    Prio <- MCPrio
    Flag = "FIFO"
    m1 = m1
    m2 = m2
    Msgs <- MCMsgs
    Max = 2
    None = None
    Deletable = TRUE
SYMMETRY MCSymmetry
INVARIANTS SlotsPartitioned CopyUndisturbed NoneForgotten
PROPERTY IsQueue
CHECK_DEADLOCK FALSE
