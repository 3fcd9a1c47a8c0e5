SPECIFICATION Spec
CONSTANTS
    t1 = t1
    t2 = t2
    t3 = t3
    Threads <- MCThreads
    Prio <- MCPrio
    Flag = "FIFO"
    Bits = {1, 2}
    MaxSent = 1
    Deletable = TRUE
SYMMETRY ThreadSymmetry
INVARIANTS NoSatisfiedWaiter ClearedOnce ReportsWhatWasSent
CHECK_DEADLOCK FALSE
