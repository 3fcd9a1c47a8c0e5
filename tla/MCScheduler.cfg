SPECIFICATION FairSpec
CONSTANTS
    a = a
    b = b
    h = h
    Idle = idle
    Threads = {a, b, h}
    Static = {h}
    Lowest = 2
    InitPrio <- MCInitPrio
    Adjusted = {a}
    Mortal = {b, h}
    Slice <- MCSlice
    MaxNest = 1
    DeletesTimed = FALSE
INVARIANTS QueuesExact NoMissedPreemption TimedIsSuspended
PROPERTY TurnComes
