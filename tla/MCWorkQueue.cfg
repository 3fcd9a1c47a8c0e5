SPECIFICATION FairSpec
CONSTANTS
    Clients = {t1, t2, t3}
    Works = {w1, w2}
    None = None
INVARIANT NotReentered
PROPERTY CancelSyncReturns
CHECK_DEADLOCK FALSE
