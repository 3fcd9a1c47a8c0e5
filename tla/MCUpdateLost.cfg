SPECIFICATION FairSpec
CONSTANTS
    Packs = 1
    PackLen = 2
    PerPage = 2
    PackRetry = 3
    MaxDrops = 1
    MaxRefused = 3
    None = None
PROPERTY LostConnectionEnds
CHECK_DEADLOCK FALSE
