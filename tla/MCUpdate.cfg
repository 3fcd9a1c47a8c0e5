SPECIFICATION FairSpec
CONSTANTS
    Packs = 3
    PackLen = 2
    PerPage = 2
    PackRetry = 3
    MaxDrops = 2
    MaxRefused = 1
    None = None
INVARIANTS CommitMeansComplete AckedIsKept InBuffer
PROPERTY UploadCommits
CHECK_DEADLOCK FALSE
