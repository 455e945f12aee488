SPECIFICATION Spec
CONSTANTS
    Rank <- MCRank
    Sender <- MCSender
    BufSize = 4
    BlockSizes <- OnePageBlockSizes
    NumIter = 2
    SkipIter = 1
    PageSize = 4
    CacheModes <- NoCacheOnly
CHECK_DEADLOCK FALSE
INVARIANT
    CopiesAttached
