SPECIFICATION FairSpec
CONSTANTS
    Rank <- MCRank
    Sender <- MCSender
    BufSize = 6
    BlockSizes <- MCBlockSizes
    NumIter = 2
    SkipIter = 1
    PageSize = 3
    CacheModes <- MCCacheModes
CHECK_DEADLOCK FALSE
INVARIANTS
    TypeOK
    CopiesAttached
    NoReadAfterFree
    AllDetached
PROPERTIES
    TerminationIfAttached
    ImplementsTransfer
