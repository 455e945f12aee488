SPECIFICATION FairSpec
CONSTANTS
    Rank <- MCRank
    Sender <- MCSender
    BufSize = 4
    BlockSizes <- MCBlockSizes
    NumIter = 2
    SkipIter = 1
    PageSize = 2
    FileSizes <- MCFileSizes
INVARIANTS
    TypeOK
    NoOverlap
    FreshRounds
    FinMeansCopied
PROPERTIES
    TimedRounds
    Termination
    ImplementsTransfer
