SPECIFICATION Spec
CONSTANTS
    Rank <- MCRank
    Sender <- MCSender
    BufSize = 6
    BlockSizes <- MCBlockSizes
    NumIter = 1
    SkipIter = 1
    PageSize = 2
    FileSizes <- MCFileSizes
    Depths <- MCDepths
    MaxOverrun = 1
INVARIANT
    IovcntWithinNiov
