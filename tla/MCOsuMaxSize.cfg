SPECIFICATION FairSpec
CONSTANTS
    Rank <- MCRank
    Sender <- MCSender
    Argvs <- MCSmallMax
    MaxMessageSize = 8
    LatLoopSmall = 3
    LatSkipSmall = 1
    LatLoopLarge = 2
    LatSkipLarge = 0
    MinThreads = 1
    MaxThreads = 2
    MaxNumElems = 4
    LargeElems = 2
    Extent = 2
    IntMax = 15
INVARIANT RespectsMax
