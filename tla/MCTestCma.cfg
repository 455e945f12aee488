SPECIFICATION FairSpec
CONSTANTS
    Rank <- MCRank
    Sender <- MCSender
    BufSize = 6
    Iter = 2
    Skip = 1
INVARIANTS
    TypeOK
    ReadsItsSize
    NoReadAfterFree
PROPERTIES
    TimedReads
    Termination
