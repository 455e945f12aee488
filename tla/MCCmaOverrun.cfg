SPECIFICATION Spec
CONSTANTS
    Rank <- MCRank
    Sender <- MCSender
    BufSize = 6
    BlockSizes <- MCBlockSizes
    NumIter = 1
    SkipIter = 1
    IovMax = 2
    SizeMax = 15
    GarbageLens <- MCGarbageLens
INVARIANT
    ElementsExist
