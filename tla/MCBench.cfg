SPECIFICATION FairSpec
CONSTANTS
    Rank <- MCRank
    Sender <- MCSender
    NumIter = 1
    SkipIter = 1
    BufSize = 4
    ArgLists <- MCArgLists
    Depths <- MCDepths
    PageSizes <- MCPageSizes
CHECK_DEADLOCK FALSE
INVARIANTS
    TypeOK
    ReadersHoldSender
    OwnLists
    CallsAgreeIfAttached
PROPERTIES
    MeasuredRounds
    TerminationIfAttached
    ImplementsTransfer
