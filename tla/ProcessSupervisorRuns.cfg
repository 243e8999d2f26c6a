CONSTANTS
    Limit <- MCLimit
    Capacity = 2
    ReadBuffer = 2
    MaxOutput = 3
    MayFork = TRUE
    OsFaults = TRUE
SPECIFICATION FairSpec
INVARIANTS
    TypeOK
    RetainedIsPrefix
    ReturnsReaped
    OkIsComplete
    TimeoutIsFinal
PROPERTY RunReturns
