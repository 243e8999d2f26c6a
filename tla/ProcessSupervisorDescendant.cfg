CONSTANTS
    Limit <- MCLimit
    Capacity = 1
    ReadBuffer = 2
    MaxOutput = 1
    MayFork = TRUE
    OsFaults = FALSE
SPECIFICATION FairSpec
PROPERTY DeadlineBoundsRun
