SPECIFICATION FairSpec
CONSTANTS
    Size = 2
    Requests <- Mixed
    Capacity = 1
    Threshold = 8
    StallCheck = TRUE
    StallShutdown = FALSE
    JoinRanks = {0, 1}
    JoinDescending = TRUE
    ShutdownRanks = {1}
    MaxSubmit = 2
INVARIANT SameOperation
PROPERTY SubmittedIsPerformed
PROPERTY ShutdownCompletes
PROPERTY JoinReturns
PROPERTY OthersContinue
