SPECIFICATION Spec
CONSTANTS
    Size = 3
    Requests <- Reshaped
    Capacity = 1
    Threshold = 16
    StallCheck = TRUE
    StallShutdown = FALSE
    JoinRanks = {0, 1, 2}
    JoinDescending = FALSE
    ShutdownRanks = {}
    MaxSubmit = 2
INVARIANT CacheConsistent
INVARIANT RequestsConserved
INVARIANT TensorsPresent
INVARIANT CollectivesMeet
INVARIANT BuffersMatch
PROPERTY OnlyEarlyJoinsFail
CHECK_DEADLOCK FALSE
