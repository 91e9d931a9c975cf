SPECIFICATION Spec
CONSTANTS
    Size = 2
    Requests <- Reshaped
    Capacity = 2
    Threshold = 8
    StallCheck = TRUE
    StallShutdown = TRUE
    JoinRanks = {}
    JoinDescending = FALSE
    ShutdownRanks = {0, 1}
    MaxSubmit = 4
INVARIANT WellFormed
INVARIANT Agreement
PROPERTY ImplementsCollective
