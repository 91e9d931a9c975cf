SPECIFICATION FairLaunch
CONSTANTS
    NumProc = 3
    MaxConcurrent = 2
    OutputFiles = TRUE
    Interruptible = TRUE
    MayDie = TRUE
    Killable = {1}
    Raising = {0}
INVARIANT OutcomeIsTrue
PROPERTY LaunchReturns
PROPERTY InterruptStops
PROPERTY DeathIsSeen
CHECK_DEADLOCK FALSE
