SPECIFICATION FairLaunch
CONSTANTS
    NumProc = 2
    MaxConcurrent = 2
    OutputFiles = FALSE
    Interruptible = FALSE
    MayDie = TRUE
    Killable = {}
    Raising = {}
PROPERTY AllDieWithLauncher
CHECK_DEADLOCK FALSE
