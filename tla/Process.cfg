SPECIFICATION FairSpec
CONSTANTS
    Threads <- TwoThreads
    Main = "main"
    Names = {a, b}
    MaxHandles = 3
    MaxInits = 2
INVARIANT TypeOK
INVARIANT CallbackOnce
INVARIANT RequestPerEntry
PROPERTY ShutdownAnswers
PROPERTY MainReturns
CHECK_DEADLOCK FALSE
