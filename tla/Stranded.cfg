SPECIFICATION Spec
CONSTANTS
    Threads <- TwoThreads
    Main = "main"
    Names = {a, b}
    MaxHandles = 3
    MaxInits = 2
INVARIANT AllNotified
CHECK_DEADLOCK FALSE
