SPECIFICATION FairSpark
CONSTANTS
    NumProc = 2
    Hosts = {1, 2}
    Retries = 2
    MaxLost = 2
    MayRaise = TRUE
    MayDie = TRUE
INVARIANT SparkInv
INVARIANT ResultsInRankOrder
PROPERTY RunEnds
CHECK_DEADLOCK FALSE
