SPECIFICATION FairSpec
CONSTANTS
    p = 4
    Sources <- AllSources
    Rsync_Status = 1
    Checksum_Status = 1
INVARIANT ProcessedOnce
INVARIANT DoneIsComplete
INVARIANT FlatIdenticalIsCopied
PROPERTY Finishes
CHECK_DEADLOCK FALSE
