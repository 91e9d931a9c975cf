SPECIFICATION FairOptimizer
CONSTANTS
    Size = 2
    a = a
    b = b
    Params = {a, b}
    DType <- TwoTypes
    Uses = {{a}, {b}, {a, b}}
    Programs <- AllPrograms
    MaxSteps = 2
INVARIANT OptimizerInv
INVARIANT ReplicasAgree
INVARIANT EachPassCountsOnce
PROPERTY StepsReturn
CHECK_DEADLOCK FALSE
