CONSTANTS
    MaxLen = 3
    Thresholds = {2, 4}
    MaxBytes = 3
SPECIFICATION Spec
INVARIANTS NothingLost FitsTheBuffer NoOvertaking
CHECK_DEADLOCK FALSE
