CONSTANTS
    MaxGops = 2
    MaxBytes = 5
    MaxDurationMs = 3
    Sizes = {0, 1, 2, 6}
    PtsSteps = {1, 2}
    FrameBound = 7
SPECIFICATION Spec
INVARIANTS
    TypeOK
    BytesAccounted
    WithinBudget
PROPERTY NewestKept
CHECK_DEADLOCK FALSE
