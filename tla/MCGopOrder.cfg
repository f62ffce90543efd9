CONSTANTS
    MaxGops = 2
    MaxBytes = 5
    MaxDurationMs = 0
    Sizes = {1, 6}
    PtsSteps = {1}
    FrameBound = 4
SPECIFICATION Spec
INVARIANT SnapshotFollowsLatestKey
CHECK_DEADLOCK FALSE
