CONSTANTS
    MaxPendingFrames = 2
    MaxQueued = 2
    MaxRetries = 2
    FrameBound = 1
    RequestBound = 1
SPECIFICATION Spec
PROPERTY StopReturns
CHECK_DEADLOCK FALSE
