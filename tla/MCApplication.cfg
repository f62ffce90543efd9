CONSTANTS
    MaxPendingFrames = 1
    MaxQueued = 2
    MaxRetries = 3
    FrameBound = 2
    RequestBound = 3
    MaxSignals = 1
SPECIFICATION AppSpec
INVARIANTS
    AppTypeOK
    NothingLeftAtExit
    StopIsBounded
PROPERTIES
    AcceptedFramesReachWriter
    ShutdownCompletesUnlessWakeupLost
CHECK_DEADLOCK FALSE
