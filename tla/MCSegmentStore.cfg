CONSTANTS
    MaxQueued = 2
    MaxRetries = 2
    Retain = 1
    SegmentSec = 1
    Durations = {1}
    MaxDay = 2
    MaxSegs = 2
    MaxFaults = 1
SPECIFICATION Spec
INVARIANTS
    StoreTypeOK
    SessionIndexIsExact
    MirroredUnlessMissed
PROPERTIES
    RetainedLeavesCloudOnlyByTornIndex
CHECK_DEADLOCK FALSE
