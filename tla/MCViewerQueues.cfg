CONSTANTS
    Viewers = {v1, v2}
    Sizes = {1, 4}
    video_queue_limit = 3
    kVideoQueueFrames = 2
    kAudioQueueFrames = 1
    PeerBound = 2
    FrameBound = 3
SPECIFICATION Spec
SYMMETRY Symmetry
INVARIANTS
    TypeOK
    QueuedIsScheduled
    GapAwaitsKeyframe
PROPERTY
    WrittenInOrder
CHECK_DEADLOCK FALSE
