CONSTANTS
    Viewers = {v1, v2}
    Sizes = {1, 4}
    video_queue_limit = 3
    kVideoQueueFrames = 2
    kAudioQueueFrames = 1
    PeerBound = 2
    FrameBound = 2
SPECIFICATION Spec
INVARIANT
    NoSendIntoFreedPeer
CHECK_DEADLOCK FALSE
