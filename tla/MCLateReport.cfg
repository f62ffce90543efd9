CONSTANTS
    Viewers = {v1, v2}
    viewer_limit = 2
    PendingLimit = 1
    PeerBound = 2
    ReportBound = 2
SPECIFICATION FairSpec
PROPERTY
    OnlyOwnPeerEndsSession
CHECK_DEADLOCK FALSE
