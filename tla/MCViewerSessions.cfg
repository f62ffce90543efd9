CONSTANTS
    Viewers = {v1, v2}
    viewer_limit = 2
    PendingLimit = 1
    PeerBound = 3
    ReportBound = 2
SPECIFICATION FairSpec
INVARIANTS
    TypeOK
    SessionsAreFed
    AiFollowsConnected
    ConnectedByOwnPeer
    RunningPeersAreOwned
    UplinkStrandedOnlyByFailedOffer
    StoppedIsReleased
PROPERTY
    StopReturns
CHECK_DEADLOCK FALSE
