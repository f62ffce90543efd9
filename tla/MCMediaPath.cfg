CONSTANTS
    Clients = {viewer, detections}
    Publishers = {capture}
    Streams = {1, 2}
    NoOne = NoOne
    IdBound = 2
    Sub = 1
    Ai = 2
    AiEnabled = TRUE
    SubAtBoot = FALSE
    AiAtBoot = TRUE
    FaultBound = 1
SPECIFICATION Spec
INVARIANTS
    PathTypeOK
    DemandMatchesSubscribers
    SubscribedSubEncodes
    SidesAgree
    StoppedIsQuiet
    LateCallsAreOld
PROPERTIES
    FullIdleTime
    StopReturns
    AiFollowsDemand
    AbandonedSubStopsUnlessVisitMissed
CHECK_DEADLOCK FALSE
