CONSTANTS
    Clients = {viewer}
    Publishers = {}
    Streams = {1, 2}
    NoOne = NoOne
    IdBound = 2
    Sub = 1
    Ai = 2
    AiEnabled = TRUE
    SubAtBoot = FALSE
    AiAtBoot = FALSE
    FaultBound = 0
SPECIFICATION Spec
PROPERTY AbandonedSubStops
CHECK_DEADLOCK FALSE
