CONSTANTS
    Sockets = {p1, s1, s2}
    Readers = {p1}
    RoomNames = {r1}
    PageRoom = r1
    Ids = {i1, i2, g1}
    FreshIds = {g1}
    None = None
    MaxViewers = 2
    MaxPeers = 2
    MaxInbox = 2
SPECIFICATION PageSpec
SYMMETRY Symmetry
INVARIANTS
    PageTypeOK
    RoomsConsistent
    ViewsAgree
    PageMeetsCamera
    PageKeepsHold
CHECK_DEADLOCK FALSE
