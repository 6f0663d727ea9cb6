\* Three peers, of whose early messages two have room, while connections open and close.
SPECIFICATION MsgFairSpec
CONSTANTS
    PeerId = {p1, p2, p3}
    Caller = {c1}
    Capacity = 2
    ChanSize = 1
    MaxMsgs = 3
    MaxOpens = 2
    MaxCloses = 1
    NoPeer = NoPeer
INVARIANTS
    OwnedOnce
PROPERTIES
    EarlyMsgLeaves
CHECK_DEADLOCK FALSE
