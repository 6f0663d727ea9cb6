\* Two streams of one peer race for its entry while a message is forwarded.
SPECIFICATION FairSpec
CONSTANTS
    p1 = p1
    p2 = p2
    PeerId = {p1, p2}
    Stream = {a, b}
    KeyOf <- SamePeer
    Time = {1, 2, 3}
    Msg = {m1}
    None = None
INVARIANTS
    NoOrphanStream
PROPERTIES
    NewestStreamWins
    CancelHitsItsTarget
    ImplementsService
    DeadStreamLeaves
CHECK_DEADLOCK FALSE
