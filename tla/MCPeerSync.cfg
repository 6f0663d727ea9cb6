\* Three overlapping streams of one peer, which is deleted or whose login expires.
SPECIFICATION Spec
CONSTANTS
    Stream = {s1, s2, s3}
    SyncLim = 2
    MaxTime = 6
    None = None
INVARIANTS
    ConnectedHasOwner
    RegisteredIsActive
    ReplacedStreamNotices
    EndedLeavesNothing
PROPERTIES
    OnlyOwnerDisconnects
SYMMETRY Streams
CHECK_DEADLOCK FALSE
