SPECIFICATION FairSpec
CONSTANTS
    p1 = p1
    p2 = p2
    u1 = u1
    j1 = j1
    j2 = j2
    None = None
    Peer = {p1, p2}
    User = {u1}
    Owner <- OneOwner
    Admin = {a1}
    Job = {j1, j2}
    Scopes <- SmallScopes
INVARIANTS
    ExpiredStreamIsClosed
    BlockedStreamIsClosed
    ListedJobRuns
PROPERTY
    OverdueIsExpired
CHECK_DEADLOCK FALSE
