\* Two overlapping connections of one peer, which subscribes to itself through an
\* event channel that one notice fills, and Shutdown.
SPECIFICATION FairSpec
CONSTANTS
    subscriber = subscriber
    target = target
    s1 = s1
    Subscribing = {t1}
    PeerId = {subscriber, target}
    Conn = {t1, t2}
    IdOf <- MCIdOf
    Wants <- MCWants
    Capacity = 1
    May = {"overlap", "unsubscribe", "shutdown"}
    None = None
INVARIANTS
    OneOpenConn
    ShutdownClosesAll
PROPERTIES
    BrokenConnLeaves
CHECK_DEADLOCK FALSE
