\* A subscriber and two successive connections of the peer it subscribes to.
SPECIFICATION Spec
CONSTANTS
    subscriber = subscriber
    target = target
    s1 = s1
    Subscribing = {s1}
    PeerId = {subscriber, target}
    Conn = {s1, t1, t2}
    IdOf <- MCIdOf
    Wants <- MCWants
    Capacity = 2
    May = {"shutdown"}
    None = None
SYMMETRY TargetConns
INVARIANTS
    NoticesNotLost
CHECK_DEADLOCK FALSE
