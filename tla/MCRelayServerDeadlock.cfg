\* An event channel that fills while its listener waits for notificationMutex.
SPECIFICATION Spec
CONSTANTS
    subscriber = subscriber
    target = target
    s1 = s1
    Subscribing = {s1}
    PeerId = {subscriber, target}
    Conn = {s1, t1, t2}
    IdOf <- MCIdOf
    Wants <- MCWants
    Capacity = 1
    May = {}
    None = None
INVARIANTS
    NoCircularWait
CHECK_DEADLOCK FALSE
