\* Close, cancellation and the loss of the connection race; no OpenConn times out.
SPECIFICATION FairSpec
CONSTANTS
    PeerId = {p1}
    Caller = {c1}
    MaxGen = 1
    MaxCalls = 2
    MaxFlips = 1
    May = {"close", "cancel"}
    NoPeer = NoPeer
INVARIANTS
    InterestKept
PROPERTIES
    CloseCompletes
    DisconnectNotified
CHECK_DEADLOCK FALSE
