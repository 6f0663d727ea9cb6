\* Two callers that may time out, a peer that comes or goes, the connection lost and made again.
SPECIFICATION Spec
CONSTANTS
    PeerId = {p1}
    Caller = {c1, c2}
    MaxGen = 2
    MaxCalls = 2
    MaxFlips = 1
    May = {"timeout"}
    NoPeer = NoPeer
SYMMETRY Callers
INVARIANTS
    OpenConnsAreRegistered
    WaitersAreServed
CHECK_DEADLOCK FALSE
