\* In units of 5 s: windows of 20 s and 10 s over an interval of 10 s, two attempts, one loss.
SPECIFICATION FairSpec
CONSTANTS
    Interval = 2
    Window = 6
    RWindow = 4
    Threshold = 2
    WriteTimeout = 1
    MaxDelay = 1
    MaxLost = 1
    May = {"silence", "close"}
INVARIANTS
    SenderNeverBlocks
    LiveConnIsKept
    SilenceIsNoticed
PROPERTIES
    SilentPathEnds
CHECK_DEADLOCK FALSE
