\* Two sessions that share a window, one with another: a retry, a server
\* replaced, a capture after it.
SPECIFICATION Spec
CONSTANTS
    Names <- TwoNames
    Indexes <- TwoIndexes
    Looks <- OneLook
    Rests <- Directories
    Home = "home"
    Captured <- TwoSharers
    ShapeOf <- Alike
    MaxSnapshots = 2
    MaxServers = 2
    MaxWindows = 3
    MaxAttempts = 2
    MaxMoves = 2
CHECK_DEADLOCK FALSE
PROPERTIES
    LinkedIsItself
    MixedPairStaysOne
    PaidIsShared
    ReturnIsRecognised
    ReportedShare
