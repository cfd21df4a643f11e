\* Two sharers carried by two captures.
SPECIFICATION Spec
CONSTANTS
    Names <- Sessions
    Indexes <- TwoIndexes
    Looks <- OneLook
    Rests <- Directories
    Home = "home"
    Captured <- TwoSharers
    ShapeOf <- Alike
    MaxSnapshots = 3
    MaxServers = 1
    MaxWindows = 3
    MaxAttempts = 1
    MaxMoves = 3
CHECK_DEADLOCK FALSE
INVARIANT
    NeverRefused
