\* The second capture after a session was carried.
SPECIFICATION Spec
CONSTANTS
    Names <- TwoNames
    Indexes <- TwoIndexes
    Looks <- OneLook
    Rests <- Directories
    Home = "home"
    Captured <- TwoSharers
    ShapeOf <- Alike
    MaxSnapshots = 3
    MaxServers = 1
    MaxWindows = 3
    MaxAttempts = 1
    MaxMoves = 2
CHECK_DEADLOCK FALSE
PROPERTY
    CarriedIsItself
