\* One session to place, a terminal of the user's, reused addresses, two panels.
SPECIFICATION FairSpec
CONSTANTS
    work = work
    mail = mail
    Nothing = Nothing
    Sessions <- TwoSessions
    Held <- OneSession
    SpotOf <- Apart
    Workspaces <- TwoWorkspaces
    Monitors <- TwoMonitors
    Addresses <- TwoAddresses
    MaxTerminals = 2
    MaxAttempts = 1
    Depth = 2
CHECK_DEADLOCK FALSE
INVARIANTS
    NothingInvented
    ShownIsKept
PROPERTIES
    RetiredWithWindows
    RetiredOnceLanded
    PassEnds
