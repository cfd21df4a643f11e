\* One install over an engine whose start is queued or under way.
SPECIFICATION Spec
CONSTANTS
    Events <- TwoEvents
    GiveUpAfter = 3
    MaxServers = 1
    MaxCommands = 1
    MaxSpells = 0
    MaxFaults = 0
CHECK_DEADLOCK FALSE
INVARIANT
    OneVersion
