\* A restore and a person with one conversation, two panes, and another
\* conversation the user may run; a server that is replaced once.
SPECIFICATION FairSpec
CONSTANTS
    c1 = c1
    c2 = c2
    chat = chat
    other = other
    Nothing = Nothing
    Callers <- TwoCallers
    Panes <- TwoPanes
    Conversations <- Both
    Asked <- One
    Kinds <- Codex
    KindOf <- AllCodex
    NamesItself <- NoKind
    KeepsOpen <- Codex
    MaxServers = 2
CHECK_DEADLOCK FALSE
INVARIANTS
    TypedWhereVerified
    ReportedIsRunning
    OneClient
PROPERTIES
    LockComesFree
