\* Two commands, two tmux servers, one call that is refused or health file lost;
\* and, apart from these, two spells of failing captures, which may end.
\* Without an engine, a server or a command left nothing happens any more.
SPECIFICATION Spec
CONSTANTS
    Events <- TwoEvents
    GiveUpAfter = 3
    MaxServers = 2
    MaxCommands = 2
    MaxSpells = 2
    MaxFaults = 1
ACTION_CONSTRAINT
    Apart
CHECK_DEADLOCK FALSE
INVARIANTS
    OneHookEach
    NoHookWithoutBinary
PROPERTIES
    NotUnderneath
    DecisionKept
    HooksComeBack
    FailureIsSeen
