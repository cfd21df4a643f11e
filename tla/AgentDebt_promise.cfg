\* Two sessions, one bound; one tick is longer than the window.
SPECIFICATION Spec
CONSTANTS
    main = main
    side = side
    chat = chat
    other = other
    Nothing = Nothing
    Places <- TwoPlaces
    Conversations <- TwoConversations
    Bound <- OneBound
    CapturedAs <- Swapped
    Window = 0
    MaxPanes = 2
    MaxClock = 1
CONSTRAINT
    NothingMissed
INVARIANTS
    KeptUntilBack
PROPERTIES
    CarriedWherePromised
    RetiredIntoBindings
