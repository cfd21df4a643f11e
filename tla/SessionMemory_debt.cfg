\* Two boots' worth of captures and restores, kills anywhere, sessions that are
\* captured whole or in part, and a tmux server that may die where a restore
\* can still notice.
SPECIFICATION Spec
CONSTANTS
    alpha = alpha
    beta = beta
    whole = whole
    part = part
    None = None
    Sessions = {alpha, beta}
    Shapes = {whole, part}
    MaxSnaps = 3
    MaxBoots = 2
    MaxClock = 0
    Keep = 1
    PlacementAnswers = {"disabled"}
    DeathWindows = {"idle", "building"}
    MaxEdits = 2
SYMMETRY Symmetry
INVARIANTS
    DebtIsCached
    AlwaysRestorable
PROPERTY
    DischargeOnlyRecovered
