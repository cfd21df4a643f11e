\* Retention at its limit over two boots: compositors that answer or do not, a
\* clock that is set forwards and back, kills anywhere, and a tmux server that
\* dies after a restore's last check.
SPECIFICATION Spec
CONSTANTS
    alpha = alpha
    beta = beta
    whole = whole
    part = part
    None = None
    Sessions = {alpha, beta}
    Shapes = {whole}
    MaxSnaps = 3
    MaxBoots = 2
    MaxClock = 1
    Keep = 1
    PlacementAnswers = {"known", "unknown"}
    DeathWindows = {"after"}
    MaxEdits = 1
SYMMETRY Symmetry
INVARIANT
    TypeOK
PROPERTIES
    LatestSurvives
    LayoutSurvives
    RetireOnlyWhenHeld
