SPECIFICATION Spec
CONSTANTS
    Session = {s1, s2}
    Planner = {s1}
    Stream = {w1}
    StreamStatus = {"active", "completed"}
    Grace = 2
    Target <- MCTarget
    Pointers <- MCPointers
    Watched = FALSE
    RunRecovery = FALSE
    MaxRound = 1
    MinActive = 1
    MaxActive = 1
    Killable = {"command"}
    MaxCrashes = 1
INVARIANTS
    TerminalReleased
    SurfacesAgree
    PlanIsCurrent
PROPERTIES
    LedgerMovesAhead
