SPECIFICATION FairSpec
CONSTANTS
    Session = {s1}
    Planner = {}
    Stream = {w1}
    StreamStatus = {"active", "blocked"}
    Grace = 2
    Target = {"blocked"}
    Pointers = {}
    Watched = TRUE
    RunRecovery = TRUE
    MaxRound = 1
    MinActive = 1
    MaxActive = 1
    Killable = {"watchdog"}
    MaxCrashes = 1
INVARIANTS
    TypeOK
PROPERTIES
    SilenceEscalates
    RenewalClears
