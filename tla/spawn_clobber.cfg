SPECIFICATION Spec
CONSTANTS
    Node <- MCNode
    Parent <- MCParent
    Signer = {}
    Mortal = {}
    Verb = {"spawn_child"}
    MaxEpoch = 4
    MaxCrashes = 0
    MaxCalls = 1
    DiskFaults = FALSE
    TmuxFaults = FALSE
PROPERTIES
    RegistrationSparesLive
