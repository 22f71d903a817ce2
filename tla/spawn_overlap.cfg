SPECIFICATION Spec
CONSTANTS
    Node <- MCNode
    Parent <- MCParent
    Signer = {"child"}
    Mortal = {"child"}
    Verb = {"spawn", "spawn_child", "service_outbox", "kill", "pause", "resume"}
    MaxEpoch = 5
    MaxCrashes = 0
    MaxCalls = 1
    DiskFaults = FALSE
    TmuxFaults = FALSE
INVARIANTS
    ClaimHasHolder
