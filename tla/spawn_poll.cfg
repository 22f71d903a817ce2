SPECIFICATION FairSpec
CONSTANTS
    Node <- MCNode
    Parent <- MCParent
    Signer <- MCNode
    Mortal = {"child"}
    Verb = {}
    MaxEpoch = 5
    MaxCrashes = 1
    MaxCalls = 0
    DiskFaults = TRUE
    TmuxFaults = TRUE
INVARIANTS
    TypeOK
    ActorCanSignOff
PROPERTIES
    SweepReapsTheUnseen
    DoneIsBottomUp
    StepsAreLedgerSteps
    RequestAnswered
