SPECIFICATION Spec
CONSTANTS
    Node <- MCNode
    Parent <- MCParent
    Grace = 1
    Signer = {"leaf"}
    Operated = {"root"}
    Mortal = {}
    Verb = {"answer"}
    MaxSignals = 1
    MaxAttaches = 1
    MaxCalls = 1
    MaxCrashes = 0
INVARIANTS
    AckedIsRead
    DoneIsTold
