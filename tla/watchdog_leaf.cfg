SPECIFICATION FairSpec
CONSTANTS
    Node <- MCNode
    Parent <- MCParent
    Grace = 2
    Signer = {"leaf"}
    Operated = {"leaf"}
    Mortal = {"leaf"}
    Verb = {"answer", "pause"}
    MaxSignals = 1
    MaxAttaches = 1
    MaxCalls = 1
    MaxCrashes = 1
INVARIANTS
    TypeOK
PROPERTIES
    
    LineIsRead
    ImplementsMailbox
    SilentLeafEnds
