SPECIFICATION Spec
CONSTANTS
    Node <- MCNode
    Parent <- MCParent
    Grace = 2
    Signer = {}
    Operated = {}
    Mortal = {}
    Verb = {}
    MaxSignals = 0
    MaxAttaches = 0
    MaxCalls = 0
    MaxCrashes = 0
PROPERTIES
    TurnResetsLadder
