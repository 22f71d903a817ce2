SPECIFICATION FairSpec
CONSTANTS
    Node = {n1}
    Caller = {c1}
    Slice = {plain, asked}
    InitSlice = plain
    Escalated = asked
    KeepSlice = KeepSlice
    Targets = {"claimed", "spawning", "failed"}
    CrashKinds = {"torn"}
    MaxSeq = 3
    MaxEpoch = 3
    MaxCrashes = 2
INVARIANTS
    IntentReplayable
    RestartIsIdentity
PROPERTIES
    EpochNeverRegresses
    NoClobber
    BootCompletes
    ImplementsAtomicLedger
CHECK_DEADLOCK FALSE
