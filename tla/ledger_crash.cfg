SPECIFICATION Spec
CONSTANTS
    Node = {n1}
    Caller = {c1, c2}
    Slice = {plain}
    InitSlice = plain
    Escalated = plain
    KeepSlice = KeepSlice
    Targets = {"claimed", "failed"}
    CrashKinds = {"torn", "unterminated", "rename_lost"}
    MaxSeq = 3
    MaxEpoch = 2
    MaxCrashes = 1
SYMMETRY Symmetry
INVARIANTS
    TypeOK
    OnlyFinalLineTorn
    SeqStrictlyRises
    TokenMintedAtEpoch
CHECK_DEADLOCK FALSE
