CONSTANTS
    d1 = d1
    d2 = d2
    f1 = f1
    f2 = f2
    None = None
    Daemon <- MCDaemon
    File <- MCFile
    MaxFaults = 0
    MaxEpoch = 14
    MaxCalls = 3
    MaxEvents = 3
SPECIFICATION Spec
INVARIANT ArrivedAsNamed
