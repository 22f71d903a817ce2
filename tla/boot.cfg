CONSTANTS
    d1 = d1
    d2 = d2
    f1 = f1
    f2 = f2
    None = None
    Daemon <- MCDaemon
    File <- MCFile
    MaxFaults = 3
    MaxEpoch = 14
    MaxCalls = 3
    MaxEvents = 3
SPECIFICATION Spec
INVARIANTS
    TypeOK
    DescriptorIsTheHolders
    ActorHoldsToken
    RootIsTold
    DeliveryVouches
PROPERTIES
    NoSilentBoot
    RootObeysTable
    RelaunchRecovers
