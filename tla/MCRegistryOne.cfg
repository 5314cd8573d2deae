SPECIFICATION Spec
CONSTANTS
    NumWorkers = 1
    f1 = f1
    f2 = f2
    Fingerprints <- MCFingerprints
    KeyIds = {"k1", "k2"}
    DiskStates <- MCDiskStates
    Offered <- MCOffered
    MaxPid = 3
    MaxGeneration = 2
    MaxFaults = 2
    None = None
INVARIANTS
    TypeOK
    GateCovered
    MalformedEnvironmentCloses
    StatusHonest
PROPERTIES
    ConfigurationLatched
CHECK_DEADLOCK FALSE
