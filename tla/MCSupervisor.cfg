SPECIFICATION SupSpec
CONSTANTS
    NumWorkers = 1
    f1 = f1
    f2 = f2
    Fingerprints <- MCFingerprints
    KeyIds = {"k1"}
    DiskStates <- MCDisk1
    Offered = {"plain", "k1"}
    MaxPid = 3
    MaxGeneration = 2
    MaxFaults = 1
    MaxUpsets = 1
    MaxInterrupts = 1
    None = None
INVARIANTS
    ExitedClosed
PROPERTIES
    Spec
    DriftCloses
    LaunchTerminates
CHECK_DEADLOCK FALSE
