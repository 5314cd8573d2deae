SPECIFICATION ReadySpec
CONSTANTS
    NumWorkers = 2
    f1 = f1
    f2 = f2
    Fingerprints <- MCFingerprints
    KeyIds = {"k1"}
    DiskStates <- MCDisk1
    Offered = {"plain", "evidence", "k1"}
    MaxPid = 4
    MaxGeneration = 1
    MaxFaults = 1
    MaxUpsets = 0
    MaxInterrupts = 0
    None = None
INVARIANTS
    RestartFailsClosed ServingWorkersAgree
CHECK_DEADLOCK FALSE
