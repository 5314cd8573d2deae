SPECIFICATION Spec
CONSTANTS
    Runs = {1, 2}
    Clients <- MCClients
    Users <- MCUsers
    InitialStores <- MCStores
    MaxTries = 2
    MaxTroubles = 2
INVARIANTS UnmanagedKept UndisturbedSucceeds
PROPERTIES Converges Reconciles
