SPECIFICATION Spec
CONSTANTS
    Clients = {c1, c2}
    Main = Main
    MaxSignals = 2
PROPERTIES
    StopClosesAll
    SignalTerminates
CHECK_DEADLOCK FALSE
