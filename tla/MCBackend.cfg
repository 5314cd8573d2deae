SPECIFICATION BackendSpec
CONSTANTS
    Checkers <- MCCheckers
    Contents = {"old", "new"}
    None = None
    Backlog = 3
    MaxChanges = 3
    MaxStarts = 2
INVARIANTS
    ReadyIsCurrent
PROPERTIES
    CheckServed
CHECK_DEADLOCK FALSE
