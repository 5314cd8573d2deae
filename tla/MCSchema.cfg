SPECIFICATION Spec
CONSTANTS
    Runs = {"check", "sync"}
    Operation <- MCOperation
    Approved = {"sync"}
    Names = {1, 2, 3}
    Sources <- MCSources
    expected <- MCExpected
    PageSize = 1
    PageLimit = 1000
    MaxEdits = 2
    None = None
INVARIANTS PaginationSound ReportedWasTrue QuietCorrect
