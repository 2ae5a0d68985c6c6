SPECIFICATION FairSpec
CONSTANTS
    MaxEntries = 2
    Endpoint <- TwoHelpRequests
    MaxRetries = 2
    Passes = {p1, p2}
    MaxClosings = 1
PROPERTIES
    KeepsReports
    Drains
CHECK_DEADLOCK FALSE
