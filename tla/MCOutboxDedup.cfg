SPECIFICATION Spec
CONSTANTS
    MaxEntries = 2
    Endpoint <- TwoHelpRequests
    MaxRetries = 2
    Passes = {p1}
    MaxClosings = 0
INVARIANTS
    SavedMeansSent
CHECK_DEADLOCK FALSE
