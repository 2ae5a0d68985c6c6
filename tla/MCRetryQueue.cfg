SPECIFICATION Spec
CONSTANTS
    Entries = {e1, e2}
    MaxRetries = 3
    Passes = {p1, p2}
    MaxFailures = 1
PROPERTIES
    KeepsReports
SYMMETRY Symmetry
CHECK_DEADLOCK FALSE
