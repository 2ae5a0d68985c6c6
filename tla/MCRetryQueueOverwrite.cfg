SPECIFICATION Spec
CONSTANTS
    Entries = {e1, e2}
    MaxRetries = 2
    Passes = {p1}
    MaxFailures = 0
PROPERTIES
    KeepsEveryReport
SYMMETRY Symmetry
CHECK_DEADLOCK FALSE
