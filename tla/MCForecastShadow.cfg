SPECIFICATION Spec
CONSTANTS
    r1 = r1
    r2 = r2
    miatly = miatly
    sulak = sulak
    Nobody = Nobody
    Runs = {r1}
    Stations = {miatly, sulak}
    NamedIn <- RiverName
    LockTTL = 2
    Timeout = 2
    MaxAlerts = 2
    MaxCrashes = 0
PROPERTY SkipsOnlyCovered
CHECK_DEADLOCK FALSE
