SPECIFICATION FairSpec
CONSTANTS
    r1 = r1
    r2 = r2
    miatly = miatly
    sulak = sulak
    Nobody = Nobody
    Runs = {r1, r2}
    Stations = {miatly, sulak}
    NamedIn <- RiverName
    LockTTL = 2
    Timeout = 1
    MaxAlerts = 1
    MaxCrashes = 1
INVARIANTS
    RunnerHoldsLock
PROPERTIES
    WarningComesFirst
    DangerIsAnnounced
