SPECIFICATION FairBridgeSpec
CONSTANTS
    sos = sos
    text = text
    beat = beat
    Reports = {sos, text}
    Beats = {beat}
    Refused = {beat}
    RetryMax = 2
    MaxCrashes = 2
    MaxLost = 2
INVARIANTS
    BridgeTypeOK
    HeardIsAccountedFor
    StoredAgainForACause
PROPERTIES
    KeepsReports
    Drains
CHECK_DEADLOCK FALSE
