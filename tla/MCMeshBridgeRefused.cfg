SPECIFICATION BridgeSpec
CONSTANTS
    sos = sos
    text = text
    beat = beat
    Reports = {sos, text}
    Beats = {beat}
    Refused = {beat}
    RetryMax = 2
    MaxCrashes = 1
    MaxLost = 1
INVARIANT RefusedIsNotRetried
CHECK_DEADLOCK FALSE
