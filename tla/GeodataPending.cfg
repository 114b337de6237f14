SPECIFICATION Spec
CONSTANTS
    Kinds = {geosite, geoip}
    MaxUpdates = 1
    MaxFaults = 0
    MaxCrashes = 0
INVARIANT
    PendingTogether
CHECK_DEADLOCK FALSE
